----------------------------- MODULE FenceCircle -----------------------------
(***************************************************************************)
(* Where a geofence is.  The console's editor (geofence-manager.tsx,       *)
(* geofence-form.tsx) keeps latitude and longitude by name and draws pin   *)
(* and circle on a map it does not re-create (geofence-map.tsx); the       *)
(* record holds a GeoJSON pair, longitude first; the check of a check-in   *)
(* (geofenceService.ts) and the badge of the phone (geofence.js) read it   *)
(* back.  Offices has the drafts of several tabs, this module what a       *)
(* position means on its way.                                              *)
(* Angles are in thousandths of a degree, distances in metres; the metric  *)
(* is a flat one, of which only the symmetry matters.                      *)
(***************************************************************************)
EXTENDS Integers, FiniteSets

CONSTANTS
    Zones,     \* document ids of geofences
    Spots,     \* positions [lat, lng] somebody may point at or stand on
    Centre,    \* DEFAULT_MAP_CENTER
    Radii,     \* radii the slider and the presets offer
    DefaultRadius, \* DEFAULT_GEOFENCE_RADIUS
    MaxEdits,  \* bound on the moves of pin and slider
    MaxWrites, \* bound on the requests the editor sends
    NoZone     \* no record, no profile, no circle, no form

ASSUME FenceCircleAssumption ==
    /\ Centre \in Spots /\ Radii \subseteq Nat \ {0} /\ DefaultRadius \in Radii
    /\ MaxEdits \in Nat /\ MaxWrites \in Nat
    /\ Spots \subseteq [lat : Int, lng : Int]
    /\ "new" \notin Zones /\ NoZone \notin Zones

\* toGeoJSONTuple, toGeoJSONPoint: longitude first.  pointToLatLng: back.
GeoPair(p) == <<p.lng, p.lat>>
Named(pair) == [lat |-> pair[2], lng |-> pair[1]]

\* Mutation: latitude first, as the map's own callbacks name it.
GeoPairSwapped(p) == <<p.lat, p.lng>>

BdLat(x) == x \in 20500..26700
BdLng(x) == x \in 88000..92700

\* looksFlippedForBangladesh: a pair that reads as latitude, longitude there.
LooksFlipped(pair) == BdLat(pair[1]) /\ BdLng(pair[2])

\* Mutation: the range is all that is checked.
LooksFlippedNever(pair) == FALSE

Latitudes == -90000..90000
Longitudes == -180000..180000
InRange(p) == p.lat \in Latitudes /\ p.lng \in Longitudes

\* geoJSONPointSchema in the form; the route's schema and
\* assertUsableCoordinates in the backend.
FormAccepts(p) == ~LooksFlipped(GeoPair(p)) /\ InRange(p)
AssertUsable(p) == InRange(p) /\ ~LooksFlipped(GeoPair(p))

Abs(x) == IF x < 0 THEN -x ELSE x
Metres(a, b) ==
    LET east  == Abs(a[1] - b[1])
        north == Abs(a[2] - b[2])
    IN  111 * (IF east > north THEN east ELSE north)

Circles == {[at |-> GeoPair(p), radius |-> r] : p \in Spots, r \in Radii}

ASSUME NoZoneIsNoCircle == NoZone \notin Circles

\* isInsideGeofence of the backend: the record's centre within its radius of
\* the position; nobody is inside a geofence that is gone.
InsideGeofence(zone, p) ==
    zone # NoZone /\ Metres(GeoPair(p), zone.at) <= zone.radius

\* Mutation: the pair the other way round.
InsideSwapped(zone, p) ==
    zone # NoZone /\ Metres(<<p.lat, p.lng>>, zone.at) <= zone.radius

\* The same of the phone, over the named pair of its profile.
BadgeInside(office, p) ==
    Metres(GeoPair(p), GeoPair(office)) <= office.radiusMeters

VARIABLES
    zones,    \* geofences in the database
    known,    \* the list the console has cached
    sheet,    \* the open form, or NoZone
    editorMap,   \* its map: marker, circle, what the load handler waits with
    requests, \* saves and removals under way
    edits, writes,  \* moves and requests so far
    office,   \* the office in the phone's profile
    sighted   \* ghost: positions the pin was drawn at when it was confirmed

fenceVars == <<zones, known, sheet, editorMap, requests, edits, writes, office, sighted>>

FenceTypeOK ==
    /\ \A z \in Zones : zones[z] \in Circles \cup {NoZone} /\ known[z] \in Circles \cup {NoZone}
    /\ sheet # NoZone =>
         /\ sheet.of \in Zones \cup {"new"} /\ [lat |-> sheet.lat, lng |-> sheet.lng] \in Spots
         /\ sheet.radius \in Radii /\ {sheet.verified, sheet.moved} \subseteq BOOLEAN
    /\ editorMap.loaded \in BOOLEAN
    /\ {editorMap.circle, editorMap.waiting} \subseteq Circles \cup {NoZone}
    /\ edits \in 0..MaxEdits /\ writes \in 0..MaxWrites
    /\ sighted \subseteq {GeoPair(p) : p \in Spots}

NoMap == [loaded |-> FALSE, marker |-> <<0, 0>>, circle |-> NoZone, waiting |-> NoZone]

FenceInit ==
    /\ zones = [z \in Zones |-> NoZone] /\ known = zones
    /\ sheet = NoZone /\ editorMap = NoMap
    /\ requests = {} /\ edits = 0 /\ writes = 0
    /\ office = NoZone /\ sighted = {}

-----------------------------------------------------------------------------
\* The form, hydrated from a record: its pin counts as confirmed.
SheetOf(z, record) ==
    [of |-> z, lat |-> Named(record.at).lat, lng |-> Named(record.at).lng,
     radius |-> record.radius, verified |-> TRUE, moved |-> FALSE]

Drawn(f) == [at |-> GeoPair(f), radius |-> f.radius]

\* A form is mounted: a map is created with its pin, and the first run of the
\* effects leaves the circle to the load event.
Mount(f) ==
    /\ sheet' = f
    /\ editorMap' = [loaded |-> FALSE, marker |-> GeoPair(f), circle |-> NoZone, waiting |-> Drawn(f)]

\* The form is gone, its map removed; what it sent goes on without it.
Unmount == sheet' = NoZone /\ editorMap' = NoMap

OpenZone(z) ==
    /\ known[z] # NoZone
    /\ sheet # NoZone => sheet.of # z
    /\ Mount(SheetOf(z, known[z]))
    /\ requests' = {[q EXCEPT !.here = FALSE] : q \in requests}
    /\ UNCHANGED <<zones, known, edits, writes, office, sighted>>

AddZone ==
    /\ sheet # NoZone => sheet.of # "new"
    /\ Mount([of |-> "new", lat |-> Centre.lat, lng |-> Centre.lng, radius |-> DefaultRadius,
              verified |-> FALSE, moved |-> FALSE])
    /\ requests' = {[q EXCEPT !.here = FALSE] : q \in requests}
    /\ UNCHANGED <<zones, known, edits, writes, office, sighted>>

CancelSheet ==
    /\ sheet # NoZone
    /\ Unmount
    /\ requests' = {[q EXCEPT !.here = FALSE] : q \in requests}
    /\ UNCHANGED <<zones, known, edits, writes, office, sighted>>

\* The list is fetched again: the form follows its record when that changed,
\* edits and all, and closes when it is gone.
ListFetched ==
    /\ known' = zones
    /\ IF sheet = NoZone \/ sheet.of = "new" THEN UNCHANGED <<sheet, editorMap, requests>>
       ELSE IF zones[sheet.of] = NoZone
       THEN Unmount /\ requests' = {[q EXCEPT !.here = FALSE] : q \in requests}
       ELSE /\ UNCHANGED <<editorMap, requests>>
            /\ sheet' = IF zones[sheet.of] = known[sheet.of] THEN sheet
                        ELSE [SheetOf(sheet.of, zones[sheet.of]) EXCEPT !.moved = TRUE]
    /\ UNCHANGED <<zones, edits, writes, office, sighted>>

\* Mutation: the confirmation survives the move.
PinPlacedChecked(p) ==
    /\ sheet # NoZone /\ edits < MaxEdits
    /\ edits' = edits + 1
    /\ sheet' = [sheet EXCEPT !.lat = p.lat, !.lng = p.lng, !.moved = TRUE]
    /\ UNCHANGED <<zones, known, editorMap, requests, writes, office, sighted>>

\* dragend or a click on the map, also while a save is under way.
PinPlaced(p) ==
    /\ sheet # NoZone /\ edits < MaxEdits
    /\ edits' = edits + 1
    /\ sheet' = [sheet EXCEPT !.lat = p.lat, !.lng = p.lng, !.verified = FALSE, !.moved = TRUE]
    /\ UNCHANGED <<zones, known, editorMap, requests, writes, office, sighted>>

RadiusChosen(r) ==
    /\ sheet # NoZone /\ edits < MaxEdits /\ r # sheet.radius
    /\ edits' = edits + 1
    /\ sheet' = [sheet EXCEPT !.radius = r, !.moved = TRUE]
    /\ UNCHANGED <<zones, known, editorMap, requests, writes, office, sighted>>

\* The effects after a render: the pin moves, and the circle with it, or it
\* is left to the load event, after whatever was left to it before.
Synced ==
    /\ sheet # NoZone /\ sheet.moved
    /\ sheet' = [sheet EXCEPT !.moved = FALSE]
    /\ editorMap' = [editorMap EXCEPT
            !.marker = GeoPair(sheet),
            !.circle = IF editorMap.loaded THEN Drawn(sheet) ELSE @,
            !.waiting = IF editorMap.loaded THEN @ ELSE Drawn(sheet)]
    /\ UNCHANGED <<zones, known, requests, edits, writes, office, sighted>>

\* Mutation: an effect that finds no source yet does nothing.
SyncedIfLoaded ==
    /\ sheet # NoZone /\ sheet.moved
    /\ sheet' = [sheet EXCEPT !.moved = FALSE]
    /\ editorMap' = [editorMap EXCEPT !.marker = GeoPair(sheet),
                                !.circle = IF editorMap.loaded THEN Drawn(sheet) ELSE @]
    /\ UNCHANGED <<zones, known, requests, edits, writes, office, sighted>>

\* load: the first circle is drawn, then those that waited, the latest last.
EditorLoaded ==
    /\ sheet # NoZone /\ ~editorMap.loaded
    /\ editorMap' = [editorMap EXCEPT !.loaded = TRUE, !.circle = editorMap.waiting, !.waiting = NoZone]
    /\ UNCHANGED <<zones, known, sheet, requests, edits, writes, office, sighted>>

\* "I have checked the pin": of what the map draws; an event is handled when
\* the effects of the one before are done.
PinChecked ==
    /\ sheet # NoZone /\ ~sheet.moved
    /\ sheet' = [sheet EXCEPT !.verified = ~@]
    /\ sighted' = IF sheet.verified THEN sighted ELSE sighted \cup {editorMap.marker}
    /\ UNCHANGED <<zones, known, editorMap, requests, edits, writes, office>>

SendEdit(kind) ==
    /\ writes < MaxWrites
    /\ writes' = writes + 1
    /\ ~\E q \in requests : q.here /\ q.kind = kind
    /\ requests' = requests \cup
            {[kind |-> kind, of |-> sheet.of, lat |-> sheet.lat, lng |-> sheet.lng,
              radius |-> sheet.radius, here |-> TRUE, done |-> FALSE, ok |-> FALSE]}

\* submit: only a confirmed pin, and only coordinates the schema accepts.
SubmitSheet ==
    /\ sheet # NoZone /\ sheet.verified /\ ~sheet.moved
    /\ FormAccepts(sheet)
    /\ SendEdit("save")
    /\ UNCHANGED <<zones, known, sheet, editorMap, edits, office, sighted>>

RemoveZone ==
    /\ sheet # NoZone /\ sheet.of # "new" /\ ~sheet.moved
    /\ SendEdit("remove")
    /\ UNCHANGED <<zones, known, sheet, editorMap, edits, office, sighted>>

\* createGeofence and updateGeofence, past the office's fields.
SaveHandled(q) ==
    /\ q.kind = "save" /\ ~q.done
    /\ \/ /\ AssertUsable(q)
          /\ \E z \in Zones :
                /\ IF q.of = "new" THEN zones[z] = NoZone ELSE z = q.of /\ zones[z] # NoZone
                /\ zones' = [zones EXCEPT ![z] = Drawn(q)]
          /\ requests' = (requests \ {q}) \cup {[q EXCEPT !.done = TRUE, !.ok = TRUE]}
       \/ /\ ~AssertUsable(q) \/ (q.of # "new" /\ zones[q.of] = NoZone)
          /\ requests' = (requests \ {q}) \cup {[q EXCEPT !.done = TRUE]}
          /\ UNCHANGED zones
    /\ UNCHANGED <<known, sheet, editorMap, edits, writes, office, sighted>>

RemoveHandled(q) ==
    /\ q.kind = "remove" /\ ~q.done
    /\ zones' = [zones EXCEPT ![q.of] = NoZone]
    /\ requests' = (requests \ {q}) \cup {[q EXCEPT !.done = TRUE, !.ok = zones[q.of] # NoZone]}
    /\ UNCHANGED <<known, sheet, editorMap, edits, writes, office, sighted>>

\* onSuccess calls onSaved, which closes the form that is open now, be it
\* another's.  A failure, or an answer that never came, leaves it: after a
\* save with the message in it, after a removal without a word.
EditAnswered(q) ==
    /\ \/ /\ q.ok
          /\ Unmount
          /\ requests' = {[p EXCEPT !.here = FALSE] : p \in requests \ {q}}
       \/ /\ requests' = requests \ {q}
          /\ UNCHANGED <<sheet, editorMap>>
    /\ UNCHANGED <<zones, known, edits, writes, office, sighted>>

\* The phone logs in: geofenceToNamedPoint of the employee's geofence.
ProfileRead(z) ==
    /\ office' = IF zones[z] = NoZone THEN NoZone
                 ELSE [of |-> z, lat |-> Named(zones[z].at).lat, lng |-> Named(zones[z].at).lng,
                       radiusMeters |-> zones[z].radius]
    /\ UNCHANGED <<zones, known, sheet, editorMap, requests, edits, writes, sighted>>

FenceNext ==
    \/ AddZone \/ CancelSheet \/ ListFetched \/ Synced \/ EditorLoaded \/ PinChecked
    \/ SubmitSheet \/ RemoveZone
    \/ \E z \in Zones : OpenZone(z) \/ ProfileRead(z)
    \/ \E p \in Spots : PinPlaced(p)
    \/ \E r \in Radii : RadiusChosen(r)
    \/ \E q \in requests : SaveHandled(q) \/ RemoveHandled(q) \/ EditAnswered(q)

FenceSpec == FenceInit /\ [][FenceNext]_fenceVars

-----------------------------------------------------------------------------
\* A flip "silently relocates a Dhaka office into the Indian Ocean": whatever
\* is stored lies on the globe, is no swapped pair, and is where the pin was
\* drawn when somebody confirmed it.
PlacedAsSeen ==
    \A z \in Zones : zones[z] # NoZone =>
        /\ InRange(Named(zones[z].at)) /\ ~(BdLat(zones[z].at[1]) /\ BdLng(zones[z].at[2]))
        /\ zones[z].at \in sighted

\* "What is on screen is what MongoDB will enforce": a map that has loaded and
\* settled draws pin and circle of the draft, however the draft was edited
\* before the load.
CircleIsDraft ==
    sheet # NoZone /\ ~sheet.moved =>
        /\ editorMap.marker = GeoPair(sheet)
        /\ editorMap.loaded => editorMap.circle = Drawn(sheet)

\* The phone's badge and the backend's check agree for every position while
\* the profile is the record's: only a geofence edited since the login can
\* tell an employee "inside" and have the check-in refused.
BadgeMatchesCheck ==
    office # NoZone =>
        LET zone == zones[office.of]
        IN  zone = [at |-> GeoPair(office), radius |-> office.radiusMeters]
            => \A p \in Spots : BadgeInside(office, p) = InsideGeofence(zone, p)

FenceSound == PlacedAsSeen /\ CircleIsDraft /\ BadgeMatchesCheck
=============================================================================
