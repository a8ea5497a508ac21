------------------------------ MODULE LiveBoard ------------------------------
(***************************************************************************)
(* The console's live board.  Its socket (lib/socket.ts, use-socket.ts,    *)
(* socketServer.ts), one for the session, that presents the access token   *)
(* at every handshake.  Its map (live-presence.tsx, live-map.tsx), which   *)
(* reconciles pins with the people present and draws the geofences once it *)
(* has loaded.  Its feed (live-feed-tile.tsx), which highlights what has   *)
(* arrived.  The three share nothing.                                      *)
(***************************************************************************)
EXTENDS Naturals, Sequences, FiniteSets, Functions

CONSTANTS
    MaxMounts,  \* bound on the times a component is mounted
    Watched,    \* employees the map may show
    Places,     \* where they may have checked in
    MaxFences,  \* bound on the versions of the geofences
    FeedLogs    \* check-ins the feed may list

ASSUME BoardAssumption == MaxMounts \in Nat /\ MaxFences \in Nat \ {0}

Unlocated == "unlocated" \* a position whose envelope did not open
Away == "away"           \* the latest event today, if any, is not a check-in

VARIABLES
    shell,      \* the mounted instance of the console's layout, 0 for none
    shells,
    listening,  \* instances whose handlers the socket calls
    dial,       \* "closed", "waiting", "refused", "handshake" or "live"
    presented,  \* the token of the handshake under way is still valid
    tokenValid, \* the access token in memory is
    renewing,   \* /refresh is under way
    renewFailed,\* ghost: it failed since the last refusal
    feedLabel   \* what the top bar says of the connection

socketVars ==
    <<shell, shells, listening, dial, presented, tokenValid, renewing, renewFailed, feedLabel>>

VARIABLES
    presentAt,     \* of each employee the latest event's place, or Away
    sealed,        \* employees whose positions cannot be opened now
    fencesNow,     \* version of the geofences in the database
    presence,      \* answer of GET /attendance/live-map that is shown
    fetched,       \* there has been one
    fencesHeld,        \* version of the geofences the page has, 0 for none
    canvas,        \* "none", "loading" or "loaded"
    onLoad,        \* versions to be drawn when the map has loaded
    drawn,         \* version drawn
    pins,          \* position of each pin
    lastPlace      \* ghost: where each employee last was since on the map

mapVars ==
    <<presentAt, sealed, fencesNow, presence, fetched, fencesHeld, canvas, onLoad, drawn, pins,
      lastPlace>>
worldVars == <<presentAt, sealed, fencesNow>>

VARIABLES
    tile,     \* the feed's tile is mounted
    rowsListed,   \* rows of the cache
    seenRows, \* the tile's ref of rows it has rendered
    fresh,    \* rows highlighted
    fading,   \* the timer that ends it runs
    settled   \* ghost: rows that were there at the mount, or have faded since

tileVars == <<tile, rowsListed, seenRows, fresh, fading, settled>>

BoardTypeOK ==
    /\ shell \in 0..MaxMounts /\ shells \in 0..MaxMounts /\ listening \subseteq 1..MaxMounts
    /\ dial \in {"closed", "waiting", "refused", "handshake", "live"}
    /\ {presented, tokenValid, renewing, renewFailed} \subseteq BOOLEAN
    /\ feedLabel \in {"connecting", "live", "offline"}
    /\ presentAt \in [Watched -> Places \cup {Away}] /\ sealed \subseteq Watched
    /\ {fencesNow, fencesHeld, drawn} \subseteq 0..MaxFences
    /\ \A u \in DOMAIN presence : u \in Watched /\ presence[u] \in Places \cup {Unlocated}
    /\ fetched \in BOOLEAN /\ canvas \in {"none", "loading", "loaded"}
    /\ \A u \in DOMAIN pins : u \in Watched /\ pins[u] \in Places
    /\ {tile, fading} \subseteq BOOLEAN /\ rowsListed \cup seenRows \cup fresh \cup settled \subseteq FeedLogs

BoardInit ==
    /\ shell = 0 /\ shells = 0 /\ listening = {} /\ dial = "closed" /\ presented = FALSE
    /\ tokenValid = TRUE /\ renewing = FALSE /\ renewFailed = FALSE /\ feedLabel = "connecting"
    /\ presentAt = [u \in Watched |-> Away] /\ sealed = {} /\ fencesNow = 1
    /\ presence = <<>> /\ fetched = FALSE /\ fencesHeld = 0
    /\ canvas = "none" /\ onLoad = <<>> /\ drawn = 0 /\ pins = <<>> /\ lastPlace = <<>>
    /\ tile = FALSE /\ rowsListed = {} /\ seenRows = {} /\ fresh = {} /\ fading = FALSE /\ settled = {}

-----------------------------------------------------------------------------
(* The socket. *)

\* getSocket: the one client, made closed; connect() dials unless it is open.
Dialled == IF dial = "closed" THEN "waiting" ELSE dial

\* The effect of useAttendanceSocket: handlers, then connect().
MountShell ==
    /\ shell = 0 /\ shells < MaxMounts
    /\ shells' = shells + 1 /\ shell' = shells'
    /\ listening' = listening \cup {shell'}
    /\ dial' = Dialled
    /\ feedLabel' = IF dial' = "live" THEN "live" ELSE "connecting"
    /\ UNCHANGED <<presented, tokenValid, renewing, renewFailed>>

\* Mutation: the clean-up leaves its handlers on the socket.
UnmountShellListening ==
    /\ shell # 0 /\ shell' = 0
    /\ dial' = "closed"
    /\ UNCHANGED <<shells, listening, presented, tokenValid, renewing, renewFailed, feedLabel>>

UnmountShell ==
    /\ shell # 0 /\ shell' = 0
    /\ listening' = listening \ {shell}
    /\ dial' = "closed"
    /\ UNCHANGED <<shells, presented, tokenValid, renewing, renewFailed, feedLabel>>

\* Every attempt reads the token anew.
Attempt ==
    /\ dial \in {"waiting", "refused"}
    /\ dial' = "handshake" /\ presented' = tokenValid
    /\ UNCHANGED <<shell, shells, listening, tokenValid, renewing, renewFailed, feedLabel>>

\* verifySocketAuth lets a valid token in.
Connected ==
    /\ dial = "handshake" /\ presented
    /\ dial' = "live" /\ feedLabel' = "live"
    /\ UNCHANGED <<shell, shells, listening, presented, tokenValid, renewing, renewFailed>>

\* refreshAccessToken: not joined to one under way, but they count as one here.
RenewToken == renewing' = TRUE /\ renewFailed' = FALSE

\* Mutation: the refusal is taken for any other failure.
RefusedUnheard ==
    /\ dial = "handshake" /\ ~presented
    /\ dial' = "refused" /\ feedLabel' = "offline"
    /\ UNCHANGED <<shell, shells, listening, presented, tokenValid, renewing, renewFailed>>

\* Refused for its token: the console asks for another.  use-socket.ts expects
\* the library to dial again after a refusal; here it may, or never does.
RefusedForToken ==
    /\ dial = "handshake" /\ ~presented
    /\ dial' = "refused" /\ feedLabel' = "offline"
    /\ RenewToken
    /\ UNCHANGED <<shell, shells, listening, presented, tokenValid>>

\* The network fails: a handshake is given up, a connection breaks.
NetworkDown ==
    /\ dial \in {"handshake", "live"}
    /\ dial' = "waiting" /\ feedLabel' = "offline"
    /\ UNCHANGED <<shell, shells, listening, presented, tokenValid, renewing, renewFailed>>

\* Fifteen minutes have passed; a connection stays.  Bound: not in the
\* seconds between a refusal and the next attempt.
TokenExpires ==
    /\ tokenValid /\ dial # "refused"
    /\ tokenValid' = FALSE /\ presented' = FALSE
    /\ UNCHANGED <<shell, shells, listening, dial, renewing, renewFailed, feedLabel>>

Renewed ==
    /\ renewing /\ renewing' = FALSE
    /\ \/ tokenValid' = TRUE /\ UNCHANGED renewFailed
       \/ renewFailed' = TRUE /\ UNCHANGED tokenValid
    /\ UNCHANGED <<shell, shells, listening, dial, presented, feedLabel>>

SocketNext ==
    MountShell \/ UnmountShell \/ Attempt \/ Connected \/ RefusedForToken \/ NetworkDown \/ TokenExpires \/ Renewed

-----------------------------------------------------------------------------
(* The map. *)

\* Check-ins, check-outs and the end of the day; keys that fail and come back.
Moves(u) ==
    /\ \E at \in (Places \cup {Away}) \ {presentAt[u]} : presentAt' = [presentAt EXCEPT ![u] = at]
    /\ UNCHANGED <<sealed, fencesNow, presence, fetched, fencesHeld, canvas, onLoad, drawn, pins, lastPlace>>

KeyTrouble(u) ==
    /\ sealed' = IF u \in sealed THEN sealed \ {u} ELSE sealed \cup {u}
    /\ UNCHANGED <<presentAt, fencesNow, presence, fetched, fencesHeld, canvas, onLoad, drawn, pins, lastPlace>>

FenceSaved ==
    /\ fencesNow < MaxFences /\ fencesNow' = fencesNow + 1
    /\ UNCHANGED <<presentAt, sealed, presence, fetched, fencesHeld, canvas, onLoad, drawn, pins, lastPlace>>

\* openGeoPoint: a position that does not open is null.
OpenGeoPoint(u) == IF u \in sealed THEN Unlocated ELSE presentAt[u]

\* getLiveMap: those whose latest event today is a check-in.
LiveMap == [u \in {v \in Watched : presentAt[v] # Away} |-> OpenGeoPoint(u)]

Located(answer) == {u \in DOMAIN answer : answer[u] # Unlocated}

\* Mutation: an entry without a position does not count as present.
ReconciledByPlace(answer) == [u \in Located(answer) |-> answer[u]]

\* Pins of people who are present: moved or set where a position is known,
\* left alone where not, removed of all others.
Reconciled(answer) ==
    [u \in Located(answer) \cup (DOMAIN pins \cap DOMAIN answer) |->
        IF u \in Located(answer) THEN answer[u] ELSE pins[u]]

PlacesKept(answer) ==
    [u \in Located(answer) \cup (DOMAIN lastPlace \cap DOMAIN answer) |->
        IF u \in Located(answer) THEN answer[u] ELSE lastPlace[u]]

\* The map is made with the first answer, or when there is none to be had.
\* Its effects run in the order map, fences, pins.
CanvasOf(state) == IF state = "none" THEN "loading" ELSE state
FencesDue(version) == IF canvas = "loaded" THEN onLoad ELSE Append(onLoad, version)

\* Every 30 seconds, on focus and on mount: the answer, or an error that
\* leaves the last answer shown.
PresenceFetched ==
    /\ canvas # "none" \/ ~fetched
    /\ \/ /\ presence' = LiveMap /\ fetched' = TRUE
          /\ pins' = Reconciled(presence') /\ lastPlace' = PlacesKept(presence')
       \/ UNCHANGED <<presence, fetched, pins, lastPlace>>
    /\ canvas' = CanvasOf(canvas)
    /\ onLoad' = IF canvas = "none" THEN FencesDue(fencesHeld) ELSE onLoad
    /\ UNCHANGED <<worldVars, fencesHeld, drawn>>

\* The geofences: drawn at once, or by the handler of "load".
FencesFetched ==
    /\ fencesHeld # fencesNow
    /\ fencesHeld' = fencesNow
    /\ drawn' = IF canvas = "loaded" THEN fencesHeld' ELSE drawn
    /\ onLoad' = IF canvas = "loading" THEN FencesDue(fencesHeld') ELSE onLoad
    /\ UNCHANGED <<worldVars, presence, fetched, canvas, pins, lastPlace>>

\* The source and its layers are added, then the handlers run in order.
MapLoaded ==
    /\ canvas = "loading" /\ canvas' = "loaded"
    /\ drawn' = IF onLoad = <<>> THEN 0 ELSE onLoad[Len(onLoad)]
    /\ onLoad' = <<>>
    /\ UNCHANGED <<worldVars, presence, fetched, fencesHeld, pins, lastPlace>>

\* The page is left; the cached answers stay.  Back on it, the map is made
\* at once, with all that is cached.
LeaveMap ==
    /\ canvas # "none" /\ canvas' = "none"
    /\ onLoad' = <<>> /\ drawn' = 0 /\ pins' = <<>> /\ lastPlace' = <<>>
    /\ UNCHANGED <<worldVars, presence, fetched, fencesHeld>>

BackToMap ==
    /\ canvas = "none" /\ fetched
    /\ canvas' = "loading" /\ onLoad' = <<fencesHeld>>
    /\ pins' = Reconciled(presence) /\ lastPlace' = PlacesKept(presence)
    /\ UNCHANGED <<worldVars, presence, fetched, fencesHeld, drawn>>

MapNext ==
    \/ \E u \in Watched : Moves(u) \/ KeyTrouble(u)
    \/ FenceSaved \/ PresenceFetched \/ FencesFetched \/ MapLoaded \/ LeaveMap \/ BackToMap

-----------------------------------------------------------------------------
(* The feed's tile. *)

\* Mutation: what the first load brings is highlighted.
RowsChangedAlways(rows, seen0, settled0) ==
    LET incoming == rows \ seen0
    IN  /\ seenRows' = seen0 \cup rows
        /\ fresh' = (IF incoming = {} THEN fresh ELSE incoming)
        /\ fading' = (incoming # {})
        /\ settled' = settled0 \cup (fresh \ fresh') \cup (IF seen0 = {} THEN rows ELSE {})

\* The effect on new data.  Whatever changed, the timer is cleared; the first
\* load is not news, and a change without new rows sets no other timer.
RowsChanged(rows, seen0, settled0) ==
    LET incoming == rows \ seen0
        news == incoming # {} /\ seen0 # {}
    IN  /\ seenRows' = seen0 \cup rows
        /\ fresh' = (IF news THEN incoming ELSE fresh)
        /\ fading' = news
        /\ settled' = settled0 \cup (IF news THEN fresh ELSE {}) \cup (IF seen0 = {} THEN rows ELSE {})

\* The rows change: pushed one by one, fetched, or changed in a column.
FeedChanges(rows) ==
    /\ rowsListed' = rows
    /\ IF tile THEN RowsChanged(rows, seenRows, settled)
               ELSE UNCHANGED <<seenRows, fresh, fading, settled>>
    /\ UNCHANGED tile

HighlightEnds ==
    /\ fading
    /\ fresh' = {} /\ fading' = FALSE /\ settled' = settled \cup fresh
    /\ UNCHANGED <<tile, rowsListed, seenRows>>

MountTile ==
    /\ ~tile /\ tile' = TRUE
    /\ RowsChanged(rowsListed, {}, settled)
    /\ UNCHANGED rowsListed

LeaveTile ==
    /\ tile /\ tile' = FALSE
    /\ seenRows' = {} /\ fresh' = {} /\ fading' = FALSE /\ settled' = {}
    /\ UNCHANGED rowsListed

TileNext ==
    \/ \E rows \in SUBSET FeedLogs : FeedChanges(rows)
    \/ HighlightEnds \/ MountTile \/ LeaveTile

BoardSpec ==
    /\ BoardInit
    /\ [][SocketNext]_socketVars /\ [][MapNext]_mapVars /\ [][TileNext]_tileVars

-----------------------------------------------------------------------------
\* Whatever was mounted and unmounted before, a check-in is handled once: the
\* socket has the handlers of the mounted layout and is closed without one.
HandledOnce ==
    /\ listening = (IF shell = 0 THEN {} ELSE {shell})
    /\ (dial = "closed") <=> (shell = 0)

\* The top bar does not call a connection live that is not, nor offline one
\* that is; and refused for its token, the console has a better one, whether
\* or not it is dialled with, or has asked for one, or could get none.
FeedLabelTrue ==
    /\ shell # 0 => (feedLabel = "live" <=> dial = "live")
    /\ dial = "refused" => tokenValid \/ renewing \/ renewFailed

\* A pin is of someone present, at the last place that was known: one whose
\* position cannot be read now keeps the pin, one who has gone loses it.
PinsFollow ==
    canvas # "none" =>
        /\ DOMAIN pins \subseteq DOMAIN presence
        /\ pins = lastPlace
        /\ Located(presence) \subseteq DOMAIN pins

\* Whichever came first, the map or the geofences, they are drawn.
FencesDrawn == canvas = "loaded" => drawn = fencesHeld

\* What is highlighted has come since the tile was opened, and once.
HighlightsAreNews == fresh \cap settled = {} /\ fresh \subseteq seenRows

BoardSound == HandledOnce /\ FeedLabelTrue /\ PinsFollow /\ FencesDrawn /\ HighlightsAreNews
=============================================================================
