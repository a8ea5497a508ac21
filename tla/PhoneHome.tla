------------------------------ MODULE PhoneHome ------------------------------
(***************************************************************************)
(* What the phone shows of its user: the state of the app (AppContext.jsx) *)
(* filled from GET /api/mobile/me, the screens that read it (App, Home,    *)
(* Profile, Login) and the telemetry that follows it.  Built for offline   *)
(* work (VITE_MOCK_BACKEND) the app answers itself.  Records are numbered  *)
(* in the order in which they are made.                                    *)
(***************************************************************************)
EXTENDS Naturals, Sequences, SequencesExt, FiniteSets

CONSTANTS
    Staff,       \* employees who use this phone
    Assignments, \* what HR may have assigned an employee
    MaxRecords,  \* bound on the check-ins
    MaxSignOuts, \* bound on the requests to log out under way
    HistoryMax,  \* records the app keeps: 25 in the code
    FetchMax,    \* records the profile brings: 10 in the code
    HomeRowsMax  \* records the home page lists: 5 in the code

ASSUME HomeAssumption ==
    /\ Assignments \subseteq SUBSET {"office", "fence", "shift"}
    /\ MaxRecords \in Nat /\ MaxSignOuts \in Nat
    /\ HistoryMax \in Nat \ {0} /\ HomeRowsMax \in Nat \ {0}
    /\ FetchMax \in 0..HistoryMax

Nobody == "nobody"
LoginSlots == {"l1", "l2"} \* submits of the login form that may overlap
MarkRecords == Staff \X (0..MaxRecords)
NoRecord == <<>>

VARIABLES
    mocked,    \* the app was built to answer itself
    assigned,  \* what HR has assigned each employee
    ledger,    \* each employee's records in the backend, newest first
    recordsMade,
    app,       \* the state of AppContext
    route,     \* the route, or "crashed"
    entering,  \* each login under way: its request, and who that is answered for
    tokenOf,   \* whose tokens lib/http.js holds
    inRefresh,  \* the refresh in flight: {}, or {whose token it sent}
    tracked,   \* whose positions telemetry sends
    effectDue, \* a render whose effects have not run
    signingOut, \* requests to log out under way
    restored,  \* ghost: the tokens are of a refresh that was for others
    overlapped \* ghost: logins have overlapped since the form was left alone

homeVars ==
    <<mocked, assigned, ledger, recordsMade, app, route, entering, tokenOf, inRefresh, tracked,
      effectDue, signingOut, restored, overlapped>>
backendVars == <<mocked, assigned, ledger, recordsMade>>
tokenFacts == <<tokenOf, inRefresh, restored>>

InitialApp ==
    [signedIn |-> FALSE, employee |-> Nobody, office |-> FALSE, shift |-> FALSE,
     checkedInAt |-> NoRecord, history |-> <<>>]

HomeTypeOK ==
    /\ mocked \in BOOLEAN /\ assigned \in [Staff -> Assignments]
    /\ \A u \in Staff : Range(ledger[u]) \subseteq MarkRecords
    /\ recordsMade \in 0..MaxRecords
    /\ DOMAIN app = DOMAIN InitialApp /\ app.employee \in Staff \cup {Nobody}
    /\ app.checkedInAt \in MarkRecords \cup {NoRecord} /\ Range(app.history) \subseteq MarkRecords
    /\ Len(app.history) <= HistoryMax
    /\ route \in {"/", "/check-in", "/profile", "crashed"}
    /\ entering \in [LoginSlots -> {<<>>} \cup ({"login", "me", "parked", "again"} \X Staff)]
    /\ {tokenOf, tracked} \cup inRefresh \subseteq Staff \cup {Nobody}
    /\ effectDue \in BOOLEAN /\ signingOut \in 0..MaxSignOuts
    /\ restored \in BOOLEAN /\ overlapped \in BOOLEAN

HomeInit ==
    /\ mocked \in BOOLEAN
    /\ assigned \in [Staff -> Assignments]
    /\ ledger = [u \in Staff |-> <<>>] /\ recordsMade = 0
    /\ app = InitialApp /\ route = "/"
    /\ entering = [s \in LoginSlots |-> <<>>]
    /\ tokenOf = Nobody /\ inRefresh = {} /\ tracked = Nobody
    /\ effectDue = FALSE /\ signingOut = 0 /\ restored = FALSE /\ overlapped = FALSE

FirstOf(n, s) == SubSeq(s, 1, IF n < Len(s) THEN n ELSE Len(s))

\* GET /api/mobile/me: the assignments as they are, and the latest records.
\* The geofence is looked up through the office.
MobileProfile(u) ==
    [employee |-> u, office |-> "office" \in assigned[u],
     fence |-> {"office", "fence"} \subseteq assigned[u], shift |-> "shift" \in assigned[u],
     logs |-> FirstOf(FetchMax, ledger[u])]

\* The same of the app that answers itself: all assigned, and the same
\* records of earlier days whatever was recorded since.
MockProfile(u) ==
    [employee |-> u, office |-> TRUE, fence |-> TRUE, shift |-> TRUE, logs |-> <<<<u, 0>>>>]

\* An office without a geofence is none.
MapProfileToState(profile) ==
    [employee |-> profile.employee, office |-> profile.office /\ profile.fence,
     shift |-> profile.shift, history |-> profile.logs]

\* React renders the new state; its effects are still to run.
Rendered == effectDue' = TRUE

\* PROFILE_LOADED: what the profile does not bring is kept.
ProfileLoaded(profile) ==
    LET mapped == MapProfileToState(profile)
    IN  app' = [signedIn |-> TRUE, employee |-> mapped.employee, office |-> mapped.office,
                shift |-> mapped.shift, checkedInAt |-> app.checkedInAt, history |-> mapped.history]

\* Mutation: the user is signed out and the state kept.
LogoutKeeping ==
    IF route = "crashed" THEN UNCHANGED <<app, effectDue>>
    ELSE app' = [app EXCEPT !.signedIn = FALSE] /\ Rendered

\* LOGOUT, unless the app is gone.
Logout == IF route = "crashed" THEN UNCHANGED <<app, effectDue>> ELSE app' = InitialApp /\ Rendered

\* HR changes what an employee is assigned; a running app does not notice.
Assign(u, places) ==
    /\ assigned[u] # places /\ ~mocked
    /\ assigned' = [assigned EXCEPT ![u] = places]
    /\ UNCHANGED <<mocked, ledger, recordsMade, app, route, entering, tokenFacts, tracked, effectDue,
                   signingOut, overlapped>>

LoginsUnderWay == {s \in LoginSlots : entering[s] # <<>>}

\* Shell shows the login form and nothing else to whoever is not signed in.
\* Its button is disabled while a login is under way; the Enter key is not.
SubmitHomeLogin(s, u) ==
    /\ ~app.signedIn /\ route # "crashed" /\ ~effectDue
    /\ entering[s] = <<>>
    /\ entering' = [entering EXCEPT ![s] = <<"login", u>>]
    /\ overlapped' = (LoginsUnderWay # {})
    /\ UNCHANGED <<backendVars, app, route, tokenFacts, tracked, effectDue, signingOut>>

\* loginMobile: the tokens are this employee's from now on, and the profile
\* is asked for with them.
HomeLoginAnswered(s) ==
    /\ entering[s] # <<>> /\ entering[s][1] = "login"
    /\ entering' = [entering EXCEPT ![s] = <<"me", entering[s][2]>>]
    /\ tokenOf' = entering[s][2] /\ restored' = FALSE
    /\ UNCHANGED <<backendVars, app, route, inRefresh, tracked, effectDue, signingOut, overlapped>>

\* Either request fails: LOGIN_FAILED, and the tokens stay as they are.
LoginFailed(s) ==
    /\ entering[s] # <<>> /\ entering[s][1] # "parked"
    /\ entering' = [entering EXCEPT ![s] = <<>>]
    /\ UNCHANGED <<backendVars, app, route, tokenFacts, tracked, effectDue, signingOut, overlapped>>

\* The route stays what it is.  The check-in screen reads the office it does
\* not ask for, and an error while rendering unmounts the whole app.
RouteShown(to, state) == IF to = "/check-in" /\ ~state.office THEN "crashed" ELSE to
HomeCrashes == tracked' = (IF route' = "crashed" THEN Nobody ELSE tracked)

\* The profile arrives, even after the form has gone.
ProfileArrives(s) ==
    /\ entering[s] # <<>> /\ entering[s][1] \in {"me", "again"} /\ route # "crashed"
    /\ LET u == entering[s][2]
       IN  ProfileLoaded(IF mocked THEN MockProfile(u) ELSE MobileProfile(u))
    /\ entering' = [entering EXCEPT ![s] = <<>>]
    /\ route' = RouteShown(route, app')
    /\ HomeCrashes /\ effectDue' = (route' # "crashed")
    /\ UNCHANGED <<backendVars, tokenFacts, signingOut, overlapped>>

\* A request of the app is refused for its token: the refresh begins, unless
\* one is in flight.  (MobileSession has the requests.)
RenewBegins ==
    /\ ~mocked /\ inRefresh = {}
    /\ inRefresh' = {tokenOf}
    /\ UNCHANGED <<backendVars, app, route, entering, tokenOf, restored, tracked, effectDue, signingOut,
                   overlapped>>

\* The profile's own request is, the first time: it waits for the refresh.
ProfileParked(s) ==
    /\ ~mocked
    /\ entering[s] # <<>> /\ entering[s][1] = "me"
    /\ entering' = [entering EXCEPT ![s] = <<"parked", entering[s][2]>>]
    /\ inRefresh' = IF inRefresh = {} THEN {tokenOf} ELSE inRefresh
    /\ UNCHANGED <<backendVars, app, route, tokenOf, restored, tracked, effectDue, signingOut,
                   overlapped>>

ParkedLogins == {s \in LoginSlots : entering[s] # <<>> /\ entering[s][1] = "parked"}

\* The refresh succeeds, after whatever sign-out or login there was meanwhile:
\* its token is held, and what waited is asked for again with it.
RefreshEnds(u) ==
    /\ u \in inRefresh \ {Nobody}
    /\ inRefresh' = {}
    /\ tokenOf' = u /\ restored' = (restored \/ tokenOf # u)
    /\ entering' = [s \in LoginSlots |-> IF s \in ParkedLogins THEN <<"again", u>> ELSE entering[s]]
    /\ UNCHANGED <<backendVars, app, route, tracked, effectDue, signingOut, overlapped>>

\* It fails: http.js drops the tokens and calls the handler of Shell, and
\* what waited fails.
SessionExpired ==
    /\ inRefresh # {} /\ inRefresh' = {}
    /\ tokenOf' = Nobody /\ restored' = FALSE
    /\ Logout
    /\ entering' = [s \in LoginSlots |-> IF s \in ParkedLogins THEN <<>> ELSE entering[s]]
    /\ UNCHANGED <<backendVars, route, tracked, signingOut, overlapped>>

\* The effects of Shell: telemetry of the employee there is, or none.
EffectsRun ==
    /\ effectDue
    /\ effectDue' = FALSE
    /\ tracked' = IF app.signedIn THEN app.employee ELSE Nobody
    /\ UNCHANGED <<backendVars, app, route, entering, tokenFacts, signingOut, overlapped>>

\* What Home shows of the state, nothing at all of one without an office.
HomePage ==
    IF ~app.office THEN [button |-> "none", rows |-> <<>>]
    ELSE [button |-> IF app.checkedInAt # NoRecord THEN "check out" ELSE "check in",
          rows   |-> FirstOf(HomeRowsMax, app.history)]

\* Profile offers to sign out, and shows nothing without an office either.
ProfilePage == IF app.office THEN {"sign out"} ELSE {}

\* The tab bar.
Go(to) ==
    /\ app.signedIn /\ route \notin {to, "crashed"}
    /\ route' = RouteShown(to, app)
    /\ HomeCrashes /\ effectDue' = (effectDue /\ route' # "crashed")
    /\ UNCHANGED <<backendVars, app, entering, tokenFacts, signingOut, overlapped>>

\* CHECK_IN_SUCCESS: the record is put first, and is the session's.
CheckInSuccess(record) ==
    app' = [app EXCEPT !.checkedInAt = record,
                       !.history = FirstOf(HistoryMax, <<record>> \o @)]

\* A check-in is recorded for whoever the token belongs to; the app lists it
\* if the answer finds the screen.  (CheckInPhone has the sequence.)
CheckInRecorded ==
    /\ route = "/check-in" /\ app.signedIn /\ app.office
    /\ tokenOf # Nobody /\ recordsMade < MaxRecords
    /\ LET record == <<tokenOf, recordsMade + 1>>
       IN  /\ recordsMade' = recordsMade + 1
           /\ ledger' = IF mocked THEN ledger
                        ELSE [ledger EXCEPT ![tokenOf] = <<record>> \o @]
           /\ CheckInSuccess(record) \/ UNCHANGED app
    /\ UNCHANGED <<mocked, assigned, route, entering, tokenFacts, tracked, effectDue, signingOut,
                   overlapped>>

\* CHECK_OUT: the button of the home page; nothing is sent.
CheckOut ==
    /\ route = "/" /\ app.signedIn /\ HomePage.button = "check out"
    /\ app' = [app EXCEPT !.checkedInAt = NoRecord]
    /\ UNCHANGED <<backendVars, route, entering, tokenFacts, tracked, effectDue, signingOut, overlapped>>

\* The button stays enabled while a request to log out is under way.
HomeSignOut ==
    /\ route = "/profile" /\ app.signedIn /\ "sign out" \in ProfilePage
    /\ signingOut < MaxSignOuts /\ signingOut' = signingOut + 1
    /\ tracked' = Nobody
    /\ UNCHANGED <<backendVars, app, route, entering, tokenFacts, effectDue, overlapped>>

\* The request to log out has ended, well or not: whoever is signed in by now
\* is signed out.
HomeSignedOut ==
    /\ signingOut > 0 /\ signingOut' = signingOut - 1
    /\ tokenOf' = Nobody /\ restored' = FALSE
    /\ Logout
    /\ UNCHANGED <<backendVars, route, entering, inRefresh, tracked, overlapped>>

\* The app is killed and opened again: nothing is kept.
Reopen ==
    /\ app' = InitialApp /\ route' = "/"
    /\ entering' = [s \in LoginSlots |-> <<>>]
    /\ tokenOf' = Nobody /\ inRefresh' = {} /\ tracked' = Nobody
    /\ effectDue' = FALSE /\ signingOut' = 0 /\ restored' = FALSE /\ overlapped' = FALSE
    /\ UNCHANGED backendVars

HomeNext ==
    \/ \E u \in Staff : RefreshEnds(u) \/ \E places \in Assignments : Assign(u, places)
    \/ \E s \in LoginSlots :
          \/ HomeLoginAnswered(s) \/ LoginFailed(s) \/ ProfileArrives(s) \/ ProfileParked(s)
          \/ \E u \in Staff : SubmitHomeLogin(s, u)
    \/ \E to \in {"/", "/check-in", "/profile"} : Go(to)
    \/ EffectsRun \/ CheckInRecorded \/ CheckOut \/ HomeSignOut \/ HomeSignedOut
    \/ RenewBegins \/ SessionExpired \/ Reopen

HomeSpec == HomeInit /\ [][HomeNext]_homeVars

-----------------------------------------------------------------------------
NewestFirst(s) == \A i, j \in DOMAIN s : i < j => s[i][2] > s[j][2]

\* Logins that overlapped, and a refresh that was for other tokens than it
\* found, put one employee's token under another's screen, until that session
\* ends.  Nothing else does.
Crossed == overlapped \/ restored

\* What is shown is of the employee the tokens belong to, and none of it is
\* left when nobody is signed in - so nothing of one employee meets the next.
OwnDataShown ==
    route # "crashed" =>
        /\ ~app.signedIn => app = InitialApp
        /\ app.signedIn /\ ~Crossed =>
              /\ tokenOf \in {app.employee, Nobody}
              /\ \A i \in DOMAIN app.history : app.history[i][1] = app.employee

\* The session is of a check-in that is listed, and the list is in order: a
\* profile that arrives over another's keeps the other's session.
SessionListed ==
    /\ NewestFirst(app.history)
    /\ ~overlapped =>
          /\ app.checkedInAt # NoRecord => app.checkedInAt \in Range(app.history)
          /\ HomePage.button = "check out" => HomePage.rows # <<>>

\* Once the effects have run, positions are sent of nobody but the employee
\* signed in, and under no other employee's token.
TrackedIsShown ==
    (tracked # Nobody /\ ~effectDue) =>
        /\ tracked = app.employee
        /\ ~Crossed => tokenOf \in {tracked, Nobody}

HomeSound == OwnDataShown /\ SessionListed /\ TrackedIsShown
=============================================================================
