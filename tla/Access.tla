------------------------------- MODULE Access -------------------------------
(***************************************************************************)
(* Who may call what.  Tokens: signing in, refreshing and verifying        *)
(* (utils/jwt.ts, authService.ts, mobileAuthService.ts, middleware/auth.ts)*)
(* and taking an account out of service.  Permissions: the backend's matrix*)
(* and the guards of its routes (middleware/rbac.ts, routes/), and beside  *)
(* it the console's own matrix, pages, buttons and links (lib/rbac.ts,     *)
(* router/routes.tsx, nav-config.ts), which are written independently.     *)
(***************************************************************************)
EXTENDS Naturals

CONSTANTS
    People,
    SignSlots,  \* requests for tokens the backend handles at a time
    AccessTtl,  \* JWT_ACCESS_TTL
    RefreshTtl, \* JWT_REFRESH_TTL
    SignStall,  \* longest time between reading the account and signing
    MaxInstant, \* bound on the clock
    MaxSigned   \* bound on the pairs signed

ASSUME AccessAssumption ==
    /\ AccessTtl \in Nat /\ RefreshTtl \in Nat /\ SignStall \in Nat
    /\ MaxInstant \in Nat /\ MaxSigned \in Nat

RoleKeys == {"super_admin", "admin_hr", "employee"}
TokenKinds == {"access", "refresh"}

-----------------------------------------------------------------------------
\* The backend's matrix.

HR_PERMISSIONS ==
    {"dashboard:view", "employee:read", "employee:write", "geofence:read",
     "geofence:write", "attendance:read", "attendance:review", "leave:read",
     "leave:write", "report:export", "livemap:view", "settings:read"}
SUPER_ADMIN_PERMISSIONS ==
    HR_PERMISSIONS \cup
    {"employee:deactivate", "admin:manage", "audit:read", "billing:read", "policy:write"}
EMPLOYEE_PERMISSIONS ==
    {"attendance:checkin", "attendance:self-read", "leave:self-write",
     "leave:self-read", "dashboard:self-view"}

ROLE_PERMISSIONS ==
    [role \in RoleKeys |->
        CASE role = "super_admin" -> SUPER_ADMIN_PERMISSIONS
          [] role = "admin_hr"    -> HR_PERMISSIONS
          [] role = "employee"    -> EMPLOYEE_PERMISSIONS]

\* The routes with their guards: <<call, permission>>; "" where any token does.
AttendanceRoutes ==
    {<<"GET attendance", "attendance:read">>, <<"GET attendance/feed", "attendance:read">>,
     <<"GET attendance/live-map", "livemap:view">>,
     <<"GET attendance/:id/selfie-url", "attendance:review">>,
     <<"POST attendance/:id/approve", "attendance:review">>,
     <<"POST attendance/:id/reject", "attendance:review">>}
DashboardRoutes ==
    {<<"GET dashboard/kpis", "dashboard:view">>, <<"GET dashboard/trend", "dashboard:view">>}
EmployeeRoutes ==
    {<<"GET employees", "employee:read">>, <<"GET employees/:id", "employee:read">>,
     <<"POST employees", "employee:write">>, <<"PATCH employees/:id", "employee:write">>,
     <<"PATCH employees/:id/photo", "employee:write">>,
     <<"DELETE employees/:id", "employee:deactivate">>}
GeofenceRoutes ==
    {<<"GET geofences", "geofence:read">>, <<"POST geofences", "geofence:write">>,
     <<"PATCH geofences/:id", "geofence:write">>, <<"DELETE geofences/:id", "geofence:write">>}
LeaveRoutes ==
    {<<"GET leave", "leave:read">>, <<"POST leave/:id/approve", "leave:write">>,
     <<"POST leave/:id/reject", "leave:write">>}
OfficeRoutes == {<<"GET offices", "geofence:read">>}

\* Mutation: the policy is changed by whoever may read it.
SuperAdminRoutesLax ==
    {<<"GET admins", "admin:manage">>, <<"GET audit", "audit:read">>,
     <<"GET spoof-alerts", "audit:read">>, <<"GET admins/incidents", "audit:read">>,
     <<"GET billing", "billing:read">>, <<"GET policy", "settings:read">>,
     <<"PATCH policy", "settings:read">>}

SuperAdminRoutes ==
    {<<"GET admins", "admin:manage">>, <<"GET audit", "audit:read">>,
     <<"GET spoof-alerts", "audit:read">>, <<"GET admins/incidents", "audit:read">>,
     <<"GET billing", "billing:read">>, <<"GET policy", "settings:read">>,
     <<"PATCH policy", "policy:write">>}
AdminUploadRoutes == {<<"POST uploads/presign", "employee:write">>}
AuthRoutes == {<<"GET auth/me", "">>}
MobileAttendanceRoutes ==
    {<<"POST mobile/attendance/checkin", "attendance:checkin">>,
     <<"POST mobile/attendance/anomaly", "">>}
MobileProfileRoutes == {<<"GET mobile/me", "dashboard:self-view">>}
HeartbeatRoutes == {<<"POST mobile/heartbeat", "">>}
MobileUploadRoutes == {<<"POST mobile/uploads/presign", "">>}

ConsoleEndpoints ==
    AttendanceRoutes \cup DashboardRoutes \cup EmployeeRoutes \cup GeofenceRoutes
    \cup LeaveRoutes \cup OfficeRoutes \cup SuperAdminRoutes \cup AdminUploadRoutes
    \cup AuthRoutes
MobileEndpoints ==
    MobileAttendanceRoutes \cup MobileProfileRoutes \cup HeartbeatRoutes
    \cup MobileUploadRoutes
Endpoints == ConsoleEndpoints \cup MobileEndpoints

\* requirePermission, behind requireAuth.
Permits(role, call) ==
    \E route \in Endpoints :
        route[1] = call /\ route[2] \in ROLE_PERMISSIONS[role] \cup {""}

-----------------------------------------------------------------------------
\* The console's matrix, pages, buttons and links.

ConsoleHrPermissions ==
    {"dashboard:view", "employee:read", "employee:write", "geofence:read",
     "geofence:write", "attendance:read", "attendance:review", "leave:read",
     "leave:write", "report:export", "livemap:view", "settings:read"}
ConsoleSuperPermissions ==
    ConsoleHrPermissions \cup
    {"employee:deactivate", "admin:manage", "audit:read", "billing:read", "policy:write"}

ConsolePermissions ==
    [role \in RoleKeys |->
        CASE role = "super_admin" -> ConsoleSuperPermissions
          [] role = "admin_hr"    -> ConsoleHrPermissions
          [] role = "employee"    -> {}]

\* RequirePermission, RbacGate and the sidebar's `enabled` ask the same.
Shows(role, permission) == permission \in ConsolePermissions[role]

\* A page: where it is, the permission its route asks for, the calls it makes
\* when it is shown, and its buttons: <<permission of the gate, call>>, ""
\* where there is no gate.
PageOf(path, needs, calls, buttons) ==
    [path |-> path, needs |-> needs, calls |-> calls, buttons |-> buttons]

SelfieCalls == {<<"", "GET attendance/:id/selfie-url">>}

DashboardPage ==
    PageOf("/dashboard", "dashboard:view",
           {"GET dashboard/kpis", "GET dashboard/trend", "GET attendance/feed"}, SelfieCalls)
EmployeesPage ==
    PageOf("/employees", "employee:read", {"GET offices", "GET employees"}, {})
EmployeeDetailPage ==
    PageOf("/employees/:id", "employee:read", {"GET employees/:id"},
           {<<"employee:write", "POST uploads/presign">>,
            <<"employee:write", "PATCH employees/:id/photo">>,
            <<"employee:deactivate", "DELETE employees/:id">>})
NewEmployeePage ==
    PageOf("/employees/new", "employee:write", {"GET offices", "GET geofences"},
           {<<"", "POST uploads/presign">>, <<"", "POST employees">>,
            <<"", "PATCH geofences/:id">>})
GeofencesPage ==
    PageOf("/geofences", "geofence:read", {"GET geofences"},
           {<<"geofence:write", "POST geofences">>, <<"", "PATCH geofences/:id">>,
            <<"", "DELETE geofences/:id">>})
AttendancePage ==
    PageOf("/attendance", "attendance:read", {"GET offices", "GET attendance"}, SelfieCalls)
FlaggedPage ==
    PageOf("/flagged", "attendance:review", {"GET attendance"},
           SelfieCalls \cup {<<"", "POST attendance/:id/approve">>, <<"", "POST attendance/:id/reject">>})
LeavePage ==
    PageOf("/leave", "leave:read", {"GET leave"},
           {<<"leave:write", "POST leave/:id/approve">>, <<"leave:write", "POST leave/:id/reject">>})
LiveMapPage ==
    PageOf("/live-map", "livemap:view", {"GET attendance/live-map", "GET geofences"}, {})
ReportsPage == PageOf("/reports", "report:export", {"GET offices", "GET attendance"}, {})
SettingsPage == PageOf("/settings", "settings:read", {"GET spoof-alerts"}, {})
AccountsPage == PageOf("/admins", "admin:manage", {"GET admins"}, {})
PolicyPage == PageOf("/policy", "policy:write", {"GET policy"}, {<<"", "PATCH policy">>})
AuditPage == PageOf("/audit", "audit:read", {"GET audit"}, {})
BillingPage == PageOf("/billing", "billing:read", {"GET billing"}, {})

Pages ==
    {DashboardPage, EmployeesPage, EmployeeDetailPage, NewEmployeePage, GeofencesPage,
     AttendancePage, FlaggedPage, LeavePage, LiveMapPage, ReportsPage, SettingsPage,
     AccountsPage, PolicyPage, AuditPage, BillingPage}

\* The calls of the sidebar, on every page, and the permission each waits for.
SidebarCalls == {<<"attendance:review", "GET attendance">>, <<"leave:read", "GET leave">>}

\* Links: <<where to, permission shown with>>, which is its page's where the
\* link has none of its own.
NavLinks ==
    {<<"/dashboard", "dashboard:view">>, <<"/employees", "employee:read">>,
     <<"/geofences", "geofence:read">>, <<"/attendance", "attendance:read">>,
     <<"/reports", "report:export">>, <<"/settings", "settings:read">>,
     <<"/flagged", "attendance:review">>, <<"/leave", "leave:read">>,
     <<"/live-map", "livemap:view">>, <<"/admins", "admin:manage">>,
     <<"/policy", "policy:write">>, <<"/audit", "audit:read">>, <<"/billing", "billing:read">>}
DashboardLinks == {<<"/reports", "report:export">>, <<"/employees/new", "employee:write">>}
FeedLinks == {<<"/attendance", "dashboard:view">>}
RosterLinks == {<<"/employees/new", "employee:write">>}
RowLinks == {<<"/employees/:id", "attendance:read">>, <<"/employees/:id", "employee:read">>}
ProfileLinks == {<<"/employees", "employee:read">>}
Links == NavLinks \cup DashboardLinks \cup FeedLinks \cup RosterLinks \cup RowLinks \cup ProfileLinks

\* What the console may send for somebody of each role.
PagesShown(role) == {page \in Pages : Shows(role, page.needs)}
Offered ==
    [role \in RoleKeys |->
        (UNION {page.calls : page \in PagesShown(role)})
        \cup {b[2] : b \in {b \in UNION {page.buttons : page \in PagesShown(role)} :
                               b[1] = "" \/ Shows(role, b[1])}}
        \cup {c[2] : c \in {c \in SidebarCalls : Shows(role, c[1])}}]

-----------------------------------------------------------------------------
NoSigning == <<>>
Tokens == [sub : People, role : RoleKeys, typ : TokenKinds, key : {"pair"} \cup TokenKinds,
           exp : Nat]

VARIABLES
    algorithm, \* JWT_ALGORITHM
    roleOf,    \* everyone's role document
    instant,   \* the server's clock
    account,   \* is_active, and since when
    signing,   \* <<whose, since>>: sign-ins and refreshes before they sign
    issued,    \* the tokens that have not expired
    signed

accessVars == <<algorithm, roleOf, instant, account, signing, issued, signed>>

AccessTypeOK ==
    /\ algorithm \in {"HS256", "RS256"}
    /\ roleOf \in [People -> RoleKeys]
    /\ instant \in 0..MaxInstant
    /\ account \in [People -> [active : BOOLEAN, since : 0..MaxInstant]]
    /\ signing \in [SignSlots -> (People \X (0..MaxInstant)) \cup {NoSigning}]
    /\ issued \subseteq Tokens
    /\ signed \in 0..MaxSigned

AccessInit ==
    /\ algorithm \in {"HS256", "RS256"}
    /\ roleOf \in [People -> RoleKeys]
    /\ instant = 0
    /\ account = [u \in People |-> [active |-> TRUE, since |-> 0]]
    /\ signing = [s \in SignSlots |-> NoSigning]
    /\ issued = {}
    /\ signed = 0

\* signingKey and verificationKey: one key pair, or a secret for each kind.
KeyFor(kind) == IF algorithm = "RS256" THEN "pair" ELSE kind

\* Mutation: the kind is left to the key.
VerifiesBySignature(token, kind) == token.key = KeyFor(kind) /\ instant < token.exp

\* verify: the signature, the expiry, and the kind that was signed in.
Verifies(token, kind) ==
    /\ token.key = KeyFor(kind)
    /\ instant < token.exp
    /\ token.typ = kind

\* A token is good for a call: requireAuth, then requirePermission.  A client
\* may send any token it was given.
Accepts(token, call) == Verifies(token, "access") /\ Permits(token.role, call)

\* login, mobileLogin: an active account with the right password.
SignIn(s, u) ==
    /\ signing[s] = NoSigning
    /\ account[u].active
    /\ signing' = [signing EXCEPT ![s] = <<u, instant>>]
    /\ UNCHANGED <<algorithm, roleOf, instant, account, issued, signed>>

\* Mutation: a refresh token is enough, whatever became of its account.
RefreshUnchecked(s) ==
    /\ signing[s] = NoSigning
    /\ \E t \in issued :
          /\ Verifies(t, "refresh")
          /\ signing' = [signing EXCEPT ![s] = <<t.sub, instant>>]
    /\ UNCHANGED <<algorithm, roleOf, instant, account, issued, signed>>

\* refresh, mobileRefresh: a good refresh token of an active account.
Refresh(s) ==
    /\ signing[s] = NoSigning
    /\ \E t \in issued :
          /\ Verifies(t, "refresh")
          /\ account[t.sub].active
          /\ signing' = [signing EXCEPT ![s] = <<t.sub, instant>>]
    /\ UNCHANGED <<algorithm, roleOf, instant, account, issued, signed>>

TokenFor(u, kind, ttl) ==
    [sub |-> u, role |-> roleOf[u], typ |-> kind, key |-> KeyFor(kind), exp |-> instant + ttl]

\* The role has been looked up, and both tokens are signed; earlier ones stay
\* good.  A sign-in with a wrong password ends without.
SignTokens(s) ==
    /\ signing[s] # NoSigning
    /\ signing' = [signing EXCEPT ![s] = NoSigning]
    /\ \/ /\ signed < MaxSigned
          /\ signed' = signed + 1
          /\ issued' = issued \cup {TokenFor(signing[s][1], "access", AccessTtl),
                                    TokenFor(signing[s][1], "refresh", RefreshTtl)}
       \/ UNCHANGED <<issued, signed>>
    /\ UNCHANGED <<algorithm, roleOf, instant, account>>

\* deactivateEmployee, and updateEmployee, whose is_active goes both ways.
TurnOff(u) ==
    /\ \E t \in issued : Accepts(t, "DELETE employees/:id") \/ Accepts(t, "PATCH employees/:id")
    /\ account[u].active
    /\ account' = [account EXCEPT ![u] = [active |-> FALSE, since |-> instant]]
    /\ UNCHANGED <<algorithm, roleOf, instant, signing, issued, signed>>

TurnOn(u) ==
    /\ \E t \in issued : Accepts(t, "PATCH employees/:id")
    /\ ~account[u].active
    /\ account' = [account EXCEPT ![u] = [active |-> TRUE, since |-> instant]]
    /\ UNCHANGED <<algorithm, roleOf, instant, signing, issued, signed>>

\* Time passes, but for nobody who signs longer than SignStall.
InstantTick ==
    /\ instant < MaxInstant
    /\ \A s \in SignSlots : signing[s] # NoSigning => instant < signing[s][2] + SignStall
    /\ instant' = instant + 1
    /\ issued' = {t \in issued : instant' < t.exp}
    /\ UNCHANGED <<algorithm, roleOf, account, signing, signed>>

AccessNext ==
    \/ InstantTick
    \/ \E s \in SignSlots : Refresh(s) \/ SignTokens(s) \/ \E u \in People : SignIn(s, u)
    \/ \E u \in People : TurnOff(u) \/ TurnOn(u)

AccessSpec == AccessInit /\ [][AccessNext]_accessVars

-----------------------------------------------------------------------------
\* Tokens are checked without a look at the account, so one taken out of
\* service goes on: but its last token is refused once a sign-in or refresh
\* that had read it in time is answered and the access token has run out.
\* No refresh, and no refresh token sent as an access token, prolongs it.
DeactivationEnds ==
    \A u \in People :
        (~account[u].active /\ instant >= account[u].since + SignStall + AccessTtl)
        => \A t \in issued : t.sub = u => ~Verifies(t, "access")

\* The settings page asks for alerts that only a super admin may read.
KnownRefusals == {<<"admin_hr", "GET spoof-alerts">>}

\* Of the console's routes no page calls these two, and the policy only the
\* page that may change it.
Unoffered == {"PATCH employees/:id", "GET admins/incidents", "GET policy"}

\* Two matrices, thirty routes and fifteen pages were written independently:
\* whatever the console offers the holder of a token, the API accepts; what it
\* does not offer them, the API refuses; and every link shown leads to a page
\* shown.
ConsoleMatchesApi ==
    \A t \in issued :
        Verifies(t, "access") =>
            /\ \A call \in Offered[t.role] :
                  Accepts(t, call) \/ <<t.role, call>> \in KnownRefusals
            /\ \A route \in ConsoleEndpoints :
                  route[2] # "" /\ Accepts(t, route[1]) =>
                      route[1] \in Offered[t.role] \cup Unoffered
            /\ \A link \in Links :
                  Shows(t.role, link[2]) =>
                      \E page \in PagesShown(t.role) : page.path = link[1]

\* Who is in, and what for.
AccessSound == DeactivationEnds /\ ConsoleMatchesApi
=============================================================================
