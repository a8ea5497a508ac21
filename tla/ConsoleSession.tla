---------------------------- MODULE ConsoleSession ----------------------------
(***************************************************************************)
(* The web console's session: the axios interceptors of api/http.ts, the   *)
(* session functions of auth/session.ts and the status kept by             *)
(* auth/auth-context.tsx, in one browser tab.                              *)
(*                                                                         *)
(* JavaScript runs one callback at a time, so each action is the code from *)
(* one await to the next, the promise continuations it settles included.   *)
(* A request's handling by the server and the arrival of its answer are    *)
(* one action: an answer that arrives after the token expired is the same  *)
(* as one that arrives just before.  Access tokens are numbered in the     *)
(* order the tab receives them; 0 stands for none, which every route       *)
(* refuses like an expired one.                                            *)
(***************************************************************************)
EXTENDS Naturals

CONSTANTS
    Requests,    \* API calls the pages make, each slot one at a time
    Me,          \* bootstrapSession's GET /auth/me
    Boot,        \* bootstrapSession's own refresh
    Socket,      \* the refresh the live feed starts when its handshake is refused
    MaxTokens,   \* bound on the access tokens issued, for model checking
    MaxReloads   \* bound on the page reloads, for model checking

Calls == Requests \cup {Me}
Refreshers == Calls \cup {Boot, Socket}

ASSUME NamesAssumption  == Me \notin Requests /\ Boot # Socket /\ {Boot, Socket} \cap Calls = {}
ASSUME BoundsAssumption == MaxTokens \in Nat /\ MaxReloads \in Nat

VARIABLES
    status,        \* AuthState.status
    accessToken,   \* token-store's accessToken
    cookie,        \* whether the browser holds a refresh cookie
    issued,        \* number of the newest access token
    expired,       \* access tokens up to this number have expired
    isRefreshing,  \* the flag of the response interceptor
    call,          \* progress of each API call
    bearer,        \* the token each call was last sent with
    retried,       \* config._retried
    asked,         \* each POST /auth/refresh on the wire, with or without a cookie
    signIn,        \* a POST /auth/login is on the wire
    signOut,       \* a POST /auth/logout is on the wire
    reloads        \* page reloads so far

vars == <<status, accessToken, cookie, issued, expired, isRefreshing, call, bearer,
          retried, asked, signIn, signOut, reloads>>

\* "refreshing" and "leading" are the call that runs the refresh, before and
\* after its answer; "replaying" is any other call that was sent again.
Progress == {"idle", "sent", "parked", "refreshing", "leading", "replaying"}

TypeOK ==
    /\ status \in {"loading", "authenticated", "anonymous"}
    /\ issued \in Nat /\ expired \in 0..issued /\ accessToken \in 0..issued
    /\ cookie \in BOOLEAN /\ isRefreshing \in BOOLEAN
    /\ call \in [Calls -> Progress]
    /\ bearer \in [Calls -> 0..issued]
    /\ retried \in [Calls -> BOOLEAN]
    /\ asked \in [Refreshers -> {"no", "bare", "carrying"}]
    /\ signIn \in BOOLEAN /\ signOut \in BOOLEAN
    /\ reloads \in 0..MaxReloads

\* POST /auth/refresh as it leaves: the browser attaches the cookie it holds.
Carrying == IF cookie THEN "carrying" ELSE "bare"

\* A page starts with nothing in memory and bootstrapSession's refresh under way.
Init ==
    /\ status = "loading"
    /\ cookie \in BOOLEAN
    /\ accessToken = 0 /\ issued = 0 /\ expired = 0
    /\ isRefreshing = FALSE
    /\ call = [c \in Calls |-> "idle"]
    /\ bearer = [c \in Calls |-> 0]
    /\ retried = [c \in Calls |-> FALSE]
    /\ asked = [x \in Refreshers |-> IF x = Boot THEN Carrying ELSE "no"]
    /\ signIn = FALSE /\ signOut = FALSE
    /\ reloads = 0

-----------------------------------------------------------------------------
\* Pages are mounted, and call the API, only while authenticated.
Send(c) ==
    /\ c \in Requests
    /\ status = "authenticated"
    /\ call[c] = "idle"
    /\ call' = [call EXCEPT ![c] = "sent"]
    /\ bearer' = [bearer EXCEPT ![c] = accessToken]
    /\ retried' = [retried EXCEPT ![c] = FALSE]
    /\ UNCHANGED <<status, accessToken, cookie, issued, expired, isRefreshing, asked,
                   signIn, signOut, reloads>>

\* A 2xx answer.  The leader's ends its refresh (finally).  bootstrapSession
\* admits the profile it gets when the role is an administrator's; otherwise
\* the console stays signed out, and keeps the token.
Answered(c) ==
    /\ call[c] \in {"sent", "leading", "replaying"}
    /\ bearer[c] > expired
    /\ call' = [call EXCEPT ![c] = "idle"]
    /\ isRefreshing' = (isRefreshing /\ call[c] # "leading")
    /\ IF c = Me THEN status' \in {"authenticated", "anonymous"} ELSE UNCHANGED status
    /\ UNCHANGED <<accessToken, cookie, issued, expired, bearer, retried, asked,
                   signIn, signOut, reloads>>

\* Mutation: bootstrapSession does not catch a failure of GET /auth/me.
FailsUncaught(c) ==
    /\ call[c] \in {"sent", "replaying"}
    /\ call' = [call EXCEPT ![c] = "idle"]
    /\ UNCHANGED <<status, accessToken, cookie, issued, expired, isRefreshing, bearer,
                   retried, asked, signIn, signOut, reloads>>

\* A failure that is passed to the caller: a refusal, a server error or none
\* at all, or a 401 to a call that was sent again.  bootstrapSession then drops
\* the token.
Fails(c) ==
    /\ call[c] \in {"sent", "replaying"}
    /\ call' = [call EXCEPT ![c] = "idle"]
    /\ IF c = Me THEN accessToken' = 0 /\ status' = "anonymous"
                 ELSE UNCHANGED <<accessToken, status>>
    /\ UNCHANGED <<cookie, issued, expired, isRefreshing, bearer, retried, asked,
                   signIn, signOut, reloads>>

\* Mutation: every 401 starts a refresh of its own.
UnauthorizedUnserialised(c) ==
    /\ call[c] = "sent" /\ ~retried[c]
    /\ bearer[c] <= expired \/ c = Me
    /\ retried' = [retried EXCEPT ![c] = TRUE]
    /\ isRefreshing' = TRUE
    /\ call' = [call EXCEPT ![c] = "refreshing"]
    /\ asked' = [asked EXCEPT ![c] = Carrying]
    /\ UNCHANGED <<status, accessToken, cookie, issued, expired, bearer, signIn, signOut, reloads>>

\* A 401 to a call that was not sent again yet: it parks while a refresh runs,
\* otherwise it starts one.  GET /auth/me also answers 401 for an inactive user.
Unauthorized(c) ==
    /\ call[c] = "sent" /\ ~retried[c]
    /\ bearer[c] <= expired \/ c = Me
    /\ retried' = [retried EXCEPT ![c] = TRUE]
    /\ isRefreshing' = TRUE
    /\ \/ /\ isRefreshing
          /\ call' = [call EXCEPT ![c] = "parked"]
          /\ UNCHANGED asked
       \/ /\ ~isRefreshing
          /\ call' = [call EXCEPT ![c] = "refreshing"]
          /\ asked' = [asked EXCEPT ![c] = Carrying]
    /\ UNCHANGED <<status, accessToken, cookie, issued, expired, bearer, signIn, signOut, reloads>>

\* Mutation: the token is dropped but the application is not told.
SessionExpiredQuietly(c) ==
    /\ call' = [d \in Calls |-> IF d = c \/ call[d] = "parked" THEN "idle" ELSE call[d]]
    /\ isRefreshing' = FALSE
    /\ accessToken' = 0
    /\ UNCHANGED status

\* Mutation: a failed refresh forgets the calls that parked on it.
SessionExpiredUndrained(c) ==
    /\ call' = [call EXCEPT ![c] = "idle"]
    /\ isRefreshing' = FALSE
    /\ accessToken' = 0
    /\ status' = "anonymous"

\* The interceptor's catch and finally, run for the leader c: parked calls are
\* rejected, the token is dropped and the application told.
SessionExpired(c) ==
    /\ call' = [d \in Calls |-> IF d = c \/ call[d] = "parked" THEN "idle" ELSE call[d]]
    /\ isRefreshing' = FALSE
    /\ accessToken' = 0
    /\ status' = "anonymous"

\* The leader's own replay fails, inside the same try block as its refresh.
ReplayFails(c) ==
    /\ call[c] = "leading"
    /\ SessionExpired(c)
    /\ UNCHANGED <<cookie, issued, expired, bearer, retried, asked, signIn, signOut, reloads>>

\* Mutation: parked calls are released before the new token is in memory.
ReleaseEarly(c) ==
    LET resumed == {d \in Calls : call[d] = "parked"} IN
    /\ call' = [d \in Calls |-> IF d = c THEN "leading"
                                ELSE IF d \in resumed THEN "replaying" ELSE call[d]]
    /\ bearer' = [d \in Calls |-> IF d = c THEN issued + 1
                                  ELSE IF d \in resumed THEN accessToken ELSE bearer[d]]
    /\ UNCHANGED retried

\* drainQueue(null, token) and the leader's replay, all with the new token.
Release(c) ==
    LET resumed == {d \in Calls : call[d] = "parked"} IN
    /\ call' = [d \in Calls |-> IF d = c THEN "leading"
                                ELSE IF d \in resumed THEN "replaying" ELSE call[d]]
    /\ bearer' = [d \in Calls |-> IF d \in resumed \cup {c} THEN issued + 1 ELSE bearer[d]]
    /\ UNCHANGED retried

\* refreshAccessToken gets a token and a rotated cookie, and returns to the
\* interceptor, to bootstrapSession or to the socket's error handler.
RefreshGranted(x) ==
    /\ asked[x] = "carrying"
    /\ issued < MaxTokens
    /\ asked' = [asked EXCEPT ![x] = "no"]
    /\ issued' = issued + 1
    /\ accessToken' = issued + 1
    /\ cookie' = TRUE
    /\ \/ x \in Calls /\ Release(x)
       \/ /\ x = Boot
          /\ call' = [call EXCEPT ![Me] = "sent"]
          /\ bearer' = [bearer EXCEPT ![Me] = issued + 1]
          /\ retried' = [retried EXCEPT ![Me] = FALSE]
       \/ x = Socket /\ UNCHANGED <<call, bearer, retried>>
    /\ UNCHANGED <<status, expired, isRefreshing, signIn, signOut, reloads>>

\* The refresh is refused, fails or times out.
RefreshRefused(x) ==
    /\ asked[x] # "no"
    /\ asked' = [asked EXCEPT ![x] = "no"]
    /\ \/ x \in Calls /\ SessionExpired(x)
       \/ x = Boot /\ accessToken' = 0 /\ status' = "anonymous" /\ UNCHANGED <<call, isRefreshing>>
       \/ x = Socket /\ UNCHANGED <<accessToken, status, call, isRefreshing>>
    /\ UNCHANGED <<cookie, issued, expired, bearer, retried, signIn, signOut, reloads>>

\* The feed's handshake is refused for its token: onConnectError refreshes,
\* whatever the interceptor is doing.
SocketRefused ==
    /\ status = "authenticated"
    /\ accessToken <= expired
    /\ asked[Socket] = "no"
    /\ asked' = [asked EXCEPT ![Socket] = Carrying]
    /\ UNCHANGED <<status, accessToken, cookie, issued, expired, isRefreshing, call, bearer,
                   retried, signIn, signOut, reloads>>

-----------------------------------------------------------------------------
\* The login form is submitted.
SignIn ==
    /\ status = "anonymous" /\ ~signIn
    /\ signIn' = TRUE
    /\ UNCHANGED <<status, accessToken, cookie, issued, expired, isRefreshing, call, bearer,
                   retried, asked, signOut, reloads>>

\* Mutation: login() stores a token whatever the answer.
SignInAnsweredCarelessly ==
    /\ signIn
    /\ signIn' = FALSE
    /\ accessToken' = issued + 1
    /\ \/ issued < MaxTokens /\ issued' = issued + 1 /\ cookie' = TRUE /\ status' = "authenticated"
       \/ UNCHANGED <<issued, cookie, status>>
    /\ UNCHANGED <<expired, isRefreshing, call, bearer, retried, asked, signOut, reloads>>

\* login() gets its answer: an administrator's, another employee's (the browser
\* has stored the cookie by the time the role is looked at), or a refusal.
SignInAnswered ==
    /\ signIn
    /\ signIn' = FALSE
    /\ \/ /\ issued < MaxTokens
          /\ issued' = issued + 1 /\ accessToken' = issued + 1
          /\ cookie' = TRUE
          /\ status' = "authenticated"
       \/ cookie' = TRUE /\ UNCHANGED <<issued, accessToken, status>>
       \/ UNCHANGED <<issued, accessToken, cookie, status>>
    /\ UNCHANGED <<expired, isRefreshing, call, bearer, retried, asked, signOut, reloads>>

\* The user signs out.
SignOut ==
    /\ status = "authenticated" /\ ~signOut
    /\ signOut' = TRUE
    /\ UNCHANGED <<status, accessToken, cookie, issued, expired, isRefreshing, call, bearer,
                   retried, asked, signIn, reloads>>

\* logout() returns: the server cleared the cookie, or could not be reached.
SignOutAnswered ==
    /\ signOut
    /\ signOut' = FALSE
    /\ cookie' = FALSE \/ UNCHANGED cookie
    /\ accessToken' = 0
    /\ status' = "anonymous"
    /\ UNCHANGED <<issued, expired, isRefreshing, call, bearer, retried, asked, signIn, reloads>>

\* The oldest access token that is still accepted expires.
Expire ==
    /\ expired < issued
    /\ expired' = expired + 1
    /\ UNCHANGED <<status, accessToken, cookie, issued, isRefreshing, call, bearer, retried,
                   asked, signIn, signOut, reloads>>

\* The page is reloaded: only the cookie survives.
Reload ==
    /\ reloads < MaxReloads
    /\ reloads' = reloads + 1
    /\ status' = "loading"
    /\ accessToken' = 0
    /\ isRefreshing' = FALSE
    /\ call' = [c \in Calls |-> "idle"]
    /\ bearer' = [c \in Calls |-> 0]
    /\ retried' = [c \in Calls |-> FALSE]
    /\ asked' = [x \in Refreshers |-> IF x = Boot THEN Carrying ELSE "no"]
    /\ signIn' = FALSE /\ signOut' = FALSE
    /\ UNCHANGED <<cookie, issued, expired>>

CallReturns(c) == Answered(c) \/ Fails(c) \/ Unauthorized(c) \/ ReplayFails(c)

RefreshReturns(x) == RefreshGranted(x) \/ RefreshRefused(x)

Next ==
    \/ \E c \in Calls : Send(c) \/ CallReturns(c)
    \/ \E x \in Refreshers : RefreshReturns(x)
    \/ SocketRefused
    \/ SignIn \/ SignInAnswered \/ SignOut \/ SignOutAnswered
    \/ Expire \/ Reload

Spec == Init /\ [][Next]_vars

\* axios gives every request a timeout, so each is answered or fails.  Nothing
\* obliges users to act, tokens to expire or the feed to reconnect.
Fairness ==
    /\ \A c \in Calls : WF_vars(CallReturns(c))
    /\ \A x \in Refreshers : WF_vars(RefreshReturns(x))
    /\ WF_vars(SignInAnswered)
    /\ WF_vars(SignOutAnswered)

FairSpec == Spec /\ Fairness

-----------------------------------------------------------------------------
\* The calls that hold the interceptor's refresh, before or after its answer.
Leaders == {c \in Calls : call[c] \in {"refreshing", "leading"}}

\* Refreshes the interceptor starts are serialised: isRefreshing is set exactly
\* while one call leads, and no second one does, across sign-outs, sign-ins,
\* failures and reloads in between.
OneRefresh ==
    /\ isRefreshing <=> Leaders # {}
    /\ \A c, d \in Leaders : c = d

\* A signed-in console has an access token: whichever of logout, a failed
\* refresh, a failed replay or a late login comes last, dropping the token and
\* leaving the authenticated state go together.
AuthenticatedHasToken == status = "authenticated" => accessToken # 0

\* A call is sent again only with a token newer than the one it was refused
\* with, however many refreshes and sign-ins happened while it waited.
ReplayedWithNewerToken ==
    [][\A c \in Calls :
         call[c] \in {"parked", "refreshing"} /\ call'[c] \in {"leading", "replaying"}
            => bearer'[c] > bearer[c]]_vars

\* Every call is answered or parked, and one that parked before the refresh was
\* answered is released by that answer, good or bad.
EveryCallReturns ==
    \A c \in Calls :
        /\ call[c] \in {"sent", "refreshing", "leading", "replaying"} ~> call[c] \in {"idle", "parked"}
        /\ (call[c] = "parked" /\ \E d \in Calls : call[d] = "refreshing") ~> call[c] # "parked"

\* The boot spinner ends: the session is restored or the user sent to sign in.
BootEnds == status = "loading" ~> status # "loading"

\* http.ts says every subsequent 401 parks and is replayed once the single
\* refresh resolves; at least it must not stay parked for good.
ParkedIsReleased == \A c \in Calls : call[c] = "parked" ~> call[c] # "parked"

\* http.ts says the application is sent to sign in when refreshing definitively
\* fails: a user who did not sign out is signed out by nothing else.
SignedOutOnlyByRefresh ==
    [][status = "authenticated" /\ status' = "anonymous" =>
         signOut \/ \E x \in Refreshers : asked[x] # "no" /\ asked'[x] = "no"]_vars
=============================================================================
