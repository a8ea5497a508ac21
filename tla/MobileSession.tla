---------------------------- MODULE MobileSession ----------------------------
(***************************************************************************)
(* The phone's session: the two tokens held in memory and the single       *)
(* refresh (lib/http.js), logging in and out (LoginScreen, ProfileScreen,  *)
(* lib/api.js), and whose profile the app shows (AppContext, App).  Logins *)
(* are numbered as they are answered, and a token carries the number of    *)
(* its login.  Any token may have expired by the time it arrives.          *)
(***************************************************************************)
EXTENDS Naturals

CONSTANTS
    LoginCalls,  \* submits of the login form under way, with their profiles
    LogoutCalls, \* requests to log out under way
    OtherCalls,  \* other requests the phone may have under way
    MaxLogins,   \* bound on the logins that are answered
    MaxCalls     \* bound on the other requests and those to log out

ASSUME MobileAssumption ==
    /\ LoginCalls \cap LogoutCalls = {}
    /\ OtherCalls \cap (LoginCalls \cup LogoutCalls) = {}
    /\ MaxLogins \in Nat /\ MaxCalls \in Nat

PhoneCalls == OtherCalls \cup LoginCalls \cup LogoutCalls
Held == 0..MaxLogins \* 0: no token
NoPhoneCall == <<>>
CallStates == ({"sent", "leading", "waiting"} \X BOOLEAN \X Held) \cup {NoPhoneCall}

VARIABLES
    shows,      \* the login whose profile the app shows; 0 for the login form
    attempts,   \* each submit of the form: "none", "login" or "profile"
    login,      \* number of the last login answered
    access,     \* accessToken
    refreshTok, \* refreshToken
    refreshing, \* the refresh in flight: {}, or {the token it sent}
    phoneCalls, \* <<stage, replayed, token>> of each request
    callsMade,
    putBack,    \* ghost: the tokens are a refresh's that was for other ones
    signedOff,  \* ghost: a session ended since the last login was answered
    doubled     \* ghost: submits of the form overlapped since it was opened

mobileVars ==
    <<shows, attempts, login, access, refreshTok, refreshing, phoneCalls, callsMade, putBack,
      signedOff, doubled>>
tokenVars == <<access, refreshTok>>

MobileTypeOK ==
    /\ shows \in Held /\ login \in Held /\ access \in Held /\ refreshTok \in Held
    /\ attempts \in [LoginCalls -> {"none", "login", "profile"}]
    /\ refreshing \subseteq Held
    /\ phoneCalls \in [PhoneCalls -> CallStates]
    /\ callsMade \in 0..MaxCalls
    /\ putBack \in BOOLEAN /\ signedOff \in BOOLEAN /\ doubled \in BOOLEAN

MobileInit ==
    /\ shows = 0 /\ login = 0 /\ access = 0 /\ refreshTok = 0
    /\ attempts = [a \in LoginCalls |-> "none"]
    /\ refreshing = {}
    /\ phoneCalls = [c \in PhoneCalls |-> NoPhoneCall]
    /\ callsMade = 0
    /\ putBack = FALSE /\ signedOff = FALSE /\ doubled = FALSE

Underway(c) == phoneCalls[c] # NoPhoneCall /\ phoneCalls[c][1] = "sent"
Parked == {c \in PhoneCalls :
             phoneCalls[c] # NoPhoneCall /\ phoneCalls[c][1] \in {"leading", "waiting"}}

\* submit: the form takes Enter at any time; only its button is disabled
\* while it is busy.
SubmitLogin(a) ==
    /\ shows = 0 /\ attempts[a] = "none"
    /\ attempts' = [attempts EXCEPT ![a] = "login"]
    /\ doubled' = (\E b \in LoginCalls : attempts[b] # "none")
    /\ UNCHANGED <<shows, login, tokenVars, refreshing, phoneCalls, callsMade, putBack, signedOff>>

\* loginMobile keeps both tokens, and the profile is asked for with them.
LoginAnswered(a) ==
    /\ attempts[a] = "login" /\ login < MaxLogins
    /\ login' = login + 1 /\ access' = login + 1 /\ refreshTok' = login + 1
    /\ attempts' = [attempts EXCEPT ![a] = "profile"]
    /\ phoneCalls' = [phoneCalls EXCEPT ![a] = <<"sent", FALSE, login + 1>>]
    /\ putBack' = FALSE /\ signedOff' = FALSE
    /\ UNCHANGED <<shows, refreshing, callsMade, doubled>>

\* A refused login is no reason to refresh.
LoginRefused(a) ==
    /\ attempts[a] = "login"
    /\ attempts' = [attempts EXCEPT ![a] = "none"]
    /\ UNCHANGED <<shows, login, tokenVars, refreshing, phoneCalls, callsMade, putBack, signedOff,
                   doubled>>

\* A request carries the token there is when it is sent, if any: a heartbeat
\* that waited for its position after sign-out too.  The button that signs
\* out stays enabled while the request to log out is under way.
SendCall(c) ==
    /\ phoneCalls[c] = NoPhoneCall
    /\ login > 0 /\ callsMade < MaxCalls
    /\ c \in LogoutCalls => shows # 0
    /\ phoneCalls' = [phoneCalls EXCEPT ![c] = <<"sent", FALSE, access>>]
    /\ callsMade' = callsMade + 1
    /\ UNCHANGED <<shows, attempts, login, tokenVars, refreshing, putBack, signedOff, doubled>>

\* clearAccessToken and LOGOUT: whosever session it is by now.
SessionDropped ==
    /\ access' = 0 /\ refreshTok' = 0
    /\ shows' = 0
    /\ putBack' = FALSE /\ signedOff' = TRUE

\* Mutation: only the access token is dropped.
SignedOutKeepingRefresh(c) ==
    /\ Underway(c)
    /\ access' = 0 /\ shows' = 0 /\ putBack' = FALSE /\ signedOff' = TRUE
    /\ phoneCalls' = [phoneCalls EXCEPT ![c] = NoPhoneCall]
    /\ UNCHANGED <<attempts, login, refreshTok, refreshing, callsMade, doubled>>

\* signOut, once the request to log out has ended, well or not.
SignedOut(c) ==
    /\ Underway(c)
    /\ SessionDropped
    /\ phoneCalls' = [phoneCalls EXCEPT ![c] = NoPhoneCall]
    /\ UNCHANGED <<attempts, login, refreshing, callsMade, doubled>>

\* The profile of a login: PROFILE_LOADED with that of whoever the request
\* was for when it was last sent, or LOGIN_FAILED, which changes nothing.
ProfileEnds(a) ==
    /\ Underway(a)
    /\ shows' \in {shows, phoneCalls[a][3]}
    /\ attempts' = [attempts EXCEPT ![a] = "none"]
    /\ phoneCalls' = [phoneCalls EXCEPT ![a] = NoPhoneCall]
    /\ UNCHANGED <<login, tokenVars, refreshing, callsMade, putBack, signedOff, doubled>>

\* An answer, or an error that is no 401 "unauthenticated", ends a request;
\* so does every error of one that was sent again.
CallEnds(c) ==
    /\ Underway(c)
    /\ phoneCalls' = [phoneCalls EXCEPT ![c] = NoPhoneCall]
    /\ UNCHANGED <<shows, attempts, login, tokenVars, refreshing, callsMade, putBack, signedOff,
                   doubled>>

\* A 401 "unauthenticated" the first time: the refresh is joined or begun.
Unauthenticated(c) ==
    /\ Underway(c) /\ ~phoneCalls[c][2]
    /\ phoneCalls' = [phoneCalls EXCEPT ![c] =
                        <<IF refreshing = {} THEN "leading" ELSE "waiting", TRUE, @[3]>>]
    /\ refreshing' = IF refreshing = {} THEN {refreshTok} ELSE refreshing
    /\ UNCHANGED <<shows, attempts, login, tokenVars, callsMade, putBack, signedOff, doubled>>

\* performRefresh: both tokens are those of the login the refresh was for,
\* whatever happened to them meanwhile, and everyone who waited sends again.
RefreshSucceeds(t) ==
    /\ t \in refreshing \ {0}
    /\ access' = t /\ refreshTok' = t
    /\ refreshing' = {}
    /\ phoneCalls' = [c \in PhoneCalls |-> IF c \in Parked THEN <<"sent", TRUE, t>> ELSE phoneCalls[c]]
    /\ putBack' = (putBack \/ refreshTok # t)
    /\ UNCHANGED <<shows, attempts, login, callsMade, signedOff, doubled>>

\* Mutation: the waiters are not flushed when the refresh fails.
RefreshFailsSilently ==
    /\ refreshing # {} /\ refreshing' = {}
    /\ SessionDropped
    /\ phoneCalls' = [c \in PhoneCalls |->
                        IF c \in Parked /\ phoneCalls[c][1] = "leading" THEN NoPhoneCall
                        ELSE phoneCalls[c]]
    /\ attempts' = [a \in LoginCalls |->
                      IF phoneCalls[a] # NoPhoneCall /\ phoneCalls'[a] = NoPhoneCall THEN "none"
                      ELSE attempts[a]]
    /\ UNCHANGED <<login, callsMade, doubled>>

\* The tokens are dropped, whosever they are by now, the app signs out, and
\* everyone who waited fails, a login whose profile waited too.
RefreshFails ==
    /\ refreshing # {} /\ refreshing' = {}
    /\ SessionDropped
    /\ phoneCalls' = [c \in PhoneCalls |-> IF c \in Parked THEN NoPhoneCall ELSE phoneCalls[c]]
    /\ attempts' = [a \in LoginCalls |-> IF a \in Parked THEN "none" ELSE attempts[a]]
    /\ UNCHANGED <<login, callsMade, doubled>>

MobileNext ==
    \/ \E a \in LoginCalls :
          SubmitLogin(a) \/ LoginAnswered(a) \/ LoginRefused(a) \/ ProfileEnds(a)
    \/ \E c \in LogoutCalls : SignedOut(c)
    \/ \E c \in OtherCalls : CallEnds(c)
    \/ \E c \in OtherCalls \cup LogoutCalls : SendCall(c)
    \/ \E c \in PhoneCalls : Unauthenticated(c)
    \/ \E t \in Held : RefreshSucceeds(t)
    \/ RefreshFails

MobileSpec == MobileInit /\ [][MobileNext]_mobileVars

-----------------------------------------------------------------------------
\* No request hangs: whoever waits, waits for a refresh that is in flight.
NoCallStranded == Parked # {} => refreshing # {}

\* A late request brings no token back: none is held once the session ended,
\* and otherwise none but the last login's.  Only a refresh that was for
\* other tokens than it finds, and only until the next login or sign-out,
\* changes that (ClearedOnLogout).
NoTokenReturns ==
    ~putBack => /\ {access, refreshTok} \subseteq {0, login}
                /\ signedOff => access = 0 /\ refreshTok = 0

\* The app acts for the employee it shows: the token is that of the profile
\* shown, unless the form was submitted again while it was busy.
TokenOfShown == shows # 0 /\ ~putBack /\ ~doubled => access \in {0, shows}

TokensFollowSession == NoCallStranded /\ NoTokenReturns /\ TokenOfShown

\* lib/http.js: both tokens are "never persisted, cleared on logout".
ClearedOnLogout == signedOff => access = 0 /\ refreshTok = 0
=============================================================================
