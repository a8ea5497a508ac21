----------------------------- MODULE PhoneProofs -----------------------------
(***************************************************************************)
(* What the phone keeps true, for every value of the constants: its tokens *)
(* are those of the session it shows, its heartbeats form one chain that   *)
(* does not break, one check-in is under way at a time, its form knows     *)
(* what it sends, it tells of itself what it measured, it shows of its     *)
(* user what is theirs, and of each answer what the server meant.          *)
(***************************************************************************)
EXTENDS MobileSession, Telemetry, CheckInPhone, CheckInForm, PhoneEvidence, PhoneHome, Verdicts,
        WellFoundedInduction, FiniteSetTheorems, SequenceTheorems, TLAPS

\* A submit of the form is under way from the press to the end of its profile.
Busy(a) == attempts[a] # "none"
ProfileAsked == \A a \in LoginCalls : attempts[a] = "profile" <=> phoneCalls[a] # NoPhoneCall
OneSubmit ==
    ~doubled => /\ \A a, b \in LoginCalls : Busy(a) /\ Busy(b) => a = b
                /\ (\E a \in LoginCalls : Busy(a)) => shows = 0

\* While the tokens are the last login's, what is shown and what the profile
\* under way will show is that login's too.  With it, TokenOfShown is inductive.
OwnProfile ==
    ~putBack /\ ~doubled /\ access # 0 =>
        /\ shows \in {0, access}
        /\ \A a \in LoginCalls : phoneCalls[a] # NoPhoneCall => phoneCalls[a][3] = access

FormInOrder == ProfileAsked /\ OneSubmit
TokensOwned == access = refreshTok /\ NoTokenReturns /\ OwnProfile
SessionInv == MobileTypeOK /\ NoCallStranded /\ FormInOrder /\ TokensOwned

\* Nobody is signed in at the start, and nothing is under way.
LEMMA SessionStarts == MobileInit => SessionInv
  <1> SUFFICES ASSUME MobileInit PROVE SessionInv
    OBVIOUS
  <1>1. 0 \in Held /\ 0 \in 0..MaxCalls
    BY MobileAssumption DEF Held
  <1>2. MobileTypeOK
    BY <1>1 DEF MobileInit, MobileTypeOK, CallStates
  <1>3. NoCallStranded /\ FormInOrder /\ TokensOwned
    BY DEF MobileInit, NoCallStranded, Parked, FormInOrder, ProfileAsked, OneSubmit, Busy,
           TokensOwned, NoTokenReturns, OwnProfile, PhoneCalls
  <1> QED
    BY <1>2, <1>3 DEF SessionInv

\* A request on the wire, and one that waits, is a triple.
LEMMA CallParts ==
    ASSUME NEW x \in CallStates, x # NoPhoneCall
    PROVE  x[1] \in {"sent", "leading", "waiting"} /\ x[2] \in BOOLEAN /\ x[3] \in Held
  BY DEF CallStates

LEMMA CallMade ==
    ASSUME NEW s \in {"sent", "leading", "waiting"}, NEW b \in BOOLEAN, NEW t \in Held
    PROVE  <<s, b, t>> \in CallStates /\ <<s, b, t>> # NoPhoneCall
  BY DEF CallStates, NoPhoneCall

\* Every step keeps the types.
LEMMA SessionTyped ==
    ASSUME MobileTypeOK, [MobileNext]_mobileVars
    PROVE  MobileTypeOK'
  <1>1. MaxLogins \in Nat /\ MaxCalls \in Nat /\ 0 \in Held /\ NoPhoneCall \in CallStates
    BY MobileAssumption DEF Held, CallStates
  <1>2. /\ phoneCalls \in [PhoneCalls -> CallStates]
        /\ attempts \in [LoginCalls -> {"none", "login", "profile"}]
        /\ access \in Held /\ refreshTok \in Held /\ login \in Held /\ shows \in Held
        /\ refreshing \subseteq Held /\ callsMade \in 0..MaxCalls
        /\ putBack \in BOOLEAN /\ signedOff \in BOOLEAN /\ doubled \in BOOLEAN
    BY DEF MobileTypeOK
  <1> USE DEF MobileTypeOK
  <1>3. ASSUME NEW a \in LoginCalls, SubmitLogin(a) \/ LoginRefused(a) PROVE MobileTypeOK'
    BY <1>2, <1>3 DEF SubmitLogin, LoginRefused, tokenVars
  <1>4. ASSUME NEW a \in LoginCalls, LoginAnswered(a) PROVE MobileTypeOK'
    <2>1. login + 1 \in Held
      BY <1>1, <1>2, <1>4 DEF LoginAnswered, Held
    <2>2. <<"sent", FALSE, login + 1>> \in CallStates
      BY <2>1, CallMade
    <2> QED
      BY <1>2, <1>4, <2>1, <2>2 DEF LoginAnswered
  <1>5. ASSUME NEW c \in OtherCalls \cup LogoutCalls, SendCall(c) PROVE MobileTypeOK'
    <2>1. callsMade + 1 \in 0..MaxCalls
      BY <1>1, <1>2, <1>5 DEF SendCall
    <2>2. <<"sent", FALSE, access>> \in CallStates
      BY <1>2, CallMade
    <2> QED
      BY <1>2, <1>5, <2>1, <2>2 DEF SendCall, tokenVars
  <1>6. ASSUME NEW c \in LogoutCalls, SignedOut(c) PROVE MobileTypeOK'
    BY <1>1, <1>2, <1>6 DEF SignedOut, SessionDropped
  <1>7. ASSUME NEW a \in LoginCalls, ProfileEnds(a) PROVE MobileTypeOK'
    <2>1. phoneCalls[a] \in CallStates /\ phoneCalls[a] # NoPhoneCall
      BY <1>2, <1>7 DEF ProfileEnds, Underway, PhoneCalls
    <2>2. phoneCalls[a][3] \in Held
      BY <2>1, CallParts
    <2> QED
      BY <1>1, <1>2, <1>7, <2>2 DEF ProfileEnds, tokenVars
  <1>8. ASSUME NEW c \in OtherCalls, CallEnds(c) PROVE MobileTypeOK'
    BY <1>1, <1>2, <1>8 DEF CallEnds, tokenVars
  <1>9. ASSUME NEW c \in PhoneCalls, Unauthenticated(c) PROVE MobileTypeOK'
    <2>1. phoneCalls[c] \in CallStates /\ phoneCalls[c] # NoPhoneCall
      BY <1>2, <1>9 DEF Unauthenticated, Underway
    <2>2. <<IF refreshing = {} THEN "leading" ELSE "waiting", TRUE, phoneCalls[c][3]>> \in CallStates
      BY <2>1, CallParts, CallMade
    <2> QED
      BY <1>2, <1>9, <2>2 DEF Unauthenticated, tokenVars
  <1>10. ASSUME NEW t \in Held, RefreshSucceeds(t) PROVE MobileTypeOK'
    <2>1. <<"sent", TRUE, t>> \in CallStates
      BY CallMade
    <2> QED
      BY <1>2, <1>10, <2>1 DEF RefreshSucceeds
  <1>11. CASE RefreshFails
    BY <1>1, <1>2, <1>11 DEF RefreshFails, SessionDropped
  <1>12. CASE UNCHANGED mobileVars
    BY <1>12 DEF mobileVars
  <1> QED
    BY <1>3, <1>4, <1>5, <1>6, <1>7, <1>8, <1>9, <1>10, <1>11, <1>12 DEF MobileNext

\* Whoever waits, waits for a refresh in flight, after every step too: only a
\* request that is refused begins to wait, and only the end of the refresh
\* takes it away, from everyone at once.
LEMMA NobodyStranded ==
    ASSUME MobileTypeOK, NoCallStranded, [MobileNext]_mobileVars
    PROVE  NoCallStranded'
  <1> DEFINE Waits(x) == x # NoPhoneCall /\ x[1] \in {"leading", "waiting"}
  <1>1. /\ NoCallStranded <=> ((\E c \in PhoneCalls : Waits(phoneCalls[c])) => refreshing # {})
        /\ NoCallStranded' <=> ((\E c \in PhoneCalls : Waits(phoneCalls'[c])) => refreshing' # {})
    BY DEF NoCallStranded, Parked
  <1>2. ~Waits(NoPhoneCall) /\ \A b, t : ~Waits(<<"sent", b, t>>)
    OBVIOUS
  <1>3. phoneCalls \in [PhoneCalls -> CallStates]
    BY DEF MobileTypeOK
  <1>4. ASSUME UNCHANGED refreshing,
               \A c \in PhoneCalls : Waits(phoneCalls'[c]) => Waits(phoneCalls[c])
        PROVE  NoCallStranded'
    BY <1>1, <1>4
  <1>5. ASSUME NEW a \in LoginCalls, SubmitLogin(a) \/ LoginRefused(a) PROVE NoCallStranded'
    BY <1>4, <1>5 DEF SubmitLogin, LoginRefused
  <1>6. ASSUME NEW a \in LoginCalls, LoginAnswered(a) PROVE NoCallStranded'
    <2>1. \A c \in PhoneCalls : Waits(phoneCalls'[c]) => Waits(phoneCalls[c])
      BY <1>2, <1>3, <1>6 DEF LoginAnswered
    <2> QED
      BY <1>4, <1>6, <2>1 DEF LoginAnswered
  <1>7. ASSUME NEW d \in OtherCalls \cup LogoutCalls, SendCall(d) PROVE NoCallStranded'
    <2>1. \A c \in PhoneCalls : Waits(phoneCalls'[c]) => Waits(phoneCalls[c])
      BY <1>2, <1>3, <1>7 DEF SendCall
    <2> QED
      BY <1>4, <1>7, <2>1 DEF SendCall
  <1>8. ASSUME NEW d \in PhoneCalls, SignedOut(d) \/ ProfileEnds(d) \/ CallEnds(d)
        PROVE  NoCallStranded'
    <2>1. phoneCalls' = [phoneCalls EXCEPT ![d] = NoPhoneCall] /\ UNCHANGED refreshing
      BY <1>8 DEF SignedOut, ProfileEnds, CallEnds
    <2>2. \A c \in PhoneCalls : Waits(phoneCalls'[c]) => Waits(phoneCalls[c])
      BY <1>2, <1>3, <2>1
    <2> QED
      BY <1>4, <2>1, <2>2
  <1>9. ASSUME NEW d \in PhoneCalls, Unauthenticated(d) PROVE NoCallStranded'
    BY <1>1, <1>9 DEF Unauthenticated
  <1>10. ASSUME NEW t \in Held, RefreshSucceeds(t) PROVE NoCallStranded'
    <2>1. \A c \in PhoneCalls : ~Waits(phoneCalls'[c])
      BY <1>2, <1>3, <1>10 DEF RefreshSucceeds, Parked
    <2> QED
      BY <1>1, <2>1
  <1>11. CASE RefreshFails
    <2>1. \A c \in PhoneCalls : ~Waits(phoneCalls'[c])
      BY <1>2, <1>3, <1>11 DEF RefreshFails, Parked
    <2> QED
      BY <1>1, <2>1
  <1>12. CASE UNCHANGED mobileVars
    BY <1>4, <1>12 DEF mobileVars
  <1> QED
    BY <1>5, <1>6, <1>7, <1>8, <1>9, <1>10, <1>11, <1>12 DEF MobileNext, PhoneCalls

\* A submit of the form lasts as long as its requests do, and one that began
\* alone stays alone: the form is gone once a profile is shown.
LEMMA FormKeptInOrder ==
    ASSUME MobileTypeOK, FormInOrder, [MobileNext]_mobileVars
    PROVE  FormInOrder'
  <1>1. /\ phoneCalls \in [PhoneCalls -> CallStates] /\ LoginCalls \subseteq PhoneCalls
        /\ attempts \in [LoginCalls -> {"none", "login", "profile"}]
        /\ \A c \in OtherCalls \cup LogoutCalls : c \notin LoginCalls
        /\ \A s, b, t : <<s, b, t>> # NoPhoneCall
    BY MobileAssumption DEF MobileTypeOK, PhoneCalls, NoPhoneCall
  <1> USE DEF FormInOrder, ProfileAsked, OneSubmit, Busy
  <1>2. ASSUME UNCHANGED attempts, UNCHANGED doubled, shows' \in {0, shows},
               \A a \in LoginCalls : phoneCalls'[a] = NoPhoneCall <=> phoneCalls[a] = NoPhoneCall
        PROVE  FormInOrder'
    BY <1>2
  <1>3. ASSUME NEW a \in LoginCalls, SubmitLogin(a) PROVE FormInOrder'
    BY <1>1, <1>3 DEF SubmitLogin
  <1>4. ASSUME NEW a \in LoginCalls, LoginAnswered(a) PROVE FormInOrder'
    <2>1. phoneCalls'[a] # NoPhoneCall
      BY <1>1, <1>4 DEF LoginAnswered
    <2> QED
      BY <1>1, <1>4, <2>1 DEF LoginAnswered
  <1>5. ASSUME NEW a \in LoginCalls, LoginRefused(a) PROVE FormInOrder'
    BY <1>1, <1>5 DEF LoginRefused
  <1>6. ASSUME NEW a \in LoginCalls, ProfileEnds(a) PROVE FormInOrder'
    <2>1. attempts[a] = "profile"
      BY <1>1, <1>6 DEF ProfileEnds, Underway
    <2>2. ~doubled' => \A b \in LoginCalls : attempts'[b] = "none"
      BY <1>1, <1>6, <2>1 DEF ProfileEnds
    <2>3. \A b \in LoginCalls : attempts'[b] = "profile" <=> phoneCalls'[b] # NoPhoneCall
      BY <1>1, <1>6, <2>1 DEF ProfileEnds
    <2> QED
      BY <2>2, <2>3
  <1>7. ASSUME NEW c \in OtherCalls \cup LogoutCalls, SendCall(c) \/ SignedOut(c) \/ CallEnds(c)
        PROVE  FormInOrder'
    <2>1. UNCHANGED <<attempts, doubled>> /\ shows' \in {0, shows}
      BY <1>7 DEF SendCall, SignedOut, SessionDropped, CallEnds
    <2>2. \A a \in LoginCalls : phoneCalls'[a] = phoneCalls[a]
      BY <1>1, <1>7 DEF SendCall, SignedOut, CallEnds
    <2> QED
      BY <1>2, <2>1, <2>2
  <1>8. ASSUME NEW c \in PhoneCalls, Unauthenticated(c) PROVE FormInOrder'
    <2>1. \A a \in LoginCalls : phoneCalls'[a] = NoPhoneCall <=> phoneCalls[a] = NoPhoneCall
      <3>1. <<IF refreshing = {} THEN "leading" ELSE "waiting", TRUE, phoneCalls[c][3]>> # NoPhoneCall
        BY DEF NoPhoneCall
      <3> QED
        BY <1>1, <1>8, <3>1 DEF Unauthenticated, Underway
    <2> QED
      BY <1>2, <1>8, <2>1 DEF Unauthenticated
  <1>9. ASSUME NEW t \in Held, RefreshSucceeds(t) PROVE FormInOrder'
    <2>1. \A a \in LoginCalls : phoneCalls'[a] = NoPhoneCall <=> phoneCalls[a] = NoPhoneCall
      <3>1. <<"sent", TRUE, t>> # NoPhoneCall
        BY DEF NoPhoneCall
      <3> QED
        BY <1>1, <1>9, <3>1 DEF RefreshSucceeds, Parked
    <2> QED
      BY <1>2, <1>9, <2>1 DEF RefreshSucceeds
  <1>10. CASE RefreshFails
    <2>1. \A a \in LoginCalls :
             IF a \in Parked THEN attempts'[a] = "none" /\ phoneCalls'[a] = NoPhoneCall
             ELSE attempts'[a] = attempts[a] /\ phoneCalls'[a] = phoneCalls[a]
      BY <1>1, <1>10 DEF RefreshFails
    <2>2. shows' = 0 /\ UNCHANGED doubled
      BY <1>10 DEF RefreshFails, SessionDropped
    <2> QED
      BY <1>1, <2>1, <2>2
  <1>11. CASE UNCHANGED mobileVars
    BY <1>2, <1>11 DEF mobileVars
  <1> QED
    BY <1>3, <1>4, <1>5, <1>6, <1>7, <1>8, <1>9, <1>10, <1>11 DEF MobileNext

\* The tokens stay those of the last login, and the profile shown too: logins
\* and sign-outs replace both tokens, and a refresh that finds the token it
\* was for stores that login's again.
LEMMA TokensStayOwned ==
    ASSUME MobileTypeOK, FormInOrder, TokensOwned, [MobileNext]_mobileVars
    PROVE  TokensOwned'
  <1>1. /\ phoneCalls \in [PhoneCalls -> CallStates] /\ LoginCalls \subseteq PhoneCalls
        /\ attempts \in [LoginCalls -> {"none", "login", "profile"}]
        /\ \A c \in OtherCalls \cup LogoutCalls : c \notin LoginCalls
        /\ putBack \in BOOLEAN /\ doubled \in BOOLEAN /\ signedOff \in BOOLEAN
    BY MobileAssumption DEF MobileTypeOK, PhoneCalls
  <1> USE DEF TokensOwned, NoTokenReturns, OwnProfile
  <1>2. ASSUME UNCHANGED <<shows, login, access, refreshTok, putBack, signedOff, doubled>>,
               \A a \in LoginCalls : phoneCalls'[a] # NoPhoneCall =>
                   phoneCalls[a] # NoPhoneCall /\ phoneCalls'[a][3] = phoneCalls[a][3]
        PROVE  TokensOwned'
    BY <1>2
  <1>3. ASSUME NEW a \in LoginCalls, SubmitLogin(a) PROVE TokensOwned'
    <2>1. ~doubled' => \A b \in LoginCalls : phoneCalls[b] = NoPhoneCall
      BY <1>3 DEF SubmitLogin, FormInOrder, ProfileAsked
    <2> QED
      BY <1>3, <2>1 DEF SubmitLogin, tokenVars
  <1>4. ASSUME NEW a \in LoginCalls, LoginAnswered(a) PROVE TokensOwned'
    <2>1. ~doubled' => shows = 0 /\ \A b \in LoginCalls \ {a} : attempts[b] = "none"
      BY <1>4 DEF LoginAnswered, FormInOrder, OneSubmit, Busy
    <2>2. ~doubled' => \A b \in LoginCalls \ {a} : phoneCalls'[b] = NoPhoneCall
      BY <1>1, <1>4, <2>1 DEF LoginAnswered, FormInOrder, ProfileAsked
    <2>3. phoneCalls'[a][3] = login + 1 /\ access' = login + 1 /\ shows' = shows
      BY <1>1, <1>4 DEF LoginAnswered
    <2>4. OwnProfile'
      BY <2>1, <2>2, <2>3 DEF LoginAnswered
    <2>5. access' = refreshTok' /\ NoTokenReturns'
      BY <1>4 DEF LoginAnswered
    <2> QED
      BY <2>4, <2>5
  <1>5. ASSUME NEW a \in LoginCalls, LoginRefused(a) PROVE TokensOwned'
    BY <1>2, <1>5 DEF LoginRefused, tokenVars
  <1>6. ASSUME NEW a \in LoginCalls, ProfileEnds(a) PROVE TokensOwned'
    <2>1. /\ phoneCalls[a] # NoPhoneCall /\ shows' \in {shows, phoneCalls[a][3]}
          /\ \A b \in LoginCalls : phoneCalls'[b] # NoPhoneCall => phoneCalls'[b] = phoneCalls[b]
          /\ UNCHANGED <<login, access, refreshTok, putBack, signedOff, doubled>>
      BY <1>1, <1>6 DEF ProfileEnds, Underway, tokenVars
    <2> QED
      BY <2>1
  <1>7. ASSUME NEW c \in OtherCalls \cup LogoutCalls, SendCall(c) \/ CallEnds(c)
        PROVE  TokensOwned'
    <2>1. \A a \in LoginCalls : phoneCalls'[a] = phoneCalls[a]
      BY <1>1, <1>7 DEF SendCall, CallEnds
    <2>2. UNCHANGED <<shows, login, access, refreshTok, putBack, signedOff, doubled>>
      BY <1>7 DEF SendCall, CallEnds, tokenVars
    <2> QED
      BY <1>2, <2>1, <2>2
  <1>8. ASSUME SessionDropped PROVE TokensOwned'
    BY <1>8 DEF SessionDropped
  <1>9. ASSUME NEW c \in PhoneCalls, Unauthenticated(c) PROVE TokensOwned'
    <2>1. \A a \in LoginCalls : phoneCalls'[a] # NoPhoneCall =>
             phoneCalls[a] # NoPhoneCall /\ phoneCalls'[a][3] = phoneCalls[a][3]
      BY <1>1, <1>9 DEF Unauthenticated, Underway
    <2>2. UNCHANGED <<shows, login, access, refreshTok, putBack, signedOff, doubled>>
      BY <1>9 DEF Unauthenticated, tokenVars
    <2> QED
      BY <1>2, <2>1, <2>2
  <1>10. ASSUME NEW t \in Held, RefreshSucceeds(t) PROVE TokensOwned'
    <2>1. /\ access' = t /\ refreshTok' = t /\ (~putBack' => ~putBack /\ refreshTok = t)
          /\ UNCHANGED <<shows, login, signedOff, doubled>> /\ t # 0
      BY <1>10 DEF RefreshSucceeds
    <2>2. \A a \in LoginCalls : phoneCalls'[a] # NoPhoneCall =>
             phoneCalls[a] # NoPhoneCall /\ phoneCalls'[a][3] \in {t, phoneCalls[a][3]}
      BY <1>1, <1>10 DEF RefreshSucceeds, Parked
    <2> QED
      BY <2>1, <2>2
  <1>11. CASE UNCHANGED mobileVars
    BY <1>2, <1>11 DEF mobileVars
  <1> QED
    BY <1>3, <1>4, <1>5, <1>6, <1>7, <1>8, <1>9, <1>10, <1>11
       DEF MobileNext, SignedOut, RefreshFails

\* The phone's tokens follow its session and no request hangs, for any
\* requests, any overlap of logins and sign-outs, and any number of logins:
\* http.js, LoginScreen and signOut.
THEOREM TokensAreOwn == MobileSpec => []TokensFollowSession
  <1>1. SessionInv /\ [MobileNext]_mobileVars => SessionInv'
    BY SessionTyped, NobodyStranded, FormKeptInOrder, TokensStayOwned DEF SessionInv
  <1>2. SessionInv => TokensFollowSession
    BY DEF SessionInv, TokensOwned, OwnProfile, TokensFollowSession, TokenOfShown, MobileTypeOK
  <1> QED
    BY SessionStarts, <1>1, <1>2, PTL DEF MobileSpec

-----------------------------------------------------------------------------
\* timerId names the one timer there is, and stopping clears it.
TimerIsNamed ==
    /\ (named = TRUE /\ armed = 1) \/ (named = FALSE /\ armed = 0)
    /\ started = FALSE => named = FALSE

\* Until a heartbeat finds nobody on duty, one is set or under way.
SomethingMoves == (started = TRUE /\ lapsed = FALSE) => (named = TRUE \/ beating > 0)

BeatInv == TelemetryTypeOK /\ TimerIsNamed /\ SomethingMoves

\* The invariant in the words of the property.
LEMMA ChainFollows == BeatInv => HeartbeatChain
  <1> SUFFICES ASSUME BeatInv PROVE HeartbeatChain
    OBVIOUS
  <1>1. /\ started \in BOOLEAN /\ lapsed \in BOOLEAN
        /\ beating \in Nat /\ (armed = 0 \/ armed = 1)
    BY TelemetryAssumption DEF BeatInv, TelemetryTypeOK, TimerIsNamed
  <1>2. OneTimer
    <2>1. armed <= 1
      BY <1>1
    <2>2. ~started => armed = 0
      BY <1>1 DEF BeatInv, TimerIsNamed
    <2> QED
      BY <2>1, <2>2 DEF OneTimer
  <1>3. BeatsGoOn
    <2> SUFFICES ASSUME started, ~lapsed PROVE armed + beating > 0
      BY DEF BeatsGoOn
    <2>1. started = TRUE /\ lapsed = FALSE
      BY <1>1
    <2>2. armed = 1 \/ beating > 0
      BY <2>1 DEF BeatInv, SomethingMoves, TimerIsNamed
    <2> QED
      BY <1>1, <2>2
  <1> QED
    BY <1>2, <1>3 DEF HeartbeatChain

\* Telemetry starts with no timer.
LEMMA BeatStarts == TelemetryInit => BeatInv
  <1> SUFFICES ASSUME TelemetryInit PROVE BeatInv
    OBVIOUS
  <1>1. 0 \in 0..MaxBeats /\ 0 \in 0..MaxStarts /\ 0 \in Nat
    BY TelemetryAssumption
  <1>2. TelemetryTypeOK
    BY <1>1, Zenon DEF TelemetryInit, TelemetryTypeOK
  <1>3. TimerIsNamed /\ SomethingMoves
    BY DEF TelemetryInit, TimerIsNamed, SomethingMoves
  <1> QED
    BY <1>2, <1>3 DEF BeatInv

\* Clearing the named timer leaves none; scheduling then sets exactly one.
LEMMA ScheduleSetsOne ==
    ASSUME BeatInv, Schedule
    PROVE  /\ Cleared = 0
           /\ started' = TRUE => armed' = 1 /\ named' = TRUE
           /\ started' = FALSE => armed' = armed /\ named' = named
  <1>1. Cleared = 0
    BY DEF BeatInv, TimerIsNamed, Cleared
  <1>2. started' = TRUE => armed' = 1 /\ named' = TRUE
    BY <1>1 DEF Schedule
  <1>3. started' = FALSE => armed' = armed /\ named' = named
    BY DEF Schedule
  <1> QED
    BY <1>1, <1>2, <1>3

\* n heartbeats are under way, or telemetry has lapsed or is off.
LEMMA SendTyped ==
    ASSUME BeatInv, NEW n \in Nat \ {0}, SendHeartbeats(n)
    PROVE  /\ beating' \in 0..MaxBeats /\ lapsed' \in BOOLEAN
           /\ started = TRUE => beating' > 0 \/ lapsed' = TRUE
  <1>1. /\ beating \in 0..MaxBeats /\ lapsed \in BOOLEAN
        /\ MaxBeats \in Nat /\ started \in BOOLEAN /\ onDuty \in BOOLEAN
    BY TelemetryAssumption DEF BeatInv, TelemetryTypeOK
  <1>2. CASE started /\ onDuty /\ beating + n <= MaxBeats /\ beating' = beating + n
             /\ lapsed' = FALSE
    <2>1. beating' \in 0..MaxBeats /\ beating' > 0
      BY <1>1, <1>2
    <2> QED
      BY <1>2, <2>1
  <1>3. CASE lapsed' = TRUE /\ UNCHANGED beating
    BY <1>1, <1>3
  <1>4. CASE ~started /\ UNCHANGED <<beating, lapsed>>
    BY <1>1, <1>4
  <1> QED
    BY <1>2, <1>3, <1>4 DEF SendHeartbeats

\* Every step keeps the heartbeats in one chain.
LEMMA BeatStep == BeatInv /\ [TelemetryNext]_telemetryVars => BeatInv'
  <1> SUFFICES ASSUME BeatInv, [TelemetryNext]_telemetryVars PROVE BeatInv'
    OBVIOUS
  <1>1. /\ started \in BOOLEAN /\ armed \in Nat /\ named \in BOOLEAN
        /\ beating \in 0..MaxBeats /\ listeners \in 0..MaxStarts
        /\ onDuty \in BOOLEAN /\ lapsed \in BOOLEAN
    BY DEF BeatInv, TelemetryTypeOK
  <1>2. MaxStarts \in Nat /\ MaxBeats \in Nat /\ 0 \in Nat /\ 1 \in Nat
    BY TelemetryAssumption
  <1>3. Cleared = 0 /\ TimerIsNamed /\ SomethingMoves
    BY DEF BeatInv, TimerIsNamed, Cleared
  <1>4. CASE StartTelemetry
    <2>1. started' = TRUE /\ armed' = 1 /\ named' = TRUE
      BY <1>4, ScheduleSetsOne DEF StartTelemetry
    <2>2. listeners' \in 0..MaxStarts
      BY <1>1, <1>2, <1>4 DEF StartTelemetry
    <2>3. TelemetryTypeOK'
      BY <1>1, <1>2, <1>4, <2>1, <2>2 DEF StartTelemetry, TelemetryTypeOK
    <2> QED
      BY <2>1, <2>3 DEF BeatInv, TimerIsNamed, SomethingMoves
  <1>5. CASE StopTelemetry
    <2>1. started' = FALSE /\ armed' = 0 /\ named' = FALSE
      BY <1>3, <1>5 DEF StopTelemetry
    <2>2. TelemetryTypeOK'
      BY <1>1, <1>2, <1>5, <2>1 DEF StopTelemetry, TelemetryTypeOK
    <2> QED
      BY <2>1, <2>2 DEF BeatInv, TimerIsNamed, SomethingMoves
  <1>6. CASE TimerFires \/ Foreground
    <2>1. /\ armed' = 0 /\ named' = FALSE
          /\ UNCHANGED <<started, listeners, onDuty>>
      <3>1. CASE TimerFires
        <4>1. armed = 1 /\ named = TRUE
          BY <1>1, <1>3, <3>1 DEF TimerFires, TimerIsNamed
        <4>2. armed - 1 = 0 /\ ~(armed > 1)
          BY <4>1
        <4>3. named' = (named /\ armed > 1) /\ armed' = armed - 1
              /\ UNCHANGED <<started, listeners, onDuty>>
          BY <3>1 DEF TimerFires
        <4>4. named' = FALSE
          BY <4>2, <4>3, Zenon
        <4> QED
          BY <4>2, <4>3, <4>4
      <3>2. CASE Foreground
        BY <1>3, <3>2 DEF Foreground
      <3> QED
        BY <1>6, <3>1, <3>2
    <2>2. /\ beating' \in 0..MaxBeats /\ lapsed' \in BOOLEAN
          /\ started = TRUE => beating' > 0 \/ lapsed' = TRUE
      <3>1. CASE TimerFires
        <4>1. 1 \in Nat \ {0} /\ SendHeartbeats(1)
          BY <3>1 DEF TimerFires
        <4> QED
          BY <4>1, SendTyped
      <3>2. CASE Foreground
        <4>1. listeners \in Nat \ {0}
          BY <1>1, <1>2, <3>2 DEF Foreground
        <4> QED
          BY <3>2, <4>1, SendTyped DEF Foreground
      <3> QED
        BY <1>6, <3>1, <3>2
    <2>3. TelemetryTypeOK'
      BY <1>1, <1>2, <2>1, <2>2 DEF TelemetryTypeOK
    <2> QED
      BY <2>1, <2>2, <2>3 DEF BeatInv, TimerIsNamed, SomethingMoves
  <1>7. CASE BeatEnds
    <2>1. UNCHANGED <<started, listeners, onDuty, lapsed>> /\ Schedule
      BY <1>7 DEF BeatEnds
    <2>2. beating' \in 0..MaxBeats
      BY <1>1, <1>2, <1>7 DEF BeatEnds
    <2>3. CASE started = TRUE
      <3>1. armed' = 1 /\ named' = TRUE /\ started' = TRUE
        <4>1. started' = TRUE
          BY <2>1, <2>3
        <4> QED
          BY <2>1, <4>1, ScheduleSetsOne
      <3>2. TelemetryTypeOK'
        BY <1>1, <1>2, <2>1, <2>2, <3>1 DEF TelemetryTypeOK
      <3> QED
        BY <3>1, <3>2 DEF BeatInv, TimerIsNamed, SomethingMoves
    <2>4. CASE started = FALSE
      <3>1. armed' = armed /\ named' = named /\ started' = FALSE
        <4>1. started' = FALSE
          BY <2>1, <2>4
        <4> QED
          BY <2>1, <4>1, ScheduleSetsOne
      <3>2. TelemetryTypeOK'
        BY <1>1, <2>1, <2>2, <3>1 DEF TelemetryTypeOK
      <3> QED
        BY <1>3, <2>4, <3>1, <3>2 DEF BeatInv, TimerIsNamed, SomethingMoves
    <2> QED
      BY <1>1, <2>3, <2>4
  <1>8. CASE DutyChanges
    BY <1>1, <1>3, <1>8 DEF DutyChanges, BeatInv, TelemetryTypeOK, TimerIsNamed, SomethingMoves
  <1>9. CASE UNCHANGED telemetryVars
    BY <1>1, <1>3, <1>9 DEF telemetryVars, BeatInv, TelemetryTypeOK, TimerIsNamed, SomethingMoves
  <1> QED
    BY <1>4, <1>5, <1>6, <1>7, <1>8, <1>9 DEF TelemetryNext

\* One timer at most, and a chain that only a heartbeat off duty breaks, for
\* any number of starts and overlapping heartbeats: backgroundTelemetry.js.
THEOREM BeatsAreChained == TelemetrySpec => []HeartbeatChain
  BY BeatStarts, BeatStep, ChainFollows, PTL DEF TelemetrySpec

-----------------------------------------------------------------------------
RunRecords ==
    [screen : 1..MaxScreens, stage : RunStages, frames : {0, 2}, passes : 0..MaxPasses,
     small : BOOLEAN]

Active(r) == runs[r] # NoRun /\ runs[r].stage # "done"

\* A screen in flight has one sequence, and a sequence a screen in flight.
RunsFollowScreens ==
    /\ screen <= screens
    /\ \A n \in inFlight : n <= screens /\ \E r \in Runs : Active(r) /\ runs[r].screen = n
    /\ \A r \in Runs : runs[r] # NoRun => runs[r].screen <= screens
    /\ \A r \in Runs : Active(r) => runs[r].screen \in inFlight
    /\ \A r, s \in Runs :
          (Active(r) /\ Active(s) /\ runs[r].screen = runs[s].screen) => r = s

\* What has passed the gate is small, and what is recorded is done.
GatePassed ==
    /\ \A r \in Runs :
          (runs[r] # NoRun /\ runs[r].stage \in {"uploading", "submitting"}) => runs[r].small
    /\ \A r \in entries : runs[r] # NoRun /\ runs[r].stage = "done"

PhoneInv ==
    /\ CheckInPhoneTypeOK
    /\ runs \in [Runs -> RunRecords \cup {NoRun}]
    /\ RunsFollowScreens
    /\ GatePassed
    /\ EvidenceComplete
    /\ ResultIsOwn
    /\ checkHistory \subseteq entries

LEMMA RunIsRecord == \A q \in RunRecords : q # NoRun
  BY DEF RunRecords, NoRun

LEMMA PhoneInvSound == PhoneInv => PhoneCheckinSound
  <1> SUFFICES ASSUME PhoneInv, NEW n \in inFlight
               PROVE  Cardinality({r \in Runs : runs[r] # NoRun /\ runs[r].screen = n
                                                /\ runs[r].stage # "done"}) = 1
    BY DEF PhoneInv, PhoneCheckinSound, OneRunPerScreen
  <1>1. PICK r \in Runs : Active(r) /\ runs[r].screen = n
    BY DEF PhoneInv, RunsFollowScreens
  <1>2. {s \in Runs : runs[s] # NoRun /\ runs[s].screen = n /\ runs[s].stage # "done"} = {r}
    BY <1>1 DEF PhoneInv, RunsFollowScreens, Active
  <1> QED
    BY <1>2, FS_Singleton

\* A sequence that goes on.
LEMMA RunGoesOn ==
    ASSUME PhoneInv, NEW r \in Runs, Active(r), NEW q \in RunRecords,
           q.screen = runs[r].screen, q.stage # "done",
           q.stage \in {"uploading", "submitting"} => q.small,
           runs' = [runs EXCEPT ![r] = q],
           UNCHANGED <<screen, screens, inFlight, shownBusy, entries, checkHistory, resultKind>>
    PROVE  PhoneInv'
  <1>1. /\ runs \in [Runs -> RunRecords \cup {NoRun}] /\ CheckInPhoneTypeOK
        /\ RunsFollowScreens /\ GatePassed /\ EvidenceComplete /\ ResultIsOwn
        /\ checkHistory \subseteq entries
    BY DEF PhoneInv
  <1>2. q # NoRun
    BY RunIsRecord
  <1>3. runs'[r] = q /\ \A s \in Runs \ {r} : runs'[s] = runs[s]
    BY <1>1
  <1>4. runs' \in [Runs -> RunRecords \cup {NoRun}]
    BY <1>1
  <1>5. CheckInPhoneTypeOK'
    BY <1>1, <1>4 DEF CheckInPhoneTypeOK, RunRecords
  <1>6. Active(r)' /\ \A s \in Runs : Active(s)' <=> Active(s)
    BY <1>2, <1>3 DEF Active
  <1>7. \A s \in Runs : /\ runs'[s] # NoRun <=> runs[s] # NoRun
                        /\ runs'[s].screen = runs[s].screen
    BY <1>2, <1>3 DEF Active
  <1>8. RunsFollowScreens'
    BY <1>1, <1>6, <1>7 DEF RunsFollowScreens
  <1>9. r \notin entries
    BY <1>1 DEF GatePassed, Active
  <1>10. entries \subseteq Runs
    BY <1>1 DEF CheckInPhoneTypeOK
  <1>11. GatePassed' /\ EvidenceComplete'
    BY <1>1, <1>3, <1>9, <1>10 DEF GatePassed, EvidenceComplete
  <1>12. ResultIsOwn'
    BY <1>1, <1>3, <1>9, <1>10 DEF ResultIsOwn
  <1> QED
    BY <1>1, <1>4, <1>5, <1>8, <1>11, <1>12 DEF PhoneInv

\* A sequence that ends, recorded or not.
LEMMA RunEnds ==
    ASSUME PhoneInv, NEW r \in Runs, Active(r), NEW kind \in Kinds, Finish(r, kind),
           \/ entries' = entries
           \/ entries' = entries \cup {r} /\ runs[r].frames = 2 /\ runs[r].small,
           kind = "success" => r \in entries'
    PROVE  PhoneInv'
  <1>1. /\ runs \in [Runs -> RunRecords \cup {NoRun}] /\ CheckInPhoneTypeOK
        /\ RunsFollowScreens /\ GatePassed /\ EvidenceComplete /\ ResultIsOwn
        /\ checkHistory \subseteq entries
    BY DEF PhoneInv
  <1>2. /\ runs' = [runs EXCEPT ![r].stage = "done"]
        /\ inFlight' = inFlight \ {runs[r].screen}
        /\ resultKind' = IF Mounted(r) THEN kind ELSE resultKind
        /\ checkHistory' \in {checkHistory, checkHistory \cup {r}}
        /\ checkHistory' = checkHistory \cup {r} => kind = "success" \/ r \in checkHistory
        /\ UNCHANGED <<screen, screens, shownBusy>>
    BY DEF Finish
  <1>3. /\ runs[r] \in RunRecords
        /\ runs'[r] = [runs[r] EXCEPT !.stage = "done"]
        /\ \A s \in Runs \ {r} : runs'[s] = runs[s]
    BY <1>1, <1>2 DEF Active
  <1>4. /\ runs'[r] \in RunRecords /\ runs'[r].stage = "done"
        /\ runs'[r].screen = runs[r].screen
        /\ runs'[r].frames = runs[r].frames /\ runs'[r].small = runs[r].small
    BY <1>3 DEF RunRecords, RunStages
  <1>5. runs'[r] # NoRun
    BY <1>4, RunIsRecord
  <1>6. runs' \in [Runs -> RunRecords \cup {NoRun}]
    BY <1>1, <1>2, <1>3, <1>4
  <1>7. /\ entries \subseteq Runs /\ entries' \subseteq Runs /\ entries \subseteq entries'
        /\ r \notin entries /\ entries' \subseteq entries \cup {r}
        /\ r \in entries' => runs[r].frames = 2 /\ runs[r].small
    BY <1>1 DEF CheckInPhoneTypeOK, GatePassed, Active
  <1>8. checkHistory' \subseteq entries'
    BY <1>1, <1>2, <1>7
  <1>9. CheckInPhoneTypeOK'
    <2>1. resultKind' \in Kinds
      BY <1>1, <1>2 DEF CheckInPhoneTypeOK
    <2>2. inFlight' \subseteq inFlight
      BY <1>2
    <2> QED
      BY <1>1, <1>2, <1>6, <1>7, <1>8, <2>1, <2>2 DEF CheckInPhoneTypeOK, RunRecords
  <1>10. ~Active(r)' /\ \A s \in Runs \ {r} : Active(s)' <=> Active(s)
    BY <1>3, <1>4 DEF Active
  <1>11. RunsFollowScreens'
    <2>1. ASSUME NEW n \in inFlight'
          PROVE  n <= screens /\ \E s \in Runs : Active(s)' /\ runs'[s].screen = n
      <3>1. n \in inFlight /\ n # runs[r].screen
        BY <1>2
      <3>2. PICK s \in Runs : Active(s) /\ runs[s].screen = n
        BY <1>1, <3>1 DEF RunsFollowScreens
      <3>3. s # r
        BY <3>1, <3>2
      <3> QED
        BY <1>1, <1>3, <1>10, <3>1, <3>2, <3>3 DEF RunsFollowScreens
    <2>2. ASSUME NEW s \in Runs, Active(s)' PROVE runs'[s].screen \in inFlight'
      <3>1. s # r /\ Active(s)
        BY <1>10, <2>2
      <3>2. runs[s].screen \in inFlight /\ runs[s].screen # runs[r].screen
        BY <1>1, <3>1 DEF RunsFollowScreens
      <3> QED
        BY <1>2, <1>3, <3>1, <3>2
    <2>3. ASSUME NEW s \in Runs, runs'[s] # NoRun PROVE runs'[s].screen <= screens
      BY <1>1, <1>3, <1>4, <2>3 DEF RunsFollowScreens, Active
    <2>4. ASSUME NEW s \in Runs, NEW t \in Runs, Active(s)', Active(t)',
                 runs'[s].screen = runs'[t].screen
          PROVE  s = t
      BY <1>1, <1>3, <1>10, <2>4 DEF RunsFollowScreens
    <2> QED
      BY <1>1, <1>2, <2>1, <2>2, <2>3, <2>4 DEF RunsFollowScreens
  <1>12. GatePassed' /\ EvidenceComplete'
    <2>1. ASSUME NEW s \in Runs, runs'[s] # NoRun, runs'[s].stage \in {"uploading", "submitting"}
          PROVE  runs'[s].small
      <3>1. s # r
        BY <1>4, <2>1
      <3> QED
        BY <1>1, <1>3, <2>1, <3>1 DEF GatePassed
    <2>2. ASSUME NEW s \in entries'
          PROVE  /\ runs'[s] # NoRun /\ runs'[s].stage = "done"
                 /\ runs'[s].frames = 2 /\ runs'[s].small
      <3>1. CASE s = r
        BY <1>4, <1>5, <1>7, <2>2, <3>1
      <3>2. CASE s # r
        <4>1. s \in entries /\ s \in Runs /\ runs'[s] = runs[s]
          BY <1>3, <1>7, <2>2, <3>2
        <4> QED
          BY <1>1, <4>1 DEF GatePassed, EvidenceComplete
      <3> QED
        BY <3>1, <3>2
    <2> QED
      BY <2>1, <2>2 DEF GatePassed, EvidenceComplete
  <1>13. ResultIsOwn'
    <2> SUFFICES ASSUME screen # 0, resultKind' = "success"
                 PROVE  \E s \in entries' : runs'[s].screen = screen /\ runs'[s].stage = "done"
      BY <1>2 DEF ResultIsOwn
    <2>1. CASE Mounted(r)
      <3>1. kind = "success" /\ r \in entries' /\ runs'[r].screen = screen
        BY <1>2, <1>4, <2>1 DEF Mounted
      <3> QED
        BY <1>4, <3>1
    <2>2. CASE ~Mounted(r)
      <3>1. PICK s \in entries : runs[s].screen = screen /\ runs[s].stage = "done"
        BY <1>1, <1>2, <2>2 DEF ResultIsOwn
      <3> QED
        BY <1>3, <1>7, <3>1
    <2> QED
      BY <2>1, <2>2
  <1> QED
    BY <1>6, <1>8, <1>9, <1>11, <1>12, <1>13 DEF PhoneInv

LEMMA PhoneStarts == CheckInPhoneInit => PhoneInv
  <1> SUFFICES ASSUME CheckInPhoneInit PROVE PhoneInv
    OBVIOUS
  <1>1. runs = [r \in Runs |-> NoRun] /\ \A r \in Runs : runs[r] = NoRun
    BY DEF CheckInPhoneInit
  <1> QED
    BY <1>1, PhoneAssumption
    DEF CheckInPhoneInit, PhoneInv, CheckInPhoneTypeOK, Kinds, RunsFollowScreens, Active,
        GatePassed, EvidenceComplete, ResultIsOwn

LEMMA PhoneStep == PhoneInv /\ [CheckInPhoneNext]_phoneVars => PhoneInv'
  <1> SUFFICES ASSUME PhoneInv, [CheckInPhoneNext]_phoneVars PROVE PhoneInv'
    OBVIOUS
  <1>1. /\ runs \in [Runs -> RunRecords \cup {NoRun}] /\ CheckInPhoneTypeOK
        /\ RunsFollowScreens /\ GatePassed /\ EvidenceComplete /\ ResultIsOwn
        /\ checkHistory \subseteq entries
        /\ screen \in Nat /\ screens \in Nat
    BY DEF PhoneInv, CheckInPhoneTypeOK
  <1>2. ASSUME UNCHANGED <<inFlight, runs, entries, checkHistory>>,
               shownBusy' \subseteq 1..MaxScreens,
               screens' \in screens..MaxScreens, screen' \in 0..screens',
               resultKind' \in Kinds,
               (screen' # 0 /\ resultKind' = "success") => screen' = screen /\ resultKind = "success"
        PROVE  PhoneInv'
    <2>1. CheckInPhoneTypeOK'
      <3>1. /\ screen' \in 0..MaxScreens /\ screens' \in 0..MaxScreens
            /\ inFlight \subseteq 1..MaxScreens
        BY <1>1, <1>2, PhoneAssumption DEF CheckInPhoneTypeOK
      <3> QED
        BY <1>1, <1>2, <3>1 DEF CheckInPhoneTypeOK
    <2>2. RunsFollowScreens'
      <3>1. \A n \in inFlight : n \in Nat
        BY <1>1 DEF CheckInPhoneTypeOK
      <3>2. \A r \in Runs : runs[r] # NoRun => runs[r].screen \in Nat
        BY <1>1 DEF RunRecords
      <3>3. \A n \in Nat : n <= screens => n <= screens'
        BY <1>1, <1>2
      <3> QED
        BY <1>1, <1>2, <3>1, <3>2, <3>3 DEF RunsFollowScreens, Active
    <2>3. GatePassed' /\ EvidenceComplete' /\ ResultIsOwn'
      BY <1>1, <1>2 DEF GatePassed, EvidenceComplete, ResultIsOwn
    <2> QED
      BY <1>1, <1>2, <2>1, <2>2, <2>3 DEF PhoneInv
  <1>3. CASE OpenScreen
    BY <1>1, <1>2, <1>3, PhoneAssumption DEF OpenScreen, Kinds, CheckInPhoneTypeOK
  <1>4. CASE LeaveScreen
    BY <1>1, <1>2, <1>4, PhoneAssumption DEF LeaveScreen, CheckInPhoneTypeOK
  <1>5. CASE Render
    <2>1. /\ UNCHANGED <<screen, screens, inFlight, runs, entries, checkHistory, resultKind>>
          /\ shownBusy' = (shownBusy \ {screen}) \cup (inFlight \cap {screen})
      BY <1>5 DEF Render
    <2>2. shownBusy' \subseteq 1..MaxScreens
      BY <1>1, <2>1 DEF CheckInPhoneTypeOK
    <2>3. screen \in 0..screens /\ screens \in screens..MaxScreens /\ resultKind \in Kinds
      BY <1>1, PhoneAssumption DEF CheckInPhoneTypeOK, RunsFollowScreens
    <2> QED
      BY <1>2, <2>1, <2>2, <2>3
  <1>6. CASE TryAgain
    <2>1. /\ UNCHANGED <<screen, screens, inFlight, shownBusy, runs, entries, checkHistory>>
          /\ resultKind' = "none"
      BY <1>6 DEF TryAgain
    <2>2. screen \in 0..screens /\ screens \in screens..MaxScreens /\ shownBusy \subseteq 1..MaxScreens
      BY <1>1, PhoneAssumption DEF CheckInPhoneTypeOK, RunsFollowScreens
    <2> QED
      BY <1>2, <2>1, <2>2 DEF Kinds
  <1>7. ASSUME NEW r \in Runs, Start(r) PROVE PhoneInv'
    <2> DEFINE q == [screen |-> screen, stage |-> "permissions", frames |-> 0,
                     passes |-> 0, small |-> FALSE]
    <2>1. /\ screen # 0 /\ resultKind = "none" /\ screen \notin inFlight /\ runs[r] = NoRun
          /\ runs' = [runs EXCEPT ![r] = q]
          /\ inFlight' = inFlight \cup {screen}
          /\ UNCHANGED <<screen, screens, shownBusy, entries, checkHistory, resultKind>>
      BY <1>7 DEF Start, Starting
    <2>2. screen \in 1..MaxScreens
      BY <1>1, <2>1, PhoneAssumption DEF CheckInPhoneTypeOK
    <2>3. q \in RunRecords /\ q.screen = screen /\ q.stage = "permissions"
      BY <2>2, PhoneAssumption DEF RunRecords, RunStages
    <2> HIDE DEF q
    <2>4. q # NoRun
      BY <2>3, RunIsRecord
    <2>5. runs'[r] = q /\ \A s \in Runs \ {r} : runs'[s] = runs[s]
      BY <1>1, <2>1
    <2>6. runs' \in [Runs -> RunRecords \cup {NoRun}]
      BY <1>1, <2>1, <2>3
    <2>7. CheckInPhoneTypeOK'
      BY <1>1, <2>1, <2>2, <2>6 DEF CheckInPhoneTypeOK, RunRecords
    <2>8. Active(r)' /\ ~Active(r) /\ \A s \in Runs \ {r} : Active(s)' <=> Active(s)
      BY <2>1, <2>3, <2>4, <2>5 DEF Active
    <2>9. \A s \in Runs : Active(s) => runs[s].screen # screen
      BY <1>1, <2>1 DEF RunsFollowScreens
    <2>10. RunsFollowScreens'
      <3>1. ASSUME NEW n \in inFlight'
            PROVE  n <= screens /\ \E s \in Runs : Active(s)' /\ runs'[s].screen = n
        <4>1. CASE n = screen
          BY <1>1, <2>3, <2>5, <2>8, <4>1 DEF RunsFollowScreens
        <4>2. CASE n # screen
          <5>1. n \in inFlight
            BY <2>1, <4>2
          <5>2. PICK s \in Runs : Active(s) /\ runs[s].screen = n
            BY <1>1, <5>1 DEF RunsFollowScreens
          <5> QED
            BY <1>1, <2>5, <2>8, <5>1, <5>2 DEF RunsFollowScreens
        <4> QED
          BY <4>1, <4>2
      <3>2. ASSUME NEW s \in Runs PROVE runs'[s] # NoRun => runs'[s].screen <= screens
        BY <1>1, <2>3, <2>5 DEF RunsFollowScreens
      <3>3. ASSUME NEW s \in Runs, Active(s)' PROVE runs'[s].screen \in inFlight'
        BY <1>1, <2>1, <2>3, <2>5, <2>8, <3>3 DEF RunsFollowScreens
      <3>4. ASSUME NEW s \in Runs, NEW t \in Runs, Active(s)', Active(t)',
                   runs'[s].screen = runs'[t].screen
            PROVE  s = t
        BY <1>1, <2>3, <2>5, <2>8, <2>9, <3>4 DEF RunsFollowScreens
      <3> QED
        BY <1>1, <2>1, <3>1, <3>2, <3>3, <3>4 DEF RunsFollowScreens
    <2>11. r \notin entries /\ entries \subseteq Runs
      BY <1>1, <2>1 DEF GatePassed, CheckInPhoneTypeOK
    <2>12. GatePassed' /\ EvidenceComplete' /\ ResultIsOwn'
      BY <1>1, <2>1, <2>3, <2>5, <2>11 DEF GatePassed, EvidenceComplete, ResultIsOwn
    <2> QED
      BY <1>1, <2>1, <2>6, <2>7, <2>10, <2>12 DEF PhoneInv
  \* The stages of one sequence.
  <1>8. ASSUME NEW r \in Runs, NEW stage \in RunStages \ {"done"}, Active(r), ToStage(r, stage),
               stage \in {"uploading", "submitting"} => runs[r].small
        PROVE  PhoneInv'
    <2> DEFINE q == [runs[r] EXCEPT !.stage = stage]
    <2>1. /\ runs' = [runs EXCEPT ![r] = q]
          /\ UNCHANGED <<screen, screens, inFlight, shownBusy, entries, checkHistory, resultKind>>
      BY <1>8 DEF ToStage
    <2>2. runs[r] \in RunRecords
      BY <1>1, <1>8 DEF Active
    <2>3. q \in RunRecords /\ q.screen = runs[r].screen /\ q.stage = stage /\ q.small = runs[r].small
      BY <2>2 DEF RunRecords
    <2> HIDE DEF q
    <2> QED
      BY <1>8, <2>1, <2>3, RunGoesOn
  <1>9. ASSUME NEW r \in Runs, LocalChecks(r) PROVE PhoneInv'
    <2>1. PICK from \in DOMAIN NextStage :
              /\ In(r, from)
              /\ \/ ToStage(r, NextStage[from])
                 \/ \E kind \in Refusals[from] : Finish(r, kind) /\ UNCHANGED entries
      BY <1>9 DEF LocalChecks
    <2>2. /\ from \in {"permissions", "locating", "antispoof", "capture"}
          /\ NextStage[from] \in {"locating", "antispoof", "capture", "liveness"}
          /\ Refusals[from] \subseteq Kinds \ {"success"}
      BY DEF NextStage, Refusals, Kinds
    <2>3. Active(r)
      BY <2>1, <2>2 DEF In, Active
    <2>4. CASE ToStage(r, NextStage[from])
      BY <1>8, <2>2, <2>3, <2>4 DEF RunStages
    <2>5. ASSUME NEW kind \in Refusals[from], Finish(r, kind), UNCHANGED entries
          PROVE  PhoneInv'
      <3>1. kind \in Kinds /\ kind # "success"
        BY <2>2
      <3> QED
        BY <2>3, <2>5, <3>1, RunEnds
    <2> QED
      BY <2>1, <2>4, <2>5
  <1>10. ASSUME NEW r \in Runs, RunLiveness(r) PROVE PhoneInv'
    <2>1. Active(r) /\ runs[r] \in RunRecords
      BY <1>1, <1>10 DEF RunLiveness, In, Active
    <2>2. ASSUME NEW frames \in {0, 2},
                 runs' = [runs EXCEPT ![r].stage = "compressing", ![r].frames = frames],
                 UNCHANGED <<screen, screens, inFlight, shownBusy, entries, checkHistory, resultKind>>
          PROVE  PhoneInv'
      <3> DEFINE q == [runs[r] EXCEPT !.stage = "compressing", !.frames = frames]
      <3>1. runs' = [runs EXCEPT ![r] = q]
        BY <1>1, <2>1, <2>2
      <3>2. q \in RunRecords /\ q.screen = runs[r].screen /\ q.stage = "compressing"
        BY <2>1 DEF RunRecords, RunStages
      <3> HIDE DEF q
      <3> QED
        BY <2>1, <2>2, <3>1, <3>2, RunGoesOn
    <2>3. CASE Finish(r, "error") /\ UNCHANGED entries
      <3>1. "error" \in Kinds
        BY DEF Kinds
      <3> QED
        BY <2>1, <2>3, <3>1, RunEnds
    <2> QED
      BY <1>10, <2>2, <2>3 DEF RunLiveness
  <1>11. ASSUME NEW r \in Runs, CompressPass(r) PROVE PhoneInv'
    <2>1. /\ Active(r) /\ runs[r] \in RunRecords /\ runs[r].stage = "compressing"
          /\ runs[r].passes < MaxPasses
      BY <1>1, <1>11 DEF CompressPass, In, Active
    <2>2. PICK fits \in BOOLEAN, narrow \in BOOLEAN :
              /\ runs' = [runs EXCEPT ![r].passes = IF narrow THEN MaxPasses ELSE @ + 1,
                                      ![r].small = fits]
              /\ UNCHANGED <<screen, screens, inFlight, shownBusy, entries, checkHistory, resultKind>>
      BY <1>11 DEF CompressPass
    <2> DEFINE p == IF narrow THEN MaxPasses ELSE runs[r].passes + 1
               q == [runs[r] EXCEPT !.passes = p, !.small = fits]
    <2>3. runs' = [runs EXCEPT ![r] = q]
      BY <1>1, <2>1, <2>2
    <2>4. p \in 0..MaxPasses
      BY <2>1, PhoneAssumption DEF RunRecords
    <2> HIDE DEF p
    <2>5. q \in RunRecords /\ q.screen = runs[r].screen /\ q.stage = "compressing"
      BY <2>1, <2>4 DEF RunRecords
    <2> HIDE DEF q
    <2> QED
      BY <2>1, <2>2, <2>3, <2>5, RunGoesOn
  <1>12. ASSUME NEW r \in Runs, SizeGate(r) \/ Upload(r) PROVE PhoneInv'
    <2>1. /\ Active(r)
          /\ \/ ToStage(r, "uploading") /\ runs[r].small
             \/ ToStage(r, "submitting") /\ runs[r].stage = "uploading"
             \/ Finish(r, "error") /\ UNCHANGED entries
      BY <1>12 DEF SizeGate, Upload, In, Active
    <2>2. runs[r].stage = "uploading" => runs[r].small
      BY <1>1, <2>1 DEF GatePassed, Active
    <2>3. CASE ToStage(r, "uploading") /\ runs[r].small
      BY <1>8, <2>1, <2>3 DEF RunStages
    <2>4. CASE ToStage(r, "submitting") /\ runs[r].small
      BY <1>8, <2>1, <2>4 DEF RunStages
    <2>5. CASE Finish(r, "error") /\ UNCHANGED entries
      <3>1. "error" \in Kinds
        BY DEF Kinds
      <3> QED
        BY <2>1, <2>5, <3>1, RunEnds
    <2> QED
      BY <2>1, <2>2, <2>3, <2>4, <2>5
  <1>13. ASSUME NEW r \in Runs, SubmitCheckIn(r) PROVE PhoneInv'
    <2>1. Active(r) /\ runs[r].small
      BY <1>1, <1>13 DEF SubmitCheckIn, In, Active, GatePassed
    <2>2. PICK kind \in Kinds :
              /\ Finish(r, kind)
              /\ \/ entries' = entries \cup {r} /\ runs[r].frames = 2
                 \/ entries' = entries /\ kind # "success"
      BY <1>13 DEF SubmitCheckIn, Kinds
    <2>3. kind = "success" => r \in entries'
      BY <2>2
    <2> QED
      BY <2>1, <2>2, <2>3, RunEnds
  <1>14. CASE UNCHANGED phoneVars
    <2>1. /\ UNCHANGED <<screen, screens, inFlight, shownBusy, runs, entries, checkHistory, resultKind>>
      BY <1>14 DEF phoneVars
    <2> QED
      BY <2>1 DEF PhoneInv, CheckInPhoneTypeOK, RunsFollowScreens, Active, GatePassed,
                  EvidenceComplete, ResultIsOwn
  <1> QED
    BY <1>3, <1>4, <1>5, <1>6, <1>7, <1>9, <1>10, <1>11, <1>12, <1>13, <1>14 DEF CheckInPhoneNext

\* Two taps start one sequence, what is recorded has its evidence, and a screen
\* shows what became of its own sequence only.
THEOREM PhoneCheckinsAreSound == CheckInPhoneSpec => []PhoneCheckinSound
  <1> QED
    BY PhoneInvSound, PhoneStarts, PhoneStep, PTL DEF CheckInPhoneSpec

-----------------------------------------------------------------------------
\* The colours left to show: two, one or none.
FlashShort ==
    \/ flash = <<>>
    \/ \E c \in Colours : flash = <<c>>
    \/ \E c, d \in Colours : flash = <<c, d>>

\* No watch, and no answer awaited, is of an opening still to come; the watch
\* of the mounted one is known to it.
WatchesKnown ==
    /\ form <= formsOpened
    /\ asking \cup watchAsked \cup watches \subseteq 1..formsOpened
    /\ form \in watches => watchRef

\* A PIN that was sent is still being dealt with, or was taken for a second one.
SentIsPending ==
    pinSent # 0 => formBusy \/ ended # "none" \/ formResult # "none" \/ hurried

FormInv == FormTypeOK /\ FlashShort /\ WatchesKnown /\ SentIsPending /\ FormSound

LEMMA StepsAre ==
    /\ Len(CheckInSteps) = 9
    /\ \A i \in 1..9 : CheckInSteps[i] \in StepLabels /\ (CheckInSteps[i] = "liveness" => i = 6)
    /\ CheckInSteps[6] = "liveness"
  <1>1. Len(CheckInSteps) = 9 /\ DOMAIN CheckInSteps = 1..9
    BY DEF CheckInSteps
  <1>2. \A i \in 1..9 : CheckInSteps[i] \in StepLabels
    BY <1>1 DEF StepLabels
  <1>3. ASSUME NEW i \in 1..9, CheckInSteps[i] = "liveness" PROVE i = 6
    <2>1. \/ i = 1 \/ i = 2 \/ i = 3 \/ i = 4 \/ i = 5 \/ i = 6 \/ i = 7 \/ i = 8 \/ i = 9
      BY <1>3
    <2> QED
      BY <1>3, <2>1 DEF CheckInSteps
  <1> QED
    BY <1>1, <1>2, <1>3 DEF CheckInSteps

\* What a form that begins, or is gone, is set to has the types of the state.
LEMMA FreshIsTyped ==
    /\ \A f : f = <<>> => \A i \in DOMAIN f : f[i] \in Colours
    /\ 0 \in 0..MaxForms /\ 0 \in 0..PinLength /\ 0 \in 0..Len(CheckInSteps) /\ 0 \in 0..2
    /\ "none" \in Outcomes \cup {"none"}
  BY FormAssumption, StepsAre

LEMMA FormStarts == FormInit => FormInv
  <1> SUFFICES ASSUME FormInit PROVE FormInv
    OBVIOUS
  <1>1. FormTypeOK
    <2>1. \A i \in DOMAIN flash : flash[i] \in Colours
      BY FreshIsTyped DEF FormInit
    <2> QED
      BY <2>1, FreshIsTyped DEF FormInit, FormTypeOK
  <1>2. FlashShort /\ WatchesKnown /\ SentIsPending
    BY DEF FormInit, FlashShort, WatchesKnown, SentIsPending
  <1>3. FormSound
    BY DEF FormInit, FormSound, WatchFollowsForm, BadgeAlive, FormShown, PinSpentByTap, WayOn
  <1> QED
    BY <1>1, <1>2, <1>3 DEF FormInv

\* Steps that leave the watch, the permission and the opening alone.
LEMMA FormStaysWatched ==
    ASSUME FormInv, UNCHANGED <<openedVars, watchVars, locDenied, grantedHere>>
    PROVE  WatchesKnown' /\ WatchFollowsForm' /\ BadgeAlive'
  <1>1. /\ UNCHANGED <<form, formsOpened, locPerm, asking, watchAsked, watches, watchRef, orphaned>>
        /\ UNCHANGED <<locDenied, grantedHere, deaf>>
    BY DEF openedVars, watchVars
  <1> QED
    BY <1>1 DEF FormInv, FormSound, WatchesKnown, WatchFollowsForm, BadgeAlive, FormShown

\* Steps that leave the sequence, the PIN and the result alone.
LEMMA FormStaysBusy ==
    ASSUME FormInv, UNCHANGED <<pin, sequenceVars, formResult, pinSent, hurried>>
    PROVE  FlashShort' /\ SentIsPending' /\ PinSpentByTap' /\ WayOn'
  <1>1. UNCHANGED <<pin, formBusy, formStep, flash, ended, formResult, pinSent, hurried>>
    BY DEF sequenceVars
  <1>2. ResultOffers' = ResultOffers
    BY <1>1 DEF ResultOffers
  <1> QED
    BY <1>1, <1>2 DEF FormInv, FormSound, FlashShort, SentIsPending, PinSpentByTap, WayOn

LEMMA FormStep == FormInv /\ [FormNext]_formVars => FormInv'
  <1> SUFFICES ASSUME FormInv, [FormNext]_formVars PROVE FormInv'
    OBVIOUS
  <1>1. /\ FormTypeOK /\ FlashShort /\ WatchesKnown /\ SentIsPending
        /\ WatchFollowsForm /\ BadgeAlive /\ PinSpentByTap /\ WayOn
    BY DEF FormInv, FormSound
  <1>2. /\ form \in 0..MaxForms /\ formsOpened \in 0..MaxForms /\ form <= formsOpened
        /\ asking \cup watchAsked \cup watches \subseteq 1..formsOpened
        /\ pin \in 0..PinLength /\ formStep \in 0..9 /\ pinSent \in 0..2
        /\ locPerm \in {"prompt", "granted", "denied"}
        /\ orphaned \subseteq 1..MaxForms
        /\ MaxForms \in Nat /\ PinLength \in Nat
    BY <1>1, FormAssumption, StepsAre DEF FormTypeOK, WatchesKnown
  <1>3. ASSUME FormTypeOK', FlashShort', WatchesKnown', SentIsPending',
               WatchFollowsForm', BadgeAlive', PinSpentByTap', WayOn'
        PROVE  FormInv'
    BY <1>3 DEF FormInv, FormSound
  \* A form that begins, or is gone.
  <1>4. ASSUME FreshForm
        PROVE  FlashShort' /\ SentIsPending' /\ PinSpentByTap' /\ WayOn'
    BY <1>4 DEF FreshForm, FlashShort, SentIsPending, PinSpentByTap, WayOn
  <1>5. CASE OpenForm
    <2>1. /\ form = 0 /\ formsOpened < MaxForms
          /\ formsOpened' = formsOpened + 1 /\ form' = formsOpened + 1
          /\ asking' = asking \cup {formsOpened + 1}
          /\ FreshForm
          /\ UNCHANGED <<locPerm, watchAsked, watches, orphaned>>
      BY <1>5 DEF OpenForm
    <2>2. /\ form' \in 0..MaxForms /\ formsOpened' \in 0..MaxForms
          /\ asking' \subseteq 1..formsOpened' /\ watchAsked \subseteq 1..formsOpened'
          /\ watches \subseteq 1..formsOpened' /\ form' \notin watches
          /\ 1..formsOpened' \subseteq 1..MaxForms
      BY <1>2, <2>1
    <2>3. FormTypeOK'
      BY <1>1, <1>2, <2>1, <2>2, FreshIsTyped DEF FormTypeOK, FreshForm
    <2>4. WatchesKnown' /\ BadgeAlive'
      BY <1>2, <2>1, <2>2 DEF WatchesKnown, BadgeAlive
    <2>5. WatchFollowsForm'
      BY <1>1, <1>2, <2>1 DEF WatchFollowsForm
    <2> QED
      BY <1>3, <1>4, <2>1, <2>3, <2>4, <2>5
  <1>6. ASSUME Close, form # 0 PROVE FormInv'
    <2>1. /\ form' = 0
          /\ watches' = IF watchRef THEN watches \ {form} ELSE watches
          /\ FreshForm
          /\ UNCHANGED <<formsOpened, locPerm, asking, watchAsked, orphaned>>
      BY <1>6 DEF Close
    <2>2. watches' = watches \ {form}
      BY <1>1, <2>1 DEF WatchesKnown
    <2>3. FormTypeOK'
      <3>1. \A i \in DOMAIN flash' : flash'[i] \in Colours
        BY <2>1, FreshIsTyped DEF FreshForm
      <3> QED
        BY <1>1, <2>1, <2>2, <3>1, FreshIsTyped DEF FormTypeOK, FreshForm
    <2>4. WatchesKnown' /\ BadgeAlive' /\ WatchFollowsForm'
      BY <1>1, <1>2, <2>1, <2>2 DEF WatchesKnown, BadgeAlive, FormShown, WatchFollowsForm
    <2> QED
      BY <1>3, <1>4, <2>1, <2>3, <2>4
  <1>7. CASE LeaveForm \/ DoneTapped
    <2>1. CASE LeaveForm
      BY <1>6, <2>1 DEF LeaveForm
    <2>2. CASE DoneTapped /\ form = 0
      \* No result is left of a form that is gone: the same form again.
      <3>1. /\ form' = 0 /\ watches' \in {watches, watches \ {form}} /\ FreshForm
            /\ UNCHANGED <<formsOpened, locPerm, asking, watchAsked, orphaned>>
        BY <2>2 DEF DoneTapped, Close
      <3>2. watches' = watches
        BY <1>2, <2>2, <3>1
      <3>3. FormTypeOK'
        <4>1. \A i \in DOMAIN flash' : flash'[i] \in Colours
          BY <3>1, FreshIsTyped DEF FreshForm
        <4> QED
          BY <1>1, <3>1, <3>2, <4>1, FreshIsTyped DEF FormTypeOK, FreshForm
      <3>4. WatchesKnown' /\ BadgeAlive' /\ WatchFollowsForm'
        BY <1>1, <1>2, <2>2, <3>1, <3>2 DEF WatchesKnown, BadgeAlive, FormShown, WatchFollowsForm
      <3> QED
        BY <1>3, <1>4, <3>1, <3>3, <3>4
    <2>3. CASE DoneTapped /\ form # 0
      BY <1>6, <2>3 DEF DoneTapped
    <2> QED
      BY <1>7, <2>1, <2>2, <2>3
  <1>8. ASSUME NEW n \in 1..MaxForms, PermissionAnswered(n) PROVE FormInv'
    <2>1. /\ n \in asking /\ locPerm' \in {"granted", "denied"}
          /\ asking' = asking \ {n}
          /\ watchAsked' = IF n = form /\ locPerm' = "granted" THEN watchAsked \cup {n} ELSE watchAsked
          /\ locDenied' = (locDenied \/ (n = form /\ locPerm' = "denied"))
          /\ UNCHANGED <<openedVars, watches, watchRef, orphaned, seen, pin, sequenceVars, formResult,
                         pinSent, grantedHere, hurried, deaf>>
      BY <1>8 DEF PermissionAnswered, EnsureLocationPermission
    <2>2. /\ UNCHANGED <<form, formsOpened, formBusy, formStep, flash, ended>>
          /\ UNCHANGED <<pin, sequenceVars, formResult, pinSent, hurried>>
      BY <2>1 DEF openedVars, sequenceVars
    <2>3. FlashShort' /\ SentIsPending' /\ PinSpentByTap' /\ WayOn'
      BY <2>2, FormStaysBusy
    <2>4. /\ asking' \subseteq asking /\ watchAsked' \subseteq watchAsked \cup asking
          /\ locDenied' \in BOOLEAN
      BY <1>1, <2>1 DEF FormTypeOK
    <2>5. FormTypeOK'
      BY <1>1, <2>1, <2>2, <2>4 DEF FormTypeOK
    <2>6. WatchesKnown' /\ WatchFollowsForm'
      BY <1>1, <2>1, <2>2, <2>4 DEF WatchesKnown, WatchFollowsForm
    <2>7. BadgeAlive'
      <3>1. CASE n = form
        BY <2>1, <2>2, <3>1 DEF BadgeAlive, FormShown
      <3>2. CASE n # form
        BY <1>1, <2>1, <2>2, <3>2 DEF BadgeAlive, FormShown
      <3> QED
        BY <3>1, <3>2
    <2> QED
      BY <1>3, <2>3, <2>5, <2>6, <2>7
  <1>9. ASSUME NEW n \in 1..MaxForms, WatchBegins(n) PROVE FormInv'
    <2>1. /\ n \in watchAsked
          /\ watchAsked' = watchAsked \ {n}
          /\ watches' = watches \cup {n}
          /\ watchRef' = (watchRef \/ n = form)
          /\ orphaned' = IF n = form THEN orphaned ELSE orphaned \cup {n}
          /\ UNCHANGED <<openedVars, locPerm, asking, locDenied, seen, pin, sequenceVars, formResult,
                         pinSent, grantedHere, hurried, deaf>>
      BY <1>9 DEF WatchBegins
    <2>2. /\ UNCHANGED <<form, formsOpened, formBusy, formStep, flash, ended>>
          /\ UNCHANGED <<pin, sequenceVars, formResult, pinSent, hurried>>
      BY <2>1 DEF openedVars, sequenceVars
    <2>3. FlashShort' /\ SentIsPending' /\ PinSpentByTap' /\ WayOn'
      BY <2>2, FormStaysBusy
    <2>4. watchRef' \in BOOLEAN
      BY <1>1, <2>1 DEF FormTypeOK
    <2>5. FormTypeOK'
      BY <1>1, <2>1, <2>2, <2>4 DEF FormTypeOK
    <2>6. WatchesKnown'
      BY <1>1, <2>1, <2>2 DEF WatchesKnown
    <2>7. WatchFollowsForm' /\ BadgeAlive'
      BY <1>1, <2>1, <2>2 DEF WatchFollowsForm, BadgeAlive, FormShown
    <2> QED
      BY <1>3, <2>3, <2>5, <2>6, <2>7
  <1>10. CASE PositionSeen
    <2>1. /\ seen' \in {"inside", "outside"}
          /\ UNCHANGED <<openedVars, watchVars, locDenied, pin, sequenceVars, formResult, pinSent,
                         grantedHere, hurried>>
      BY <1>10 DEF PositionSeen
    <2>2. FormTypeOK'
      BY <1>1, <2>1 DEF FormTypeOK, openedVars, watchVars, sequenceVars
    <2> QED
      BY <1>3, <2>1, <2>2, FormStaysBusy, FormStaysWatched
  <1>11. CASE GrantLocation
    <2>1. /\ locPerm' \in {"granted", "denied"}
          /\ locDenied' = (locPerm' = "denied")
          /\ grantedHere' = (grantedHere \/ locPerm' = "granted")
          /\ UNCHANGED <<openedVars, asking, watchAsked, watches, watchRef, orphaned, seen, pin,
                         sequenceVars, formResult, pinSent, hurried, deaf>>
      BY <1>11 DEF GrantLocation, EnsureLocationPermission
    <2>2. /\ UNCHANGED <<form, formsOpened, formBusy, formStep, flash, ended>>
          /\ UNCHANGED <<pin, sequenceVars, formResult, pinSent, hurried>>
      BY <2>1 DEF openedVars, sequenceVars
    <2>3. FlashShort' /\ SentIsPending' /\ PinSpentByTap' /\ WayOn'
      BY <2>2, FormStaysBusy
    <2>4. locDenied' \in BOOLEAN /\ grantedHere' \in BOOLEAN
      BY <1>1, <2>1 DEF FormTypeOK
    <2>5. FormTypeOK'
      BY <1>1, <2>1, <2>2, <2>4 DEF FormTypeOK
    <2>6. WatchesKnown' /\ WatchFollowsForm'
      BY <1>1, <2>1, <2>2 DEF WatchesKnown, WatchFollowsForm
    <2>7. BadgeAlive'
      BY <2>1, <2>2 DEF BadgeAlive, FormShown
    <2> QED
      BY <1>3, <2>3, <2>5, <2>6, <2>7
  <1>12. CASE Press
    <2>1. /\ formResult = "none" /\ pin' \in {pin - 1, pin + 1} /\ pin' \in 0..PinLength
          /\ pinSent' = 0
          /\ UNCHANGED <<openedVars, watchVars, locDenied, seen, sequenceVars, formResult, grantedHere,
                         hurried>>
      BY <1>2, <1>12 DEF Press, Reachable
    <2>2. UNCHANGED <<form, formsOpened, formBusy, formStep, flash, ended>>
      BY <2>1 DEF openedVars, sequenceVars
    <2>3. FormTypeOK'
      BY <1>1, <2>1, <2>2 DEF FormTypeOK, watchVars
    <2>4. FlashShort' /\ SentIsPending' /\ PinSpentByTap'
      BY <1>1, <2>1, <2>2 DEF FlashShort, SentIsPending, PinSpentByTap
    <2>5. WayOn'
      BY <1>1, <2>1, <2>2 DEF WayOn
    <2> QED
      BY <1>3, <2>1, <2>3, <2>4, <2>5, FormStaysWatched
  <1>13. CASE StartCheckIn
    <2>1. /\ flash = <<>> /\ formResult = "none" /\ formBusy = FALSE
          /\ formBusy' = TRUE
          /\ hurried' = (hurried \/ ended # "none")
          /\ ended' = "none"
          /\ pinSent' = IF pinSent = 0 THEN 1 ELSE 2
          /\ UNCHANGED <<openedVars, watchVars, locDenied, seen, pin, formStep, flash, formResult,
                         grantedHere>>
      BY <1>1, <1>13 DEF StartCheckIn, Reachable, CanSubmit, FormTypeOK
    <2>2. UNCHANGED <<form, formsOpened>>
      BY <2>1 DEF openedVars
    <2>3. hurried' \in BOOLEAN /\ pinSent' \in 0..2
      BY <1>1, <2>1 DEF FormTypeOK
    <2>4. FormTypeOK'
      BY <1>1, <2>1, <2>2, <2>3 DEF FormTypeOK, watchVars
    <2>5. FlashShort' /\ SentIsPending' /\ WayOn'
      BY <1>1, <2>1 DEF FlashShort, SentIsPending, WayOn
    <2>6. PinSpentByTap'
      <3>1. CASE pinSent = 0
        BY <2>1, <3>1 DEF PinSpentByTap
      <3>2. CASE pinSent # 0
        BY <1>1, <2>1, <3>2 DEF PinSpentByTap, SentIsPending
      <3> QED
        BY <3>1, <3>2
    <2> QED
      BY <1>3, <2>1, <2>4, <2>5, <2>6, FormStaysWatched
  <1>14. CASE StepEmitted
    <2>1. /\ formBusy /\ flash = <<>> /\ formStep < 9 /\ formStep' = formStep + 1
          /\ UNCHANGED <<openedVars, watchVars, locDenied, seen, pin, formBusy, flash, ended, formResult,
                         pinSent, grantedHere, hurried>>
      BY <1>14, StepsAre DEF StepEmitted
    <2>2. UNCHANGED <<form, formsOpened>> /\ formStep' \in 1..9
      BY <1>2, <2>1 DEF openedVars
    <2>3. FormTypeOK'
      BY <1>1, <2>1, <2>2, StepsAre DEF FormTypeOK, watchVars
    <2>4. FlashShort' /\ SentIsPending' /\ PinSpentByTap'
      BY <1>1, <2>1 DEF FlashShort, SentIsPending, PinSpentByTap
    <2>5. CheckInSteps[formStep'] \in StepLabels
      BY <2>2, StepsAre
    <2>6. ResultOffers' = ResultOffers
      BY <2>1 DEF ResultOffers
    <2>7. WayOn'
      BY <1>1, <2>1, <2>5, <2>6 DEF WayOn
    <2> QED
      BY <1>3, <2>1, <2>3, <2>4, <2>7, FormStaysWatched
  <1>15. CASE ChallengeBegins
    <2>1. PICK c \in Colours, d \in Colours : flash' = <<c, d>>
      BY <1>15 DEF ChallengeBegins
    <2>2. /\ formBusy /\ CheckInSteps[formStep] = "liveness"
          /\ UNCHANGED <<openedVars, watchVars, locDenied, seen, pin, formBusy, formStep, ended,
                         formResult, pinSent, grantedHere, hurried>>
      BY <1>15 DEF ChallengeBegins
    <2>3. UNCHANGED <<form, formsOpened>> /\ \A i \in DOMAIN flash' : flash'[i] \in Colours
      BY <2>1, <2>2 DEF openedVars
    <2>4. FormTypeOK'
      BY <1>1, <2>2, <2>3 DEF FormTypeOK, watchVars
    <2>5. FlashShort' /\ SentIsPending' /\ PinSpentByTap'
      BY <1>1, <2>1, <2>2 DEF FlashShort, SentIsPending, PinSpentByTap
    <2>6. ResultOffers' = ResultOffers
      BY <2>2 DEF ResultOffers
    <2>7. WayOn'
      BY <1>1, <2>2, <2>6 DEF WayOn
    <2> QED
      BY <1>3, <2>2, <2>4, <2>5, <2>7, FormStaysWatched
  <1>16. CASE FrameTaken
    <2>1. /\ flash # <<>>
          /\ flash' = IF Len(flash) = 2 THEN <<flash[2]>> ELSE <<>>
          /\ formStep' = IF flash' = <<>> THEN formStep + 1 ELSE formStep
          /\ UNCHANGED <<openedVars, watchVars, locDenied, seen, pin, formBusy, ended, formResult,
                         pinSent, grantedHere, hurried>>
      BY <1>16 DEF FrameTaken
    <2>2. formBusy /\ CheckInSteps[formStep] = "liveness"
      BY <1>1, <2>1 DEF WayOn
    <2>3. flash' = <<>> \/ \E d \in Colours : flash' = <<d>>
      BY <1>1, <2>1 DEF FlashShort
    <2>4. \A i \in DOMAIN flash' : flash'[i] \in Colours
      BY <2>3
    <2>5. /\ formStep' \in 0..9
          /\ flash' # <<>> => formStep' = formStep
          /\ formStep' > 0 => CheckInSteps[formStep'] \in StepLabels
      <3>1. CASE formStep = 0
        <4>1. formStep' \in 0..1
          BY <2>1, <3>1
        <4> QED
          BY <2>1, <4>1, StepsAre
      <3>2. CASE formStep \in 1..9
        <4>1. formStep = 6
          BY <2>2, <3>2, StepsAre
        <4>2. formStep' \in 1..9
          BY <2>1, <4>1
        <4> QED
          BY <2>1, <4>2, StepsAre
      <3> QED
        BY <1>2, <3>1, <3>2
    <2>6. UNCHANGED <<form, formsOpened>>
      BY <2>1 DEF openedVars
    <2>7. FormTypeOK'
      BY <1>1, <2>1, <2>4, <2>5, <2>6, StepsAre DEF FormTypeOK, watchVars
    <2>8. FlashShort' /\ SentIsPending' /\ PinSpentByTap'
      BY <1>1, <2>1, <2>3 DEF FlashShort, SentIsPending, PinSpentByTap
    <2>9. ResultOffers' = ResultOffers
      BY <2>1 DEF ResultOffers
    <2>10. WayOn'
      BY <1>1, <2>1, <2>2, <2>5, <2>9 DEF WayOn
    <2> QED
      BY <1>3, <2>1, <2>7, <2>8, <2>10, FormStaysWatched
  <1>17. ASSUME NEW kind \in Outcomes, SequenceEnds(kind) PROVE FormInv'
    <2>1. /\ formBusy' = FALSE /\ formStep' = 0 /\ flash' = <<>> /\ ended' = kind
          /\ UNCHANGED <<openedVars, watchVars, locDenied, seen, pin, formResult, pinSent, grantedHere,
                         hurried>>
      BY <1>17 DEF SequenceEnds
    <2>2. UNCHANGED <<form, formsOpened>>
      BY <2>1 DEF openedVars
    <2>3. FormTypeOK'
      BY <1>1, <2>1, <2>2, FreshIsTyped DEF FormTypeOK, watchVars
    <2>4. FlashShort' /\ SentIsPending' /\ PinSpentByTap'
      BY <1>1, <2>1 DEF FlashShort, SentIsPending, PinSpentByTap, Outcomes
    <2>5. ResultOffers' = ResultOffers
      BY <2>1 DEF ResultOffers
    <2>6. WayOn'
      BY <1>1, <2>1, <2>5 DEF WayOn
    <2> QED
      BY <1>3, <2>1, <2>3, <2>4, <2>6, FormStaysWatched
  <1>18. CASE ResultRendered
    <2>1. /\ ended # "none" /\ formResult' = ended /\ ended' = "none"
          /\ UNCHANGED <<openedVars, watchVars, locDenied, seen, pin, formBusy, formStep, flash, pinSent,
                         grantedHere, hurried>>
      BY <1>18 DEF ResultRendered
    <2>2. UNCHANGED <<form, formsOpened>>
      BY <2>1 DEF openedVars
    <2>3. FormTypeOK'
      BY <1>1, <2>1, <2>2 DEF FormTypeOK, watchVars
    <2>4. FlashShort' /\ SentIsPending' /\ PinSpentByTap'
      BY <1>1, <2>1 DEF FlashShort, SentIsPending, PinSpentByTap
    <2>5. "done" \in ResultOffers'
      BY <2>1 DEF ResultOffers
    <2>6. WayOn'
      BY <1>1, <2>1, <2>5 DEF WayOn
    <2> QED
      BY <1>3, <2>1, <2>3, <2>4, <2>6, FormStaysWatched
  <1>19. CASE AgainTapped
    <2>1. /\ formResult' = "none" /\ pin' = 0 /\ pinSent' = 0
          /\ UNCHANGED <<openedVars, watchVars, locDenied, seen, sequenceVars, grantedHere, hurried>>
      BY <1>19 DEF AgainTapped, Reset
    <2>2. UNCHANGED <<form, formsOpened, formBusy, formStep, flash, ended>>
      BY <2>1 DEF openedVars, sequenceVars
    <2>3. FormTypeOK'
      BY <1>1, <1>2, <2>1, <2>2 DEF FormTypeOK, watchVars
    <2>4. FlashShort' /\ SentIsPending' /\ PinSpentByTap' /\ WayOn'
      BY <1>1, <2>1, <2>2 DEF FlashShort, SentIsPending, PinSpentByTap, WayOn
    <2> QED
      BY <1>3, <2>1, <2>3, <2>4, FormStaysWatched
  <1>20. CASE UNCHANGED formVars
    <2>1. /\ UNCHANGED <<form, formsOpened, locPerm, asking, watchAsked, watches, watchRef, orphaned>>
          /\ UNCHANGED <<locDenied, seen, pin, formBusy, formStep, flash, ended, formResult>>
          /\ UNCHANGED <<pinSent, grantedHere, hurried, deaf>>
      BY <1>20 DEF formVars
    <2>2. /\ UNCHANGED <<openedVars, watchVars, locDenied, grantedHere>>
          /\ UNCHANGED <<pin, sequenceVars, formResult, pinSent, hurried>>
      BY <2>1 DEF openedVars, watchVars, sequenceVars
    <2>3. FormTypeOK'
      BY <1>1, <2>1 DEF FormTypeOK
    <2> QED
      BY <1>3, <2>2, <2>3, FormStaysBusy, FormStaysWatched
  <1>21. ASSUME NEW n \in 1..MaxForms, EffectRejected(n) PROVE FormInv'
    <2>1. /\ asking' = asking \ {n} /\ watchAsked' = watchAsked \ {n}
          /\ n \in asking \cup watchAsked
          /\ deaf' = (deaf \/ n = form)
          /\ UNCHANGED <<openedVars, locPerm, watches, watchRef, orphaned, locDenied, seen, pin,
                         sequenceVars, formResult, pinSent, grantedHere, hurried>>
      BY <1>21 DEF EffectRejected
    <2>2. /\ UNCHANGED <<form, formsOpened, formBusy, formStep, flash, ended>>
          /\ UNCHANGED <<pin, sequenceVars, formResult, pinSent, hurried>>
      BY <2>1 DEF openedVars, sequenceVars
    <2>3. FlashShort' /\ SentIsPending' /\ PinSpentByTap' /\ WayOn'
      BY <2>2, FormStaysBusy
    <2>4. deaf' \in BOOLEAN
      BY <1>1, <2>1 DEF FormTypeOK
    <2>5. FormTypeOK'
      BY <1>1, <2>1, <2>2, <2>4 DEF FormTypeOK
    <2>6. WatchesKnown' /\ WatchFollowsForm'
      BY <1>1, <2>1, <2>2 DEF WatchesKnown, WatchFollowsForm
    <2>7. BadgeAlive'
      BY <1>1, <2>1, <2>2 DEF BadgeAlive, FormShown
    <2> QED
      BY <1>3, <2>3, <2>5, <2>6, <2>7
  <1> QED
    BY <1>5, <1>7, <1>8, <1>9, <1>10, <1>11, <1>12, <1>13, <1>14, <1>15, <1>16, <1>17, <1>18, <1>19,
       <1>20, <1>21 DEF FormNext

\* The form stays watched unless a call was rejected or the permission came by
\* the button, usable, and honest about a PIN it sent, whatever its openings.
THEOREM FormsAreSound == FormSpec => []FormSound
  <1>1. FormInv => FormSound
    BY DEF FormInv
  <1> QED
    BY <1>1, FormStarts, FormStep, PTL DEF FormSpec

-----------------------------------------------------------------------------
\* One turn of the loop that encodes a photo.
Turn(s, budget) == IF s.stop THEN s ELSE Encode(s, budget)

\* How narrow a picture of this size may get at most.
Floor(original) ==
    LET fit == FitDimensions(original[1], original[2])
    IN  Smaller(MinEdge, Smaller(fit[1], fit[2]))

\* A state of the loop after n turns that has not gone below the floor f.
Encoding(s, f, n) ==
    /\ s \in [w : Int, h : Int, quality : Int, passes : 0..n, small : BOOLEAN, edge : Int,
              stop : BOOLEAN]
    /\ ~s.stop => Smaller(s.w, s.h) >= f
    /\ s.small => s.edge >= f

LEMMA FitIsWhole ==
    ASSUME NEW w \in Nat, NEW h \in Nat
    PROVE  FitDimensions(w, h)[1] \in Int /\ FitDimensions(w, h)[2] \in Int
  <1>1. CASE w <= 0 \/ h <= 0
    BY <1>1 DEF FitDimensions
  <1>2. CASE ~(w <= 0 \/ h <= 0)
    <2>1. PICK d \in Nat \ {0} : d = Larger(w, h)
      BY <1>2 DEF Larger
    <2>2. \A n \in Int : Rounded(n, d) \in Int
      BY <2>1 DEF Rounded
    <2>3. w * MaxEdge \in Int /\ h * MaxEdge \in Int
      BY DEF MaxEdge
    <2> QED
      BY <1>2, <2>1, <2>2, <2>3 DEF FitDimensions
  <1> QED
    BY <1>1, <1>2

LEMMA EncodingBegins ==
    ASSUME NEW original \in Nat \X Nat
    PROVE  Encoding(Unencoded(original), Floor(original), 0)
  <1>1. PICK a \in Int, b \in Int :
            /\ a = FitDimensions(original[1], original[2])[1]
            /\ b = FitDimensions(original[1], original[2])[2]
    BY FitIsWhole
  <1>2. Unencoded(original) =
            [w |-> a, h |-> b, quality |-> 82, passes |-> 0, small |-> FALSE, edge |-> 0, stop |-> FALSE]
    BY <1>1 DEF Unencoded
  <1>3. Floor(original) = Smaller(240, Smaller(a, b))
    BY <1>1 DEF Floor, MinEdge
  <1>4. Smaller(a, b) >= Smaller(240, Smaller(a, b))
    BY DEF Smaller
  <1> QED
    BY <1>2, <1>3, <1>4 DEF Encoding

LEMMA EncodingGoesOn ==
    ASSUME NEW f \in Int, f <= MinEdge, NEW n \in Nat, NEW s, Encoding(s, f, n), NEW budget \in Int
    PROVE  Encoding(Turn(s, budget), f, n + 1)
  <1>1. /\ s = [w |-> s.w, h |-> s.h, quality |-> s.quality, passes |-> s.passes, small |-> s.small,
                edge |-> s.edge, stop |-> s.stop]
        /\ s.w \in Int /\ s.h \in Int /\ s.quality \in Int /\ s.passes \in 0..n
        /\ s.small \in BOOLEAN /\ s.edge \in Int /\ s.stop \in BOOLEAN
    BY DEF Encoding
  <1>2. CASE s.stop
    <2>1. Turn(s, budget) = s
      BY <1>2 DEF Turn
    <2>2. s.passes \in 0..(n + 1)
      BY <1>1
    <2>3. s \in [w : Int, h : Int, quality : Int, passes : 0..(n + 1), small : BOOLEAN, edge : Int,
                 stop : BOOLEAN]
      BY <1>1, <2>2
    <2> QED
      BY <2>1, <2>3 DEF Encoding
  <1>3. CASE ~s.stop
    <2>1. PICK sw \in Int, sh \in Int, q \in Int, pixels \in Int :
              /\ sw = Rounded(82 * s.w, 100) /\ sh = Rounded(82 * s.h, 100)
              /\ q = Larger(MinQuality, s.quality - QualityStep)
              /\ pixels = s.w * s.h * s.quality
      BY <1>1 DEF Rounded, Larger, MinQuality, QualityStep
    <2>2. PICK e \in Int : e = Smaller(s.w, s.h) /\ e >= f
      BY <1>1, <1>3 DEF Encoding, Smaller
    <2>3. PICK m \in Int : m = Smaller(sw, sh)
      BY DEF Smaller
    <2>4. s.passes + 1 \in 0..(n + 1)
      BY <1>1
    <2>5. CASE pixels <= budget
      <3>1. Turn(s, budget) =
              [w |-> s.w, h |-> s.h, quality |-> s.quality, passes |-> s.passes + 1, small |-> TRUE,
               edge |-> e, stop |-> TRUE]
        BY <1>1, <1>3, <2>1, <2>2, <2>5 DEF Turn, Encode
      <3> QED
        BY <1>1, <2>2, <2>4, <3>1 DEF Encoding
    <2>6. CASE ~(pixels <= budget) /\ s.quality > MinQuality
      <3>1. Turn(s, budget) =
              [w |-> s.w, h |-> s.h, quality |-> q, passes |-> s.passes + 1, small |-> FALSE,
               edge |-> e, stop |-> FALSE]
        <4>1. Turn(s, budget) =
                [[s EXCEPT !.quality = q] EXCEPT
                   !.passes = s.passes + 1, !.small = FALSE, !.edge = e, !.stop = FALSE]
          <5>1. (s.w * s.h * s.quality <= budget) = FALSE /\ (s.quality > MinQuality) = TRUE
            BY <2>1, <2>6, <1>1 DEF MinQuality
          <5>2. Turn(s, budget) = Encode(s, budget)
            BY <1>3 DEF Turn
          <5>3. [s EXCEPT !.quality = Larger(MinQuality, @ - QualityStep)] = [s EXCEPT !.quality = q]
            BY <2>1
          <5>4. Smaller(s.w, s.h) = e
            BY <2>2
          <5> QED
            BY <5>1, <5>2, <5>3, <5>4 DEF Encode
        <4> QED
          BY <1>1, <4>1
      <3> QED
        BY <1>1, <2>1, <2>2, <2>4, <3>1 DEF Encoding
    <2>7. CASE ~(pixels <= budget) /\ ~(s.quality > MinQuality) /\ m < MinEdge
      <3>1. Turn(s, budget) =
              [w |-> sw, h |-> sh, quality |-> s.quality, passes |-> s.passes + 1, small |-> FALSE,
               edge |-> e, stop |-> TRUE]
        <4>1. Turn(s, budget) =
                [[s EXCEPT !.w = sw, !.h = sh] EXCEPT
                   !.passes = s.passes + 1, !.small = FALSE, !.edge = e, !.stop = TRUE]
          <5>1. /\ (s.w * s.h * s.quality <= budget) = FALSE /\ (s.quality > MinQuality) = FALSE
                /\ (m < MinEdge) = TRUE
            BY <2>1, <2>3, <2>7, <1>1 DEF MinQuality, MinEdge
          <5>2. Turn(s, budget) = Encode(s, budget)
            BY <1>3 DEF Turn
          <5>3. LET shrunk == [s EXCEPT !.w = Rounded(82 * @, 100), !.h = Rounded(82 * @, 100)]
                IN  /\ shrunk = [s EXCEPT !.w = sw, !.h = sh]
                    /\ Smaller(shrunk.w, shrunk.h) = m
            BY <1>1, <2>1, <2>3
          <5>4. Smaller(s.w, s.h) = e
            BY <2>2
          <5> QED
            BY <5>1, <5>2, <5>3, <5>4 DEF Encode
        <4> QED
          BY <1>1, <4>1
      <3> QED
        BY <1>1, <2>1, <2>2, <2>3, <2>4, <2>7, <3>1 DEF Encoding, MinEdge
    <2>8. CASE ~(pixels <= budget) /\ ~(s.quality > MinQuality) /\ ~(m < MinEdge)
      <3>1. Turn(s, budget) =
              [w |-> sw, h |-> sh, quality |-> s.quality, passes |-> s.passes + 1, small |-> FALSE,
               edge |-> e, stop |-> FALSE]
        <4>1. Turn(s, budget) =
                [[s EXCEPT !.w = sw, !.h = sh] EXCEPT
                   !.passes = s.passes + 1, !.small = FALSE, !.edge = e, !.stop = FALSE]
          <5>1. /\ (s.w * s.h * s.quality <= budget) = FALSE /\ (s.quality > MinQuality) = FALSE
                /\ (m < MinEdge) = FALSE
            BY <2>1, <2>3, <2>8, <1>1 DEF MinQuality, MinEdge
          <5>2. Turn(s, budget) = Encode(s, budget)
            BY <1>3 DEF Turn
          <5>3. LET shrunk == [s EXCEPT !.w = Rounded(82 * @, 100), !.h = Rounded(82 * @, 100)]
                IN  /\ shrunk = [s EXCEPT !.w = sw, !.h = sh]
                    /\ Smaller(shrunk.w, shrunk.h) = m
            BY <1>1, <2>1, <2>3
          <5>4. Smaller(s.w, s.h) = e
            BY <2>2
          <5> QED
            BY <5>1, <5>2, <5>3, <5>4 DEF Encode
        <4> QED
          BY <1>1, <4>1
      <3> QED
        BY <1>1, <2>1, <2>2, <2>3, <2>4, <2>8, <3>1 DEF Encoding, MinEdge
    <2> QED
      BY <2>5, <2>6, <2>7, <2>8
  <1> QED
    BY <1>2, <1>3

\* The loop turns at most eight times.
LEMMA LoopIsTurned ==
    ASSUME NEW original, NEW budget, NEW loop,
           loop = CHOOSE f : f = [n \in 0..8 |-> IF n = 0 THEN Unencoded(original)
                                                 ELSE Turn(f[n - 1], budget)]
    PROVE  /\ loop[0] = Unencoded(original)
           /\ \A n \in 1..8 : loop[n] = Turn(loop[n - 1], budget)
  <1>1. PICK e0 : e0 = Unencoded(original)
    OBVIOUS
  <1>2. PICK e1, e2, e3, e4 :
            /\ e1 = Turn(e0, budget) /\ e2 = Turn(e1, budget)
            /\ e3 = Turn(e2, budget) /\ e4 = Turn(e3, budget)
    OBVIOUS
  <1>3. PICK e5, e6, e7, e8 :
            /\ e5 = Turn(e4, budget) /\ e6 = Turn(e5, budget)
            /\ e7 = Turn(e6, budget) /\ e8 = Turn(e7, budget)
    OBVIOUS
  <1>4. PICK g : g = [n \in 0..8 |->
                        IF n = 0 THEN e0 ELSE IF n = 1 THEN e1 ELSE IF n = 2 THEN e2
                        ELSE IF n = 3 THEN e3 ELSE IF n = 4 THEN e4 ELSE IF n = 5 THEN e5
                        ELSE IF n = 6 THEN e6 ELSE IF n = 7 THEN e7 ELSE e8]
    OBVIOUS
  <1>5. /\ g[0] = e0 /\ g[1] = e1 /\ g[2] = e2 /\ g[3] = e3 /\ g[4] = e4
        /\ g[5] = e5 /\ g[6] = e6 /\ g[7] = e7 /\ g[8] = e8
    BY <1>4
  <1>6. \A n \in 1..8 : g[n] = Turn(g[n - 1], budget)
    <2> SUFFICES ASSUME NEW n \in 1..8 PROVE g[n] = Turn(g[n - 1], budget)
      OBVIOUS
    <2>1. n = 1 \/ n = 2 \/ n = 3 \/ n = 4 \/ n = 5 \/ n = 6 \/ n = 7 \/ n = 8
      OBVIOUS
    <2> QED
      BY <1>2, <1>3, <1>5, <2>1
  <1>7. g = [n \in 0..8 |-> IF n = 0 THEN Unencoded(original) ELSE Turn(g[n - 1], budget)]
    <2>1. \A n \in 0..8 : g[n] = IF n = 0 THEN Unencoded(original) ELSE Turn(g[n - 1], budget)
      BY <1>1, <1>5, <1>6
    <2>2. g = [n \in 0..8 |-> g[n]]
      BY <1>4
    <2> QED
      BY <2>1, <2>2
  <1>8. loop = [n \in 0..8 |-> IF n = 0 THEN Unencoded(original) ELSE Turn(loop[n - 1], budget)]
    BY <1>7
  <1> QED
    BY <1>8

\* What a photo is encoded as fits, if at all, above the floor of its size.
LEMMA PhotoAboveFloor ==
    ASSUME NEW original \in Nat \X Nat, NEW budget \in Nat, NEW p,
           p = EncodedPhoto(original, budget)
    PROVE  /\ p.passes \in 0..MaxEncodings /\ p.small \in BOOLEAN
           /\ p.small => p.edge >= Floor(original)
  <1>1. PICK f \in Int : f = Floor(original) /\ f <= MinEdge
    <2>1. PICK a \in Int, b \in Int :
              /\ a = FitDimensions(original[1], original[2])[1]
              /\ b = FitDimensions(original[1], original[2])[2]
      BY FitIsWhole
    <2>2. Floor(original) = Smaller(240, Smaller(a, b))
      BY <2>1 DEF Floor, MinEdge
    <2> QED
      BY <2>2 DEF Smaller, MinEdge
  <1>2. PICK loop :
            loop = CHOOSE g : g = [n \in 0..8 |-> IF n = 0 THEN Unencoded(original)
                                                  ELSE Turn(g[n - 1], budget)]
    OBVIOUS
  <1>3. p = [small |-> loop[8].small, edge |-> loop[8].edge, passes |-> loop[8].passes]
    BY <1>2 DEF EncodedPhoto, Turn, MaxEncodings
  <1>4. loop[0] = Unencoded(original) /\ \A n \in 1..8 : loop[n] = Turn(loop[n - 1], budget)
    BY <1>2, LoopIsTurned
  <1>5. Encoding(loop[0], f, 0)
    BY <1>1, <1>4, EncodingBegins
  <1>6. ASSUME NEW n \in 0..7, Encoding(loop[n], f, n)
        PROVE  Encoding(loop[n + 1], f, n + 1)
    <2>1. loop[n + 1] = Turn(loop[n], budget)
      <3>1. n + 1 \in 1..8 /\ (n + 1) - 1 = n
        OBVIOUS
      <3> QED
        BY <1>4, <3>1
    <2> QED
      BY <1>1, <1>6, <2>1, EncodingGoesOn
  <1>7. Encoding(loop[1], f, 1) /\ Encoding(loop[2], f, 2)
    BY <1>5, <1>6
  <1>8. Encoding(loop[3], f, 3) /\ Encoding(loop[4], f, 4)
    BY <1>6, <1>7
  <1>9. Encoding(loop[5], f, 5) /\ Encoding(loop[6], f, 6)
    BY <1>6, <1>8
  <1>10. Encoding(loop[7], f, 7) /\ Encoding(loop[8], f, 8)
    BY <1>6, <1>9
  <1> QED
    BY <1>1, <1>3, <1>10 DEF Encoding, MaxEncodings

-----------------------------------------------------------------------------
\* The sequence has got past the check of the position.
LocationKnown == part \in {"capture", "compress", "gate", "submit"}

\* What is known at each part of the sequence; at its end, what is claimed.
KnownSoFar ==
    /\ part \notin {"antispoof", "done"} => spoof \in MockAnswers
    /\ LocationKnown => info = DeviceInfo /\ ~spoof.isMock
    /\ part \in {"gate", "submit"} =>
          selfie.small \in BOOLEAN /\ (selfie.small => selfie.edge >= Floor(photo[1]))
    /\ part = "submit" => selfie.small
    /\ part # "done" => sent = Unsent /\ reports = "none"

EvidenceInv == EvidenceTypeOK /\ KnownSoFar /\ EvidenceHonest

LEMMA EvidenceStarts == EvidenceInit => EvidenceInv
  <1> SUFFICES ASSUME EvidenceInit PROVE EvidenceInv
    OBVIOUS
  <1>1. EvidenceTypeOK
    BY DEF EvidenceInit, EvidenceTypeOK, Unchecked, Unread, Untaken, MaxEncodings, ReportFates
  <1>2. KnownSoFar
    BY DEF EvidenceInit, KnownSoFar, LocationKnown
  <1>3. EvidenceHonest
    BY DEF EvidenceInit, EvidenceHonest, UnknownIsSuspect, PhotoIsLegible, ReportsAreOfMocks
  <1> QED
    BY <1>1, <1>2, <1>3 DEF EvidenceInv

LEMMA MockAnswersAre ==
    ASSUME EvidenceTypeOK, NEW a \in MockAnswers
    PROVE  /\ a.isMock \in BOOLEAN
           /\ a.confidence \in {"reliable", "weak", "unavailable"}
           /\ platform # "web" /\ ~a.isMock =>
                 device.checker /\ (platform = "android" => ~device.spoofed)
  <1>1. CASE platform = "web"
    <2>1. a = [isMock |-> FALSE, confidence |-> "unavailable"]
      BY <1>1 DEF MockAnswers
    <2> QED
      BY <1>1, <2>1
  <1>2. CASE platform # "web" /\ ~device.checker
    <2>1. a = [isMock |-> TRUE, confidence |-> "unavailable"]
      BY <1>2 DEF MockAnswers
    <2> QED
      BY <1>2, <2>1
  <1>3. CASE platform # "web" /\ device.checker
    <2>1. PICK says \in CheckerSays :
              a = [isMock |-> says, confidence |-> IF platform = "android" THEN "reliable" ELSE "weak"]
      BY <1>3 DEF MockAnswers
    <2>2. device.spoofed \in BOOLEAN
      BY DEF EvidenceTypeOK
    <2>3. says \in BOOLEAN /\ (platform = "android" => says = device.spoofed)
      BY <2>1, <2>2 DEF CheckerSays
    <2> QED
      BY <1>3, <2>1, <2>3
  <1> QED
    BY <1>1, <1>2, <1>3

\* The types a step keeps, one by one.
LEMMA EvidenceStaysTyped ==
    ASSUME EvidenceTypeOK,
           platform' = platform, device' = device, photo' = photo, answersItself' = answersItself,
           part' \in {"antispoof", "device", "capture", "compress", "gate", "submit", "done"},
           spoof' = spoof \/ spoof'.confidence \in {"reliable", "weak", "unavailable"},
           info' = info \/ info'.emulator \in BOOLEAN,
           reports' = reports \/ reports' \in ReportFates,
           selfie' = selfie \/ selfie'.passes \in 0..MaxEncodings,
           \/ sent' = sent
           \/ DOMAIN sent' = {"mock", "emulator", "rooted", "frames", "bytesOk", "edge", "pinRight"},
           \/ replied' = replied
           \/ replied' \in {"mock location", "cancelled", "error", "approved", "flagged", "rejected"}
    PROVE  EvidenceTypeOK'
  <1>1. /\ (platform \in {"web", "android", "ios"})'
        /\ (device \in [spoofed : BOOLEAN, virtual : BOOLEAN, checker : BOOLEAN, reader : BOOLEAN,
                        worker : {"none", "fails", "works"}, frames : {0, 2}])'
        /\ (photo \in Originals \X Budgets)' /\ (answersItself \in BOOLEAN)'
    BY DEF EvidenceTypeOK
  <1>2. /\ (spoof.confidence \in {"reliable", "weak", "unavailable", "unchecked"})'
        /\ (info.emulator \in BOOLEAN)' /\ (reports \in ReportFates)'
        /\ (selfie.passes \in 0..MaxEncodings)'
    BY DEF EvidenceTypeOK
  <1>3. /\ (sent = Unsent \/ DOMAIN sent = {"mock", "emulator", "rooted", "frames", "bytesOk",
                                           "edge", "pinRight"})'
        /\ (replied \in {"none", "mock location", "cancelled", "error", "approved", "flagged",
                         "rejected"})'
    BY DEF EvidenceTypeOK, Unsent
  <1> QED
    BY <1>1, <1>2, <1>3 DEF EvidenceTypeOK

LEMMA EvidenceStep == EvidenceInv /\ [EvidenceNext]_evidenceVars => EvidenceInv'
  <1> SUFFICES ASSUME EvidenceInv, [EvidenceNext]_evidenceVars PROVE EvidenceInv'
    OBVIOUS
  <1>1. EvidenceTypeOK /\ KnownSoFar /\ EvidenceHonest
    BY DEF EvidenceInv
  <1>2. CASE CheckMock
    <2>1. /\ part = "antispoof" /\ part' = "device" /\ spoof' \in MockAnswers
          /\ UNCHANGED <<platform, device, photo, answersItself, info, reports, selfie, sent, replied>>
      BY <1>2 DEF CheckMock, phoneFacts
    <2>2. spoof'.confidence \in {"reliable", "weak", "unavailable"}
      BY <1>1, <2>1, MockAnswersAre
    <2>3. EvidenceTypeOK'
      BY <1>1, <2>1, <2>2, EvidenceStaysTyped
    <2>4. KnownSoFar' /\ sent' = Unsent /\ reports' = "none"
      <3>1. MockAnswers' = MockAnswers
        BY <2>1 DEF MockAnswers, CheckerSays
      <3> QED
        BY <1>1, <2>1, <3>1 DEF KnownSoFar, LocationKnown
    <2>5. EvidenceHonest'
      BY <2>4 DEF EvidenceHonest, UnknownIsSuspect, PhotoIsLegible, ReportsAreOfMocks, Unsent
    <2> QED
      BY <2>3, <2>4, <2>5 DEF EvidenceInv
  <1>3. CASE ReadDevice
    <2>1. /\ part = "device" /\ info' = DeviceInfo
          /\ UNCHANGED <<platform, device, photo, answersItself, spoof, selfie, sent>>
          /\ IF spoof.isMock THEN Report /\ Ends("mock location")
                             ELSE part' = "capture" /\ UNCHANGED <<reports, replied>>
      BY <1>3 DEF ReadDevice, phoneFacts
    <2>2. info'.emulator \in BOOLEAN
      BY <2>1 DEF DeviceInfo
    <2>3. /\ DeviceInfo' = DeviceInfo /\ MockAnswers' = MockAnswers
          /\ sent = Unsent /\ reports = "none" /\ spoof \in MockAnswers
      BY <1>1, <2>1 DEF DeviceInfo, MockAnswers, CheckerSays, KnownSoFar
    <2>4. CASE spoof.isMock
      <3>1. part' = "done" /\ replied' = "mock location" /\ reports' \in ReportFates \ {"kept"}
        BY <2>1, <2>4 DEF Report, Ends, AnomalyFate, ConfidenceType, ConfidenceTypes, ReportFates
      <3>2. EvidenceTypeOK'
        <4>1. /\ platform' = platform /\ device' = device /\ photo' = photo
              /\ answersItself' = answersItself /\ spoof' = spoof /\ selfie' = selfie
              /\ sent' = sent
          BY <2>1
        <4> QED
          BY <1>1, <2>2, <3>1, <4>1, EvidenceStaysTyped
      <3>3. KnownSoFar'
        BY <3>1 DEF KnownSoFar, LocationKnown
      <3>4. EvidenceHonest'
        BY <2>1, <2>3, <2>4, <3>1
           DEF EvidenceHonest, UnknownIsSuspect, PhotoIsLegible, ReportsAreOfMocks
      <3> QED
        BY <3>2, <3>3, <3>4 DEF EvidenceInv
    <2>5. CASE ~spoof.isMock
      <3>1. part' = "capture" /\ replied' = replied /\ reports' = "none" /\ sent' = Unsent
        BY <2>1, <2>3, <2>5
      <3>2. EvidenceTypeOK'
        <4>1. /\ platform' = platform /\ device' = device /\ photo' = photo
              /\ answersItself' = answersItself /\ spoof' = spoof /\ selfie' = selfie
              /\ sent' = sent
          BY <2>1
        <4>2. reports' = reports
          BY <2>1, <2>5
        <4> QED
          BY <1>1, <2>2, <3>1, <4>1, <4>2, EvidenceStaysTyped
      <3>3. KnownSoFar'
        BY <2>1, <2>3, <2>5, <3>1 DEF KnownSoFar, LocationKnown
      <3>4. EvidenceHonest'
        BY <3>1 DEF EvidenceHonest, UnknownIsSuspect, PhotoIsLegible, ReportsAreOfMocks
      <3> QED
        BY <3>2, <3>3, <3>4 DEF EvidenceInv
    <2> QED
      BY <2>4, <2>5
  <1>4. CASE CaptureSelfie \/ CompressSelfie \/ PassGate
    <2>1. /\ part \in {"capture", "compress", "gate"} /\ sent = Unsent /\ reports = "none"
          /\ UNCHANGED <<platform, device, photo, answersItself, spoof, info, reports, sent>>
      BY <1>1, <1>4 DEF CaptureSelfie, CompressSelfie, PassGate, KnownSoFar, phoneFacts
    <2>2. \/ part' = "done" /\ UNCHANGED selfie /\ replied' \in {"cancelled", "error"}
          \/ part = "capture" /\ part' = "compress" /\ UNCHANGED <<selfie, replied>>
          \/ part = "compress" /\ part' = "gate" /\ UNCHANGED replied
             /\ selfie' = EncodedPhoto(photo[1], photo[2])
          \/ part = "gate" /\ selfie.small /\ part' = "submit" /\ UNCHANGED <<selfie, replied>>
      BY <1>4 DEF CaptureSelfie, CompressSelfie, PassGate, WorkerAnswers, Ends
    <2>3. \A p : p = EncodedPhoto(photo[1], photo[2]) =>
              /\ p.passes \in 0..MaxEncodings /\ p.small \in BOOLEAN
              /\ p.small => p.edge >= Floor(photo[1])
      <3>1. photo[1] \in Nat \X Nat /\ photo[2] \in Nat
        BY <1>1, EvidenceAssumption DEF EvidenceTypeOK
      <3> QED
        BY <3>1, PhotoAboveFloor
    <2>4. EvidenceTypeOK'
      BY <1>1, <2>1, <2>2, <2>3, EvidenceStaysTyped
    <2>5. KnownSoFar'
      <3>1. DeviceInfo' = DeviceInfo /\ MockAnswers' = MockAnswers
        BY <2>1 DEF DeviceInfo, MockAnswers, CheckerSays
      <3>2. spoof \in MockAnswers /\ info = DeviceInfo /\ ~spoof.isMock
        BY <1>1, <2>1 DEF KnownSoFar, LocationKnown
      <3> QED
        BY <1>1, <2>1, <2>2, <2>3, <3>1, <3>2 DEF KnownSoFar, LocationKnown
    <2>6. EvidenceHonest'
      BY <2>1 DEF EvidenceHonest, UnknownIsSuspect, PhotoIsLegible, ReportsAreOfMocks
    <2> QED
      BY <2>4, <2>5, <2>6 DEF EvidenceInv
  <1>5. CASE SubmitEvidence
    <2>1. PICK pinRight \in BOOLEAN : sent' = Payload(pinRight)
      BY <1>5 DEF SubmitEvidence
    <2>2. /\ part = "submit" /\ part' = "done"
          /\ replied' \in {"approved", "flagged", "rejected", "error"}
          /\ UNCHANGED <<platform, device, photo, answersItself, spoof, info, reports, selfie>>
      BY <1>5 DEF SubmitEvidence, Ends, MockSubmitCheckin, BackendReplies, phoneFacts
    <2>3. /\ spoof \in MockAnswers /\ info = DeviceInfo /\ reports = "none"
          /\ selfie.small \in BOOLEAN /\ selfie.small /\ selfie.edge >= Floor(photo[1])
      BY <1>1, <2>2 DEF KnownSoFar, LocationKnown
    <2>4. /\ sent'.mock = spoof.isMock /\ sent'.emulator = info.emulator
          /\ sent'.bytesOk = selfie.small /\ sent'.edge = selfie.edge
          /\ DOMAIN sent' = {"mock", "emulator", "rooted", "frames", "bytesOk", "edge", "pinRight"}
      BY <2>1 DEF Payload
    <2>5. EvidenceTypeOK'
      BY <1>1, <2>2, <2>4, EvidenceStaysTyped
    <2>6. KnownSoFar'
      BY <2>2 DEF KnownSoFar, LocationKnown
    <2>7. UnknownIsSuspect'
      <3>1. platform # "web" /\ ~spoof.isMock =>
                device.checker /\ (platform = "android" => ~device.spoofed)
        BY <1>1, <2>3, MockAnswersAre
      <3>2. platform # "web" /\ ~info.emulator => device.reader /\ ~device.virtual
        BY <2>3 DEF DeviceInfo
      <3> QED
        BY <2>2, <2>4, <3>1, <3>2 DEF UnknownIsSuspect
    <2>8. PhotoIsLegible'
      BY <2>2, <2>3, <2>4 DEF PhotoIsLegible, Floor
    <2>9. ReportsAreOfMocks'
      <3>1. reports' = "none"
        BY <2>2, <2>3
      <3> QED
        BY <3>1 DEF ReportsAreOfMocks
    <2> QED
      BY <2>5, <2>6, <2>7, <2>8, <2>9 DEF EvidenceInv, EvidenceHonest
  <1>6. CASE UNCHANGED evidenceVars
    <2>1. UNCHANGED <<platform, device, photo, answersItself, part, spoof, info, reports, selfie, sent,
                      replied>>
      BY <1>6 DEF evidenceVars
    <2>2. DeviceInfo' = DeviceInfo /\ MockAnswers' = MockAnswers
      BY <2>1 DEF DeviceInfo, MockAnswers, CheckerSays
    <2>3. EvidenceTypeOK'
      BY <1>1, <2>1, EvidenceStaysTyped DEF EvidenceTypeOK
    <2>4. KnownSoFar'
      BY <1>1, <2>1, <2>2 DEF KnownSoFar, LocationKnown
    <2>5. EvidenceHonest'
      BY <1>1, <2>1 DEF EvidenceHonest, UnknownIsSuspect, PhotoIsLegible, ReportsAreOfMocks
    <2> QED
      BY <2>3, <2>4, <2>5 DEF EvidenceInv
  <1> QED
    BY <1>2, <1>3, <1>4, <1>5, <1>6 DEF EvidenceNext

\* What the phone tells of itself is known or suspect, and its photo legible.
THEOREM EvidenceIsHonest == EvidenceSpec => []EvidenceHonest
  <1>1. EvidenceInv => EvidenceHonest
    BY DEF EvidenceInv
  <1> QED
    BY <1>1, EvidenceStarts, EvidenceStep, PTL DEF EvidenceSpec

-----------------------------------------------------------------------------
AppStates ==
    [signedIn : BOOLEAN, employee : Staff \cup {Nobody}, office : BOOLEAN, shift : BOOLEAN,
     checkedInAt : MarkRecords \cup {NoRecord}, history : Seq(MarkRecords)]

LoginStates == {<<>>} \cup ({"login", "me", "parked", "again"} \X Staff)

HomeTyped ==
    /\ mocked \in BOOLEAN /\ assigned \in [Staff -> Assignments]
    /\ ledger \in [Staff -> Seq(MarkRecords)] /\ recordsMade \in 0..MaxRecords
    /\ app \in AppStates /\ Len(app.history) <= HistoryMax
    /\ route \in {"/", "/check-in", "/profile", "crashed"}
    /\ entering \in [LoginSlots -> LoginStates]
    /\ tokenOf \in Staff \cup {Nobody} /\ tracked \in Staff \cup {Nobody}
    /\ inRefresh \subseteq Staff \cup {Nobody}
    /\ effectDue \in BOOLEAN /\ signingOut \in 0..MaxSignOuts
    /\ restored \in BOOLEAN /\ overlapped \in BOOLEAN

\* Whose records these are, and that none was made after the last.
RecordsOf(u, s) == \A i \in DOMAIN s : s[i][1] = u /\ s[i][2] <= recordsMade

\* The backend has everyone's records apart and in order, and the app none of
\* its own making.
LedgersOwn ==
    /\ \A u \in Staff : NewestFirst(ledger[u]) /\ RecordsOf(u, ledger[u])
    /\ \A i \in DOMAIN app.history : app.history[i][2] <= recordsMade

\* Nobody signed in, nothing left of whoever was.
SignedOutBlank == route # "crashed" /\ ~app.signedIn => app = InitialApp

\* Unless logins overlap, there is one at a time, and it finds nobody signed in.
LoginAlone ==
    \A s \in LoginSlots :
        ~overlapped /\ entering[s] # <<>> =>
            /\ \A t \in LoginSlots : entering[t] # <<>> => t = s
            /\ route # "crashed" => ~app.signedIn

\* What the session stands for is listed, and the list in order.
ListHeld ==
    /\ NewestFirst(app.history)
    /\ ~overlapped /\ app.checkedInAt # NoRecord => app.checkedInAt \in Range(app.history)

\* Tokens that are whose the screen is, and whose profile is on its way.
ScreenOwn ==
    route # "crashed" /\ app.signedIn =>
        /\ tokenOf \in {app.employee, Nobody}
        /\ \A i \in DOMAIN app.history : app.history[i][1] = app.employee

ProfilesOwn ==
    \A s \in LoginSlots :
        entering[s] # <<>> /\ entering[s][1] # "login" => tokenOf \in {entering[s][2], Nobody}

TokensOwn == ~Crossed => ScreenOwn /\ ProfilesOwn

\* Telemetry follows the screen, and ends with the app.
TrackingHeld ==
    /\ tracked # Nobody /\ ~effectDue => tracked = app.employee /\ app.signedIn
    /\ route = "crashed" => tracked = Nobody /\ ~effectDue

HomeHeld == SignedOutBlank /\ LoginAlone /\ ListHeld /\ TokensOwn /\ TrackingHeld

HomeInv == HomeTyped /\ LedgersOwn /\ HomeHeld

-----------------------------------------------------------------------------
LEMMA InitialAppIs ==
    /\ InitialApp \in AppStates /\ ~InitialApp.signedIn /\ InitialApp.employee = Nobody
    /\ ~InitialApp.office /\ InitialApp.checkedInAt = NoRecord /\ InitialApp.history = <<>>
    /\ Len(InitialApp.history) = 0
  <1>1. <<>> \in Seq(MarkRecords) /\ Len(<<>>) = 0
    BY EmptySeq
  <1> QED
    BY <1>1 DEF InitialApp, AppStates

LEMMA HomeTypes == HomeTyped => HomeTypeOK
  <1> SUFFICES ASSUME HomeTyped PROVE HomeTypeOK
    OBVIOUS
  <1>1. \A s \in Seq(MarkRecords) : Range(s) \subseteq MarkRecords
    <2> SUFFICES ASSUME NEW s \in Seq(MarkRecords) PROVE Range(s) \subseteq MarkRecords
      OBVIOUS
    <2>1. s \in [1..Len(s) -> MarkRecords]
      BY LenProperties
    <2> QED
      BY <2>1 DEF Range
  <1>2. \A u \in Staff : Range(ledger[u]) \subseteq MarkRecords
    BY <1>1 DEF HomeTyped
  <1>3. /\ DOMAIN app = DOMAIN InitialApp /\ app.employee \in Staff \cup {Nobody}
        /\ app.checkedInAt \in MarkRecords \cup {NoRecord} /\ Range(app.history) \subseteq MarkRecords
    BY <1>1 DEF HomeTyped, AppStates, InitialApp
  <1> QED
    BY <1>2, <1>3 DEF HomeTyped, HomeTypeOK, LoginStates

\* The first records of a list are as they are in it.
LEMMA FirstAre ==
    ASSUME NEW n \in Nat, NEW s \in Seq(MarkRecords), NEW f, f = FirstOf(n, s)
    PROVE  /\ f \in Seq(MarkRecords) /\ Len(f) <= n /\ Len(f) <= Len(s)
           /\ DOMAIN f = 1..Len(f) /\ DOMAIN s = 1..Len(s) /\ Len(s) \in Nat /\ Len(f) \in Nat
           /\ n > 0 /\ Len(s) > 0 => Len(f) > 0
           /\ \A i \in 1..Len(f) : i \in 1..Len(s) /\ f[i] = s[i]
  <1>1. Len(s) \in Nat /\ s \in [1..Len(s) -> MarkRecords] /\ DOMAIN s = 1..Len(s)
    BY LenProperties
  <1>2. PICK m \in Nat : m = (IF n < Len(s) THEN n ELSE Len(s)) /\ m <= n /\ m <= Len(s)
                         /\ (n > 0 /\ Len(s) > 0 => m > 0)
    <2>1. PICK l \in Nat : l = Len(s)
      BY <1>1
    <2>2. CASE n < l
      BY <2>1, <2>2
    <2>3. CASE ~(n < l)
      BY <2>1, <2>3
    <2> QED
      BY <2>2, <2>3
  <1>3. f = SubSeq(s, 1, m)
    BY <1>2 DEF FirstOf
  <1>4. \A i \in 1..m : s[i] \in MarkRecords
    BY <1>1, <1>2
  <1>5. /\ SubSeq(s, 1, m) \in Seq(MarkRecords)
        /\ Len(SubSeq(s, 1, m)) = IF 1 <= m THEN m - 1 + 1 ELSE 0
        /\ \A i \in 1..(m - 1 + 1) : SubSeq(s, 1, m)[i] = s[1 + i - 1]
    BY <1>4, SubSeqProperties
  <1>6. Len(f) = m /\ f \in Seq(MarkRecords)
    BY <1>2, <1>3, <1>5
  <1>7. \A i \in 1..m : i \in 1..Len(s) /\ f[i] = s[i]
    <2> SUFFICES ASSUME NEW i \in 1..m PROVE i \in 1..Len(s) /\ f[i] = s[i]
      OBVIOUS
    <2>1. i \in 1..(m - 1 + 1) /\ 1 + i - 1 = i
      BY <1>2
    <2>2. f[i] = s[1 + i - 1]
      BY <1>3, <1>5, <2>1
    <2>3. i \in 1..Len(s)
      <3>1. PICK l \in Nat : l = Len(s)
        BY <1>1
      <3>2. m <= l
        BY <1>2, <3>1
      <3>3. i \in 1..l
        BY <3>2
      <3> QED
        BY <3>1, <3>3
    <2> QED
      BY <2>1, <2>2, <2>3
  <1>8. DOMAIN f = 1..Len(f)
    BY <1>6, LenProperties
  <1> QED
    BY <1>1, <1>2, <1>6, <1>7, <1>8

\* A record that is put first.
LEMMA PutFirst ==
    ASSUME NEW r \in MarkRecords, NEW s \in Seq(MarkRecords), NEW t, t = <<r>> \o s
    PROVE  /\ t \in Seq(MarkRecords) /\ Len(t) = Len(s) + 1 /\ Len(s) \in Nat
           /\ DOMAIN t = 1..Len(t) /\ DOMAIN s = 1..Len(s)
           /\ t[1] = r
           /\ \A i \in 1..Len(t) : i # 1 => i - 1 \in 1..Len(s) /\ t[i] = s[i - 1]
  <1>1. <<r>> \in Seq(MarkRecords) /\ Len(<<r>>) = 1 /\ <<r>>[1] = r
    OBVIOUS
  <1>2. /\ t \in Seq(MarkRecords) /\ Len(t) = 1 + Len(s)
        /\ \A i \in 1..(1 + Len(s)) : t[i] = IF i <= 1 THEN <<r>>[i] ELSE s[i - 1]
    BY <1>1, ConcatProperties
  <1>3. Len(s) \in Nat /\ DOMAIN s = 1..Len(s) /\ DOMAIN t = 1..Len(t)
    BY <1>2, LenProperties
  <1> QED
    BY <1>1, <1>2, <1>3

\* Its order, if it is later than all of them.
LEMMA PutFirstOrdered ==
    ASSUME recordsMade \in Nat, NEW u \in Staff, recordsMade + 1 <= MaxRecords,
           NEW s \in Seq(MarkRecords), NEW t, t = <<<<u, recordsMade + 1>>>> \o s,
           NewestFirst(s), \A i \in DOMAIN s : s[i][2] <= recordsMade
    PROVE  /\ t \in Seq(MarkRecords) /\ NewestFirst(t)
           /\ \A i \in DOMAIN t : t[i][2] <= recordsMade + 1
  <1>1. PICK r \in MarkRecords : r = <<u, recordsMade + 1>> /\ r[2] = recordsMade + 1
    <2>1. recordsMade + 1 \in 0..MaxRecords
      BY HomeAssumption
    <2>2. <<u, recordsMade + 1>> \in MarkRecords
      BY <2>1 DEF MarkRecords
    <2> QED
      BY <2>2
  <1>2. /\ t \in Seq(MarkRecords) /\ Len(t) = Len(s) + 1 /\ Len(s) \in Nat
        /\ DOMAIN t = 1..Len(t) /\ DOMAIN s = 1..Len(s)
        /\ t[1] = r
        /\ \A i \in 1..Len(t) : i # 1 => i - 1 \in 1..Len(s) /\ t[i] = s[i - 1]
    BY <1>1, PutFirst
  <1>3. \A i \in 1..Len(s) : s[i][2] \in Nat
    <2>1. \A i \in 1..Len(s) : s[i] \in MarkRecords
      BY ElementOfSeq
    <2> QED
      BY <2>1 DEF MarkRecords
  <1>4. \A i \in DOMAIN t : t[i][2] <= recordsMade + 1
    <2> SUFFICES ASSUME NEW i \in 1..Len(t) PROVE t[i][2] <= recordsMade + 1
      BY <1>2
    <2>1. CASE i = 1
      BY <1>1, <1>2, <2>1
    <2>2. CASE i # 1
      <3>1. PICK j \in 1..Len(s) : j = i - 1 /\ t[i] = s[j]
        BY <1>2, <2>2
      <3>2. s[j][2] <= recordsMade /\ s[j][2] \in Nat
        BY <1>2, <1>3
      <3> QED
        BY <3>1, <3>2
    <2> QED
      BY <2>1, <2>2
  <1>5. NewestFirst(t)
    <2> SUFFICES ASSUME NEW i \in 1..Len(t), NEW j \in 1..Len(t), i < j PROVE t[i][2] > t[j][2]
      BY <1>2 DEF NewestFirst
    <2>1. PICK k \in 1..Len(s) : k = j - 1 /\ t[j] = s[k] /\ s[k][2] <= recordsMade /\ s[k][2] \in Nat
      <3>1. j # 1 /\ j \in 1..Len(t)
        OBVIOUS
      <3>2. j - 1 \in 1..Len(s) /\ t[j] = s[j - 1]
        BY <1>2, <3>1
      <3>3. PICK k \in 1..Len(s) : k = j - 1
        BY <3>2
      <3>4. s[k][2] <= recordsMade /\ s[k][2] \in Nat
        BY <1>2, <1>3
      <3> QED
        BY <3>2, <3>3, <3>4
    <2>2. CASE i = 1
      BY <1>1, <1>2, <2>1, <2>2
    <2>3. CASE i # 1
      <3>1. PICK h \in 1..Len(s) : h = i - 1 /\ t[i] = s[h] /\ h < k
        BY <1>2, <2>1, <2>3
      <3>2. s[h][2] > s[k][2]
        BY <1>2, <3>1 DEF NewestFirst
      <3> QED
        BY <2>1, <3>1, <3>2
    <2> QED
      BY <2>2, <2>3
  <1> QED
    BY <1>2, <1>4, <1>5

LEMMA FirstOrdered ==
    ASSUME NEW n \in Nat, NEW s \in Seq(MarkRecords), NewestFirst(s), NEW f, f = FirstOf(n, s)
    PROVE  NewestFirst(f)
  <1>1. DOMAIN f = 1..Len(f) /\ DOMAIN s = 1..Len(s) /\ \A i \in 1..Len(f) : i \in 1..Len(s) /\ f[i] = s[i]
    BY FirstAre
  <1> SUFFICES ASSUME NEW i \in 1..Len(f), NEW j \in 1..Len(f), i < j PROVE f[i][2] > f[j][2]
    BY <1>1 DEF NewestFirst
  <1>2. s[i][2] > s[j][2]
    BY <1>1 DEF NewestFirst
  <1> QED
    BY <1>1, <1>2

LEMMA FirstNonempty ==
    ASSUME NEW n \in Nat \ {0}, NEW s \in Seq(MarkRecords), NEW i \in DOMAIN s
    PROVE  FirstOf(n, s) # <<>>
  <1>1. DOMAIN s = 1..Len(s) /\ Len(s) \in Nat
    BY LenProperties
  <1>2. PICK f : f = FirstOf(n, s)
    OBVIOUS
  <1>3. Len(f) > 0
    BY <1>1, <1>2, FirstAre
  <1> QED
    BY <1>2, <1>3, EmptySeq

\* What the home page shows of a session: a row at least.
LEMMA RowsShown ==
    HomeTyped /\ (app.checkedInAt # NoRecord => app.checkedInAt \in Range(app.history))
        => (HomePage.button = "check out" => HomePage.rows # <<>>)
  <1> SUFFICES ASSUME HomeTyped, app.checkedInAt # NoRecord => app.checkedInAt \in Range(app.history)
               PROVE  HomePage.button = "check out" => HomePage.rows # <<>>
    OBVIOUS
  <1>1. CASE app.office /\ app.checkedInAt # NoRecord
    <2>1. PICK i \in DOMAIN app.history : app.history[i] = app.checkedInAt
      BY <1>1 DEF Range
    <2>2. FirstOf(HomeRowsMax, app.history) # <<>>
      BY <2>1, FirstNonempty, HomeAssumption DEF HomeTyped, AppStates
    <2> QED
      BY <1>1, <2>2 DEF HomePage
  <1>2. CASE ~(app.office /\ app.checkedInAt # NoRecord)
    BY <1>2 DEF HomePage
  <1> QED
    BY <1>1, <1>2

\* Steps that leave the records alone, and what the app lists of them.
LEMMA RecordsStay ==
    ASSUME LedgersOwn, ledger' = ledger, recordsMade' = recordsMade,
           \/ app'.history = app.history
           \/ DOMAIN app'.history = {}
    PROVE  LedgersOwn'
  BY DEF LedgersOwn, RecordsOf

\* What the invariant says is what the pages show.
LEMMA HomeShows == HomeInv => HomeTypeOK /\ HomeSound
  <1> SUFFICES ASSUME HomeInv PROVE HomeTypeOK /\ HomeSound
    OBVIOUS
  <1>1. HomeTypeOK
    BY HomeTypes DEF HomeInv
  <1>2. OwnDataShown
    BY DEF HomeInv, HomeHeld, SignedOutBlank, TokensOwn, ScreenOwn, OwnDataShown
  <1>3. SessionListed
    BY RowsShown DEF HomeInv, HomeHeld, ListHeld, SessionListed
  <1>4. TrackedIsShown
    BY DEF HomeInv, HomeHeld, TrackingHeld, TokensOwn, ScreenOwn, TrackedIsShown
  <1> QED
    BY <1>1, <1>2, <1>3, <1>4 DEF HomeSound

LEMMA HomeStarts == HomeInit => HomeInv
  <1> SUFFICES ASSUME HomeInit PROVE HomeInv
    OBVIOUS
  <1>1. 0 \in 0..MaxRecords /\ 0 \in 0..MaxSignOuts /\ 0 <= HistoryMax /\ <<>> \in Seq(MarkRecords)
    BY HomeAssumption, EmptySeq
  <1>2. HomeTyped
    BY <1>1, InitialAppIs DEF HomeInit, HomeTyped, LoginStates
  <1>3. /\ DOMAIN app.history = {} /\ \A u \in Staff : DOMAIN ledger[u] = {}
        /\ app = InitialApp /\ ~app.signedIn /\ app.checkedInAt = NoRecord
        /\ \A s \in LoginSlots : entering[s] = <<>>
        /\ tracked = Nobody /\ route = "/"
    BY InitialAppIs DEF HomeInit
  <1>4. LedgersOwn
    BY <1>3 DEF LedgersOwn, NewestFirst, RecordsOf
  <1>5. HomeHeld
    BY <1>3 DEF HomeHeld, SignedOutBlank, LoginAlone, ListHeld, NewestFirst, TokensOwn, ScreenOwn,
                ProfilesOwn, TrackingHeld
  <1> QED
    BY <1>2, <1>4, <1>5 DEF HomeInv

\* Steps that leave the screen as it is.
LEMMA ScreenStays ==
    ASSUME HomeInv, UNCHANGED <<ledger, recordsMade, app, route, tracked, effectDue>>
    PROVE  /\ LedgersOwn' /\ SignedOutBlank' /\ TrackingHeld'
           /\ overlapped' = overlapped => ListHeld'
           /\ tokenOf' = tokenOf \/ tokenOf' = Nobody => (ScreenOwn => ScreenOwn')
  <1>1. LedgersOwn'
    BY RecordsStay DEF HomeInv
  <1>2. SignedOutBlank' /\ TrackingHeld'
    BY DEF HomeInv, HomeHeld, SignedOutBlank, TrackingHeld
  <1>3. overlapped' = overlapped => ListHeld'
    BY DEF HomeInv, HomeHeld, ListHeld
  <1>4. tokenOf' = tokenOf \/ tokenOf' = Nobody => (ScreenOwn => ScreenOwn')
    BY DEF ScreenOwn
  <1> QED
    BY <1>1, <1>2, <1>3, <1>4

LEMMA HomeStays ==
    ASSUME HomeInv, UNCHANGED homeVars
    PROVE  HomeInv'
  <1>1. /\ UNCHANGED <<mocked, assigned, ledger, recordsMade, app, route>>
        /\ UNCHANGED <<entering, tokenOf, inRefresh, restored, tracked, effectDue>>
        /\ UNCHANGED <<signingOut, overlapped>>
    BY DEF homeVars
  <1>2. HomeTyped'
    BY <1>1 DEF HomeInv, HomeTyped
  <1>3. LedgersOwn' /\ SignedOutBlank' /\ TrackingHeld' /\ ListHeld' /\ (ScreenOwn => ScreenOwn')
    BY <1>1, ScreenStays
  <1>4. LoginAlone' /\ TokensOwn'
    BY <1>1, <1>3 DEF HomeInv, HomeHeld, LoginAlone, TokensOwn, ProfilesOwn, Crossed
  <1> QED
    BY <1>2, <1>3, <1>4 DEF HomeInv, HomeHeld

\* What HR assigns is not noticed.
LEMMA HomeAssign ==
    ASSUME HomeInv, NEW u \in Staff, NEW places \in Assignments, Assign(u, places)
    PROVE  HomeInv'
  <1>1. /\ assigned' = [assigned EXCEPT ![u] = places]
        /\ UNCHANGED <<mocked, ledger, recordsMade, app, route>>
        /\ UNCHANGED <<entering, tokenOf, inRefresh, restored, tracked, effectDue>>
        /\ UNCHANGED <<signingOut, overlapped>>
    BY DEF Assign, tokenFacts
  <1>2. HomeTyped'
    <2>1. assigned' \in [Staff -> Assignments]
      BY <1>1 DEF HomeInv, HomeTyped
    <2> QED
      BY <1>1, <2>1 DEF HomeInv, HomeTyped
  <1>3. LedgersOwn' /\ SignedOutBlank' /\ TrackingHeld' /\ ListHeld' /\ (ScreenOwn => ScreenOwn')
    BY <1>1, ScreenStays
  <1>4. LoginAlone' /\ TokensOwn'
    BY <1>1, <1>3 DEF HomeInv, HomeHeld, LoginAlone, TokensOwn, ProfilesOwn, Crossed
  <1> QED
    BY <1>2, <1>3, <1>4 DEF HomeInv, HomeHeld

\* A login that is submitted finds nobody's data.
LEMMA HomeSubmits ==
    ASSUME HomeInv, NEW s \in LoginSlots, NEW u \in Staff, SubmitHomeLogin(s, u)
    PROVE  HomeInv'
  <1>1. /\ ~app.signedIn /\ route # "crashed" /\ entering[s] = <<>>
        /\ entering' = [entering EXCEPT ![s] = <<"login", u>>]
        /\ overlapped' = (LoginsUnderWay # {})
        /\ UNCHANGED <<mocked, assigned, ledger, recordsMade, app, route>>
        /\ UNCHANGED <<tokenOf, inRefresh, restored, tracked, effectDue, signingOut>>
    BY DEF SubmitHomeLogin, backendVars, tokenFacts
  <1>2. entering \in [LoginSlots -> LoginStates] /\ <<"login", u>> \in LoginStates
    BY DEF HomeInv, HomeTyped, LoginStates
  <1>3. overlapped' \in BOOLEAN
    <2>1. PICK o \in BOOLEAN : o = (LoginsUnderWay # {})
      <3>1. CASE LoginsUnderWay = {}
        <4>1. (LoginsUnderWay # {}) = FALSE
          BY <3>1
        <4> QED
          BY <4>1
      <3>2. CASE LoginsUnderWay # {}
        <4>1. (LoginsUnderWay # {}) = TRUE
          BY <3>2
        <4> QED
          BY <4>1
      <3> QED
        BY <3>1, <3>2
    <2> QED
      BY <1>1, <2>1
  <1>4. HomeTyped'
    <2>1. entering' \in [LoginSlots -> LoginStates]
      BY <1>1, <1>2
    <2> QED
      BY <1>1, <1>3, <2>1 DEF HomeInv, HomeTyped
  <1>5. LedgersOwn' /\ SignedOutBlank' /\ TrackingHeld'
    BY <1>1, ScreenStays
  <1>6. app = InitialApp /\ app.checkedInAt = NoRecord
    BY <1>1, InitialAppIs DEF HomeInv, HomeHeld, SignedOutBlank
  <1>7. ListHeld'
    BY <1>1, <1>6 DEF HomeInv, HomeHeld, ListHeld
  <1>8. ASSUME ~overlapped' PROVE \A t \in LoginSlots : entering'[t] # <<>> => t = s
    <2>1. \A t \in LoginSlots : entering[t] = <<>>
      BY <1>1, <1>8 DEF LoginsUnderWay
    <2> QED
      BY <1>1, <1>2, <2>1
  <1>9. LoginAlone'
    BY <1>1, <1>8 DEF LoginAlone
  <1>10. TokensOwn'
    <2>1. entering'[s][1] = "login"
      BY <1>1, <1>2
    <2>2. ~overlapped' => ProfilesOwn'
      BY <1>8, <2>1 DEF ProfilesOwn
    <2>3. ScreenOwn'
      BY <1>1 DEF ScreenOwn
    <2> QED
      BY <2>2, <2>3 DEF TokensOwn, Crossed
  <1> QED
    BY <1>4, <1>5, <1>7, <1>9, <1>10 DEF HomeInv, HomeHeld

\* A login that is answered has its own token.
LEMMA HomeAnswers ==
    ASSUME HomeInv, NEW s \in LoginSlots, HomeLoginAnswered(s)
    PROVE  HomeInv'
  <1>1. entering \in [LoginSlots -> LoginStates]
    BY DEF HomeInv, HomeTyped
  <1>2. PICK u \in Staff : entering[s] = <<"login", u>> /\ u = entering[s][2]
    BY <1>1 DEF HomeLoginAnswered, LoginStates
  <1>3. /\ entering[s] # <<>> /\ entering' = [entering EXCEPT ![s] = <<"me", u>>]
        /\ tokenOf' = u /\ restored' = FALSE
        /\ UNCHANGED <<mocked, assigned, ledger, recordsMade, app, route>>
        /\ UNCHANGED <<inRefresh, tracked, effectDue, signingOut, overlapped>>
    BY <1>2 DEF HomeLoginAnswered, backendVars
  <1>4. HomeTyped'
    <2>1. <<"me", u>> \in LoginStates
      BY DEF LoginStates
    <2>2. entering' \in [LoginSlots -> LoginStates]
      BY <1>1, <1>3, <2>1
    <2> QED
      BY <1>3, <2>2 DEF HomeInv, HomeTyped
  <1>5. LedgersOwn' /\ SignedOutBlank' /\ TrackingHeld' /\ ListHeld'
    BY <1>3, ScreenStays
  <1>6. \A t \in LoginSlots : entering'[t] # <<>> => entering[t] # <<>>
    BY <1>1, <1>3
  <1>7. LoginAlone'
    BY <1>3, <1>6 DEF HomeInv, HomeHeld, LoginAlone
  <1>8. ASSUME ~overlapped' PROVE ScreenOwn' /\ ProfilesOwn'
    <2>1. /\ \A t \in LoginSlots : entering[t] # <<>> => t = s
          /\ route # "crashed" => ~app.signedIn
      BY <1>3, <1>8 DEF HomeInv, HomeHeld, LoginAlone
    <2>2. entering'[s][2] = u
      BY <1>1, <1>3
    <2> QED
      BY <1>3, <1>6, <2>1, <2>2 DEF ScreenOwn, ProfilesOwn
  <1> QED
    BY <1>4, <1>5, <1>7, <1>8 DEF HomeInv, HomeHeld, TokensOwn, Crossed

\* Requests that fail, or wait for the refresh, and the refresh itself.
LEMMA HomeWaits ==
    ASSUME HomeInv,
           \/ RenewBegins
           \/ \E s \in LoginSlots : LoginFailed(s) \/ ProfileParked(s)
    PROVE  HomeInv'
  <1>1. entering \in [LoginSlots -> LoginStates] /\ tokenOf \in Staff \cup {Nobody}
    BY DEF HomeInv, HomeTyped
  <1>2. /\ UNCHANGED <<mocked, assigned, ledger, recordsMade, app, route>>
        /\ UNCHANGED <<tokenOf, restored, tracked, effectDue, signingOut, overlapped>>
        /\ inRefresh' \in {inRefresh, {tokenOf}}
    BY DEF RenewBegins, LoginFailed, ProfileParked, backendVars, tokenFacts
  <1> DEFINE Waited ==
        /\ entering' \in [LoginSlots -> LoginStates]
        /\ \A t \in LoginSlots :
              entering'[t] # <<>> =>
                  /\ entering[t] # <<>> /\ entering'[t][2] = entering[t][2]
                  /\ entering'[t][1] # "login" => entering[t][1] # "login"
  <1>3. Waited
    <2>1. CASE RenewBegins
      BY <1>1, <2>1 DEF RenewBegins
    <2>2. ASSUME NEW s \in LoginSlots, LoginFailed(s) PROVE Waited
      <3>1. entering' = [entering EXCEPT ![s] = <<>>] /\ <<>> \in LoginStates
        BY <2>2 DEF LoginFailed, LoginStates
      <3> QED
        BY <1>1, <3>1
    <2>3. ASSUME NEW s \in LoginSlots, ProfileParked(s) PROVE Waited
      <3>1. PICK u \in Staff : entering[s] = <<"me", u>> /\ u = entering[s][2]
        BY <1>1, <2>3 DEF ProfileParked, LoginStates
      <3>2. entering' = [entering EXCEPT ![s] = <<"parked", u>>] /\ <<"parked", u>> \in LoginStates
        BY <2>3, <3>1 DEF ProfileParked, LoginStates
      <3>3. entering[s] # <<>> /\ entering[s][1] # "login"
        BY <2>3 DEF ProfileParked
      <3>4. entering'[s] = <<"parked", u>> /\ \A t \in LoginSlots : t # s => entering'[t] = entering[t]
        BY <1>1, <3>2
      <3> QED
        BY <1>1, <3>1, <3>2, <3>3, <3>4
    <2> QED
      BY <2>1, <2>2, <2>3
  <1>4. HomeTyped'
    BY <1>1, <1>2, <1>3 DEF HomeInv, HomeTyped
  <1>5. LedgersOwn' /\ SignedOutBlank' /\ TrackingHeld' /\ ListHeld' /\ (ScreenOwn => ScreenOwn')
    BY <1>2, ScreenStays
  <1>6. LoginAlone'
    BY <1>2, <1>3 DEF HomeInv, HomeHeld, LoginAlone
  <1>7. ProfilesOwn => ProfilesOwn'
    BY <1>2, <1>3 DEF ProfilesOwn
  <1> QED
    BY <1>2, <1>4, <1>5, <1>6, <1>7 DEF HomeInv, HomeHeld, TokensOwn, Crossed

\* The refresh that succeeds crosses nothing if its token is the one held.
LEMMA HomeRenews ==
    ASSUME HomeInv, NEW u \in Staff, RefreshEnds(u)
    PROVE  HomeInv'
  <1>1. entering \in [LoginSlots -> LoginStates]
    BY DEF HomeInv, HomeTyped
  <1>2. /\ inRefresh' = {} /\ tokenOf' = u /\ restored' = (restored \/ tokenOf # u)
        /\ entering' = [s \in LoginSlots |-> IF s \in ParkedLogins THEN <<"again", u>> ELSE entering[s]]
        /\ UNCHANGED <<mocked, assigned, ledger, recordsMade, app, route>>
        /\ UNCHANGED <<tracked, effectDue, signingOut, overlapped>>
    BY DEF RefreshEnds, backendVars
  <1>3. HomeTyped'
    <2>1. <<"again", u>> \in LoginStates
      BY DEF LoginStates
    <2>2. entering' \in [LoginSlots -> LoginStates]
      BY <1>1, <1>2, <2>1
    <2>3. restored' \in BOOLEAN
      <3>1. (restored \/ tokenOf # u) \in BOOLEAN
        BY Zenon
      <3> QED
        BY <1>2, <3>1
    <2> QED
      BY <1>2, <2>2, <2>3 DEF HomeInv, HomeTyped
  <1>4. LedgersOwn' /\ SignedOutBlank' /\ TrackingHeld' /\ ListHeld'
    BY <1>2, ScreenStays
  <1>5. \A t \in LoginSlots :
            \/ entering'[t] = entering[t]
            \/ entering[t] # <<>> /\ entering'[t] = <<"again", u>>
    BY <1>2 DEF ParkedLogins
  <1>6. LoginAlone'
    BY <1>2, <1>5 DEF HomeInv, HomeHeld, LoginAlone
  <1>7. ASSUME ~overlapped', ~restored' PROVE ScreenOwn' /\ ProfilesOwn'
    <2>1. tokenOf' = tokenOf /\ ScreenOwn /\ ProfilesOwn
      BY <1>2, <1>7 DEF HomeInv, HomeHeld, TokensOwn, Crossed
    <2>2. ScreenOwn'
      BY <1>2, <2>1, ScreenStays
    <2>3. \A t \in LoginSlots : entering'[t] = <<"again", u>> => entering'[t][2] = u
      OBVIOUS
    <2> QED
      BY <1>2, <1>5, <2>1, <2>2, <2>3 DEF ProfilesOwn
  <1> QED
    BY <1>3, <1>4, <1>6, <1>7 DEF HomeInv, HomeHeld, TokensOwn, Crossed

\* What the profile brings: records of its employee, in order.
LEMMA ProfileIsOwn ==
    ASSUME HomeInv, NEW u \in Staff, NEW logs,
           logs = FirstOf(FetchMax, ledger[u]) \/ logs = <<<<u, 0>>>>
    PROVE  /\ logs \in Seq(MarkRecords) /\ Len(logs) <= HistoryMax
           /\ NewestFirst(logs) /\ RecordsOf(u, logs)
  <1>1. CASE logs = FirstOf(FetchMax, ledger[u])
    <2>1. /\ FetchMax \in Nat /\ FetchMax <= HistoryMax /\ HistoryMax \in Nat
          /\ ledger[u] \in Seq(MarkRecords) /\ NewestFirst(ledger[u]) /\ RecordsOf(u, ledger[u])
      BY HomeAssumption DEF HomeInv, HomeTyped, LedgersOwn
    <2>2. /\ logs \in Seq(MarkRecords) /\ Len(logs) <= FetchMax /\ Len(logs) \in Nat
          /\ DOMAIN logs = 1..Len(logs) /\ DOMAIN ledger[u] = 1..Len(ledger[u])
          /\ \A i \in 1..Len(logs) : i \in 1..Len(ledger[u]) /\ logs[i] = ledger[u][i]
      <3>1. PICK own : own = ledger[u] /\ own \in Seq(MarkRecords)
        BY <2>1
      <3>2. logs = FirstOf(FetchMax, own)
        BY <1>1, <3>1
      <3>3. /\ logs \in Seq(MarkRecords) /\ Len(logs) <= FetchMax /\ Len(logs) <= Len(own)
            /\ DOMAIN logs = 1..Len(logs) /\ DOMAIN own = 1..Len(own)
            /\ Len(own) \in Nat /\ Len(logs) \in Nat
            /\ FetchMax > 0 /\ Len(own) > 0 => Len(logs) > 0
            /\ \A i \in 1..Len(logs) : i \in 1..Len(own) /\ logs[i] = own[i]
        BY <2>1, <3>1, <3>2, FirstAre
      <3> QED
        BY <3>1, <3>3
    <2>3. NewestFirst(logs)
      BY <1>1, <2>1, FirstOrdered
    <2>4. RecordsOf(u, logs)
      BY <2>1, <2>2 DEF RecordsOf
    <2>5. Len(logs) <= HistoryMax
      BY <2>1, <2>2
    <2> QED
      BY <2>2, <2>3, <2>4, <2>5
  <1>2. CASE logs = <<<<u, 0>>>>
    <2>1. PICK r \in MarkRecords : r = <<u, 0>> /\ r[1] = u /\ r[2] = 0
      <3>1. 0 \in 0..MaxRecords
        BY HomeAssumption
      <3>2. <<u, 0>> \in MarkRecords
        BY <3>1 DEF MarkRecords
      <3> QED
        BY <3>2
    <2>2. logs = <<r>> /\ logs \in Seq(MarkRecords) /\ Len(logs) = 1 /\ DOMAIN logs = {1} /\ logs[1] = r
      BY <1>2, <2>1
    <2>3. 1 <= HistoryMax /\ 0 <= recordsMade
      BY HomeAssumption DEF HomeInv, HomeTyped
    <2>4. NewestFirst(logs)
      BY <2>2 DEF NewestFirst
    <2>5. RecordsOf(u, logs)
      BY <2>1, <2>2, <2>3 DEF RecordsOf
    <2> QED
      BY <2>2, <2>3, <2>4, <2>5
  <1> QED
    BY <1>1, <1>2


LEMMA HomeProfile ==
    ASSUME HomeInv, NEW s \in LoginSlots, ProfileArrives(s)
    PROVE  HomeInv'
  <1>1. HomeTyped /\ LedgersOwn /\ HomeHeld
    BY DEF HomeInv
  <1>2. entering \in [LoginSlots -> LoginStates]
    BY <1>1 DEF HomeTyped
  <1>3. PICK u \in Staff : u = entering[s][2]
    BY <1>2 DEF ProfileArrives, LoginStates
  <1>4. PICK profile : profile = (IF mocked THEN MockProfile(u) ELSE MobileProfile(u))
    OBVIOUS
  <1>5. /\ entering[s] # <<>> /\ entering[s][1] # "login" /\ route # "crashed"
        /\ entering' = [entering EXCEPT ![s] = <<>>]
        /\ ProfileLoaded(profile)
        /\ route' = RouteShown(route, app')
        /\ tracked' = (IF route' = "crashed" THEN Nobody ELSE tracked)
        /\ effectDue' = (route' # "crashed")
        /\ UNCHANGED <<mocked, assigned, ledger, recordsMade>>
        /\ UNCHANGED <<tokenOf, inRefresh, restored, signingOut, overlapped>>
    BY <1>3, <1>4 DEF ProfileArrives, HomeCrashes, backendVars, tokenFacts
  <1>6. effectDue' \in BOOLEAN
    <2>1. (route' # "crashed") \in BOOLEAN
      BY Zenon
    <2> QED
      BY <1>5, <2>1
  <1>7. PICK logs : logs = profile.logs
    OBVIOUS
  <1>8. /\ profile.employee = u
        /\ logs = FirstOf(FetchMax, ledger[u]) \/ logs = <<<<u, 0>>>>
        /\ (profile.office /\ profile.fence) \in BOOLEAN /\ profile.shift \in BOOLEAN
    <2>1. CASE mocked
      BY <1>4, <1>7, <2>1 DEF MockProfile
    <2>2. CASE ~mocked
      <3>1. PICK o \in BOOLEAN, f \in BOOLEAN, h \in BOOLEAN :
                /\ o = ("office" \in assigned[u]) /\ f = ({"office", "fence"} \subseteq assigned[u])
                /\ h = ("shift" \in assigned[u])
        <4>1. ASSUME NEW x, NEW y PROVE (x \in y) \in BOOLEAN
          <5>1. CASE x \in y
            <6>1. (x \in y) = TRUE
              BY <5>1
            <6> QED
              BY <6>1
          <5>2. CASE x \notin y
            <6>1. (x \in y) = FALSE
              BY <5>2
            <6> QED
              BY <6>1
          <5> QED
            BY <5>1, <5>2
        <4>2. \A x, y : (x \subseteq y) \in BOOLEAN
          BY Zenon
        <4> QED
          BY <4>1, <4>2, Zenon
      <3>2. profile = [employee |-> u, office |-> o, fence |-> f, shift |-> h,
                       logs |-> FirstOf(FetchMax, ledger[u])]
        BY <1>4, <2>2, <3>1 DEF MobileProfile
      <3> QED
        BY <1>7, <3>1, <3>2
    <2> QED
      BY <2>1, <2>2
  <1>9. /\ logs \in Seq(MarkRecords) /\ Len(logs) <= HistoryMax
        /\ NewestFirst(logs) /\ RecordsOf(u, logs)
    BY <1>8, ProfileIsOwn
  <1>10. app' = [signedIn |-> TRUE, employee |-> u, office |-> profile.office /\ profile.fence,
                 shift |-> profile.shift, checkedInAt |-> app.checkedInAt, history |-> logs]
    BY <1>5, <1>7, <1>8 DEF ProfileLoaded, MapProfileToState
  <1>11. app' \in AppStates
    BY <1>1, <1>8, <1>9, <1>10 DEF HomeTyped, AppStates
  <1>12. HomeTyped'
    <2>1. entering' \in [LoginSlots -> LoginStates]
      BY <1>2, <1>5 DEF LoginStates
    <2>2. route' \in {"/", "/check-in", "/profile", "crashed"} /\ tracked' \in Staff \cup {Nobody}
      BY <1>1, <1>5 DEF HomeTyped, RouteShown
    <2>3. Len(app'.history) <= HistoryMax
      BY <1>9, <1>10
    <2> QED
      BY <1>1, <1>5, <1>6, <1>11, <2>1, <2>2, <2>3 DEF HomeTyped
  <1>13. /\ app'.signedIn /\ app'.employee = u /\ app'.checkedInAt = app.checkedInAt
         /\ app'.history = logs
    BY <1>10
  <1>14. LedgersOwn'
    BY <1>1, <1>5, <1>9, <1>13 DEF LedgersOwn, RecordsOf
  <1>15. SignedOutBlank'
    BY <1>13 DEF SignedOutBlank
  <1>16. \A t \in LoginSlots : entering'[t] # <<>> => t # s /\ entering'[t] = entering[t]
    BY <1>2, <1>5
  <1>17. ASSUME ~overlapped PROVE (\A t \in LoginSlots : entering'[t] = <<>>) /\ ~app.signedIn
    <2>1. \A t \in LoginSlots : entering[t] # <<>> => t = s
      BY <1>1, <1>5, <1>17 DEF HomeHeld, LoginAlone
    <2> QED
      BY <1>1, <1>5, <1>16, <1>17, <2>1 DEF HomeHeld, LoginAlone
  <1>18. LoginAlone'
    BY <1>5, <1>17 DEF LoginAlone
  <1>19. ListHeld'
    <2>1. ASSUME ~overlapped PROVE app'.checkedInAt = NoRecord
      BY <1>1, <1>5, <1>13, <1>17, <2>1, InitialAppIs DEF HomeHeld, SignedOutBlank
    <2> QED
      BY <1>5, <1>9, <1>13, <2>1 DEF ListHeld
  <1>20. TokensOwn'
    <2>1. ASSUME ~Crossed PROVE ScreenOwn' /\ ProfilesOwn'
      <3>1. tokenOf \in {u, Nobody} /\ ProfilesOwn
        BY <1>1, <1>3, <1>5, <2>1 DEF HomeHeld, TokensOwn, ProfilesOwn
      <3>2. ScreenOwn'
        BY <1>5, <1>9, <1>13, <3>1 DEF ScreenOwn, RecordsOf
      <3>3. ProfilesOwn'
        BY <1>5, <1>16, <3>1 DEF ProfilesOwn
      <3> QED
        BY <3>2, <3>3
    <2> QED
      BY <1>5, <2>1 DEF TokensOwn, Crossed
  <1>21. TrackingHeld'
    BY <1>5 DEF TrackingHeld
  <1> QED
    BY <1>12, <1>14, <1>15, <1>18, <1>19, <1>20, <1>21 DEF HomeInv, HomeHeld

\* The pages and their effects.
LEMMA HomePages ==
    ASSUME HomeInv,
           \/ EffectsRun \/ HomeSignOut
           \/ \E to \in {"/", "/check-in", "/profile"} : Go(to)
    PROVE  HomeInv'
  <1>1. HomeTyped /\ LedgersOwn /\ HomeHeld
    BY DEF HomeInv
  <1>2. /\ UNCHANGED <<mocked, assigned, ledger, recordsMade, app>>
        /\ UNCHANGED <<entering, tokenOf, inRefresh, restored, overlapped>>
    BY DEF EffectsRun, HomeSignOut, Go, backendVars, tokenFacts
  <1>3. route # "crashed"
    BY <1>1 DEF EffectsRun, HomeSignOut, Go, HomeHeld, TrackingHeld
  <1>4. signingOut' \in 0..MaxSignOuts
    <2>1. signingOut \in 0..MaxSignOuts /\ MaxSignOuts \in Nat
      BY <1>1, HomeAssumption DEF HomeTyped
    <2>2. \/ signingOut' = signingOut
          \/ signingOut < MaxSignOuts /\ signingOut' = signingOut + 1
      BY DEF EffectsRun, HomeSignOut, Go
    <2> QED
      BY <2>1, <2>2
  <1>5. route' \in {"/", "/check-in", "/profile", "crashed"} /\ tracked' \in Staff \cup {Nobody}
    BY <1>1 DEF EffectsRun, HomeSignOut, Go, RouteShown, HomeCrashes, HomeTyped, AppStates
  <1>6. effectDue' \in BOOLEAN
    <2>1. (effectDue /\ route' # "crashed") \in BOOLEAN
      BY Zenon
    <2> QED
      BY <1>1, <2>1 DEF EffectsRun, HomeSignOut, Go, HomeTyped
  <1>7. HomeTyped'
    BY <1>1, <1>2, <1>4, <1>5, <1>6 DEF HomeTyped
  <1>8. LedgersOwn' /\ SignedOutBlank' /\ ListHeld' /\ LoginAlone'
    <2>1. LedgersOwn'
      BY <1>1, <1>2, RecordsStay
    <2>2. SignedOutBlank' /\ ListHeld' /\ LoginAlone'
      BY <1>1, <1>2, <1>3 DEF HomeHeld, SignedOutBlank, ListHeld, LoginAlone
    <2> QED
      BY <2>1, <2>2
  <1>9. TokensOwn'
    BY <1>1, <1>2, <1>3 DEF HomeHeld, TokensOwn, ScreenOwn, ProfilesOwn, Crossed
  <1>10. TrackingHeld'
    <2>1. CASE EffectsRun
      BY <1>1, <1>2, <1>3, <2>1 DEF EffectsRun, TrackingHeld
    <2>2. CASE HomeSignOut
      BY <1>1, <1>2, <1>3, <2>2 DEF HomeSignOut, TrackingHeld
    <2>3. ASSUME NEW to \in {"/", "/check-in", "/profile"}, Go(to) PROVE TrackingHeld'
      BY <1>1, <1>2, <1>3, <2>3 DEF Go, HomeCrashes, HomeHeld, TrackingHeld
    <2> QED
      BY <2>1, <2>2, <2>3
  <1> QED
    BY <1>7, <1>8, <1>9, <1>10 DEF HomeInv, HomeHeld

\* The ends of a session: whoever is signed in by then is signed out.
LEMMA HomeEnds ==
    ASSUME HomeInv, HomeSignedOut \/ SessionExpired
    PROVE  HomeInv'
  <1>1. HomeTyped /\ LedgersOwn /\ HomeHeld
    BY DEF HomeInv
  <1>2. entering \in [LoginSlots -> LoginStates] /\ <<>> \in LoginStates
    BY <1>1 DEF HomeTyped, LoginStates
  <1>3. /\ tokenOf' = Nobody /\ restored' = FALSE
        /\ UNCHANGED <<mocked, assigned, ledger, recordsMade, route, tracked, overlapped>>
        /\ route = "crashed" => UNCHANGED <<app, effectDue>>
        /\ route # "crashed" => app' = InitialApp /\ effectDue' = TRUE
        /\ inRefresh' \in {inRefresh, {}}
    BY DEF HomeSignedOut, SessionExpired, Logout, Rendered, backendVars
  <1>4. signingOut' \in 0..MaxSignOuts
    <2>1. signingOut \in 0..MaxSignOuts /\ MaxSignOuts \in Nat
      BY <1>1, HomeAssumption DEF HomeTyped
    <2> QED
      BY <2>1 DEF HomeSignedOut, SessionExpired, Logout, Rendered
  <1>5. /\ entering' \in [LoginSlots -> LoginStates]
        /\ \A t \in LoginSlots : entering'[t] # <<>> => entering'[t] = entering[t]
    <2>1. CASE HomeSignedOut
      BY <1>2, <2>1 DEF HomeSignedOut
    <2>2. CASE SessionExpired
      <3>1. entering' = [t \in LoginSlots |-> IF t \in ParkedLogins THEN <<>> ELSE entering[t]]
        BY <2>2 DEF SessionExpired
      <3> QED
        BY <1>2, <3>1
    <2> QED
      BY <2>1, <2>2
  <1>6. /\ app' \in AppStates /\ Len(app'.history) <= HistoryMax
        /\ effectDue' \in BOOLEAN
        /\ app'.history = app.history \/ DOMAIN app'.history = {}
    <2>1. CASE route = "crashed"
      BY <1>1, <1>3, <2>1 DEF HomeTyped
    <2>2. CASE route # "crashed"
      BY <1>3, <2>2, InitialAppIs, HomeAssumption
    <2> QED
      BY <2>1, <2>2
  <1>7. HomeTyped'
    BY <1>1, <1>3, <1>4, <1>5, <1>6 DEF HomeTyped
  <1>8. LedgersOwn'
    BY <1>1, <1>3, <1>6, RecordsStay
  <1>9. SignedOutBlank' /\ TrackingHeld'
    BY <1>1, <1>3 DEF HomeHeld, SignedOutBlank, TrackingHeld
  <1>10. ListHeld'
    <2>1. CASE route = "crashed"
      BY <1>1, <1>3, <2>1 DEF HomeHeld, ListHeld
    <2>2. CASE route # "crashed"
      BY <1>3, <2>2, InitialAppIs DEF ListHeld, NewestFirst
    <2> QED
      BY <2>1, <2>2
  <1>11. LoginAlone'
    BY <1>1, <1>3, <1>5, InitialAppIs DEF HomeHeld, LoginAlone
  <1>12. TokensOwn'
    <2>1. ProfilesOwn'
      BY <1>3 DEF ProfilesOwn
    <2>2. ScreenOwn'
      BY <1>3, InitialAppIs DEF ScreenOwn
    <2> QED
      BY <2>1, <2>2 DEF TokensOwn
  <1> QED
    BY <1>7, <1>8, <1>9, <1>10, <1>11, <1>12 DEF HomeInv, HomeHeld

LEMMA HomeReopens ==
    ASSUME HomeInv, Reopen
    PROVE  HomeInv'
  <1>1. /\ app' = InitialApp /\ route' = "/" /\ entering' = [s \in LoginSlots |-> <<>>]
        /\ tokenOf' = Nobody /\ inRefresh' = {} /\ tracked' = Nobody /\ effectDue' = FALSE
        /\ signingOut' = 0 /\ restored' = FALSE /\ overlapped' = FALSE
        /\ UNCHANGED <<mocked, assigned, ledger, recordsMade>>
    BY DEF Reopen, backendVars
  <1>2. HomeTyped'
    <2>1. app' \in AppStates /\ Len(app'.history) <= HistoryMax /\ 0 \in 0..MaxSignOuts
      BY <1>1, InitialAppIs, HomeAssumption
    <2> QED
      BY <1>1, <2>1 DEF HomeInv, HomeTyped, LoginStates
  <1>3. LedgersOwn'
    BY <1>1, InitialAppIs, RecordsStay DEF HomeInv
  <1>4. ~app'.signedIn /\ app'.checkedInAt = NoRecord /\ DOMAIN app'.history = {}
    BY <1>1, InitialAppIs
  <1>5. HomeHeld'
    BY <1>1, <1>4 DEF HomeHeld, SignedOutBlank, LoginAlone, ListHeld, NewestFirst, TokensOwn, ScreenOwn,
                     ProfilesOwn, TrackingHeld
  <1> QED
    BY <1>2, <1>3, <1>5 DEF HomeInv

LEMMA HomeChecksOut ==
    ASSUME HomeInv, CheckOut
    PROVE  HomeInv'
  <1>1. HomeTyped /\ LedgersOwn /\ HomeHeld
    BY DEF HomeInv
  <1>2. /\ app.signedIn /\ route = "/" /\ app' = [app EXCEPT !.checkedInAt = NoRecord]
        /\ UNCHANGED <<mocked, assigned, ledger, recordsMade, route>>
        /\ UNCHANGED <<entering, tokenOf, inRefresh, restored, tracked, effectDue>>
        /\ UNCHANGED <<signingOut, overlapped>>
    BY DEF CheckOut, backendVars, tokenFacts
  <1>3. /\ app' \in AppStates /\ app'.history = app.history /\ app'.checkedInAt = NoRecord
        /\ app'.signedIn = app.signedIn /\ app'.employee = app.employee
    BY <1>1, <1>2 DEF HomeTyped, AppStates
  <1>4. HomeTyped'
    BY <1>1, <1>2, <1>3 DEF HomeTyped
  <1>5. LedgersOwn'
    BY <1>1, <1>2, <1>3, RecordsStay
  <1>6. SignedOutBlank' /\ LoginAlone' /\ ListHeld' /\ TrackingHeld'
    BY <1>1, <1>2, <1>3 DEF HomeHeld, SignedOutBlank, LoginAlone, ListHeld, TrackingHeld
  <1>7. TokensOwn'
    BY <1>1, <1>2, <1>3 DEF HomeHeld, TokensOwn, ScreenOwn, ProfilesOwn, Crossed
  <1> QED
    BY <1>4, <1>5, <1>6, <1>7 DEF HomeInv, HomeHeld

\* A record that is made is later than every other, and its employee's.
LEMMA HomeRecords ==
    ASSUME HomeInv, CheckInRecorded
    PROVE  HomeInv'
  <1>1. HomeTyped /\ LedgersOwn /\ HomeHeld
    BY DEF HomeInv
  <1>2. PICK record : record = <<tokenOf, recordsMade + 1>>
    OBVIOUS
  <1>3. /\ route = "/check-in" /\ app.signedIn /\ tokenOf # Nobody /\ recordsMade < MaxRecords
        /\ recordsMade' = recordsMade + 1
        /\ ledger' = IF mocked THEN ledger ELSE [ledger EXCEPT ![tokenOf] = <<record>> \o @]
        /\ CheckInSuccess(record) \/ UNCHANGED app
        /\ UNCHANGED <<mocked, assigned, route, entering, tokenOf, inRefresh, restored>>
        /\ UNCHANGED <<tracked, effectDue, signingOut, overlapped>>
    BY <1>2 DEF CheckInRecorded, tokenFacts
  <1>4. /\ recordsMade \in Nat /\ tokenOf \in Staff /\ recordsMade + 1 <= MaxRecords
        /\ recordsMade' \in 0..MaxRecords /\ HistoryMax \in Nat /\ HistoryMax > 0
    BY <1>1, <1>3, HomeAssumption DEF HomeTyped
  <1>5. record \in MarkRecords /\ record[1] = tokenOf
    <2>1. recordsMade + 1 \in 0..MaxRecords
      BY <1>3, <1>4
    <2> QED
      BY <1>2, <1>4, <2>1 DEF MarkRecords
  <1>6. \A u \in Staff : ledger[u] \in Seq(MarkRecords)
    BY <1>1 DEF HomeTyped
  <1>7. \A u \in Staff : NewestFirst(ledger[u]) /\ RecordsOf(u, ledger[u])
    BY <1>1 DEF LedgersOwn
  <1>8. PICK put : put = <<record>> \o ledger[tokenOf]
    OBVIOUS
  <1>9. /\ put \in Seq(MarkRecords) /\ NewestFirst(put)
        /\ \A i \in DOMAIN put : put[i][2] <= recordsMade + 1
    <2>1. \A i \in DOMAIN ledger[tokenOf] : ledger[tokenOf][i][2] <= recordsMade
      BY <1>4, <1>7 DEF RecordsOf
    <2> QED
      BY <1>2, <1>4, <1>6, <1>7, <1>8, <2>1, PutFirstOrdered
  <1>10. \A i \in DOMAIN put : put[i][1] = tokenOf
    <2>1. /\ DOMAIN put = 1..Len(put) /\ DOMAIN ledger[tokenOf] = 1..Len(ledger[tokenOf])
          /\ put[1] = record
          /\ \A i \in 1..Len(put) :
                i # 1 => i - 1 \in 1..Len(ledger[tokenOf]) /\ put[i] = ledger[tokenOf][i - 1]
      BY <1>4, <1>5, <1>6, <1>8, PutFirst
    <2>2. \A j \in DOMAIN ledger[tokenOf] : ledger[tokenOf][j][1] = tokenOf
      BY <1>4, <1>7 DEF RecordsOf
    <2> QED
      BY <1>5, <2>1, <2>2
  \* The backend's part.
  <1>11. ledger' \in [Staff -> Seq(MarkRecords)]
    BY <1>1, <1>3, <1>4, <1>8, <1>9 DEF HomeTyped
  <1>12. \A n : n \in Int /\ n <= recordsMade => n <= recordsMade + 1
    BY <1>4
  <1>13. \A q \in Seq(MarkRecords) : \A i \in DOMAIN q : q[i][2] \in Int
    <2> SUFFICES ASSUME NEW q \in Seq(MarkRecords), NEW i \in DOMAIN q PROVE q[i][2] \in Int
      OBVIOUS
    <2>1. q[i] \in MarkRecords
      BY LenProperties, ElementOfSeq
    <2> QED
      BY <2>1 DEF MarkRecords
  <1>14. \A u \in Staff : NewestFirst(ledger'[u])
                          /\ \A i \in DOMAIN ledger'[u] : ledger'[u][i][1] = u
                                                         /\ ledger'[u][i][2] <= recordsMade + 1
    <2> SUFFICES ASSUME NEW u \in Staff
                 PROVE  /\ NewestFirst(ledger'[u])
                        /\ \A i \in DOMAIN ledger'[u] : ledger'[u][i][1] = u
                                                       /\ ledger'[u][i][2] <= recordsMade + 1
      OBVIOUS
    <2>1. \/ ledger'[u] = ledger[u]
          \/ u = tokenOf /\ ledger'[u] = put
      BY <1>1, <1>3, <1>8 DEF HomeTyped
    <2>2. CASE ledger'[u] = ledger[u]
      BY <1>6, <1>7, <1>12, <1>13, <2>2 DEF RecordsOf
    <2>3. CASE u = tokenOf /\ ledger'[u] = put
      BY <1>9, <1>10, <2>3
    <2> QED
      BY <2>1, <2>2, <2>3
  \* The app's.
  <1>15. CASE UNCHANGED app
    <2>1. HomeTyped'
      BY <1>1, <1>3, <1>4, <1>11, <1>15 DEF HomeTyped
    <2>2. LedgersOwn'
      <3>1. app.history \in Seq(MarkRecords)
        BY <1>1 DEF HomeTyped, AppStates
      <3>2. \A i \in DOMAIN app.history : app.history[i][2] <= recordsMade + 1
        BY <1>1, <1>12, <1>13, <3>1 DEF LedgersOwn
      <3> QED
        BY <1>3, <1>14, <1>15, <3>2 DEF LedgersOwn, RecordsOf
    <2>3. SignedOutBlank' /\ LoginAlone' /\ ListHeld' /\ TrackingHeld'
      BY <1>1, <1>3, <1>15 DEF HomeHeld, SignedOutBlank, LoginAlone, ListHeld, TrackingHeld
    <2>4. TokensOwn'
      BY <1>1, <1>3, <1>15 DEF HomeHeld, TokensOwn, ScreenOwn, ProfilesOwn, Crossed
    <2> QED
      BY <2>1, <2>2, <2>3, <2>4 DEF HomeInv, HomeHeld
  <1>16. CASE CheckInSuccess(record)
    <2>1. PICK listed, history :
              /\ listed = <<record>> \o app.history
              /\ history = FirstOf(HistoryMax, listed)
      OBVIOUS
    <2>2. app' = [app EXCEPT !.checkedInAt = record, !.history = history]
      BY <1>16, <2>1 DEF CheckInSuccess
    <2>3. app.history \in Seq(MarkRecords) /\ \A i \in DOMAIN app.history : app.history[i][2] <= recordsMade
      BY <1>1 DEF HomeTyped, AppStates, LedgersOwn
    <2>4. /\ listed \in Seq(MarkRecords) /\ Len(listed) = Len(app.history) + 1
          /\ Len(app.history) \in Nat /\ DOMAIN listed = 1..Len(listed)
          /\ DOMAIN app.history = 1..Len(app.history) /\ listed[1] = record
          /\ \A i \in 1..Len(listed) :
                i # 1 => i - 1 \in 1..Len(app.history) /\ listed[i] = app.history[i - 1]
      BY <1>5, <2>1, <2>3, PutFirst
    <2>5. /\ history \in Seq(MarkRecords) /\ Len(history) <= HistoryMax /\ Len(history) \in Nat
          /\ DOMAIN history = 1..Len(history) /\ Len(history) > 0
          /\ \A i \in 1..Len(history) : i \in 1..Len(listed) /\ history[i] = listed[i]
      <3>1. Len(listed) > 0
        BY <2>4
      <3> QED
        <4>1. /\ history \in Seq(MarkRecords) /\ Len(history) <= HistoryMax
              /\ Len(history) <= Len(listed)
              /\ DOMAIN history = 1..Len(history) /\ DOMAIN listed = 1..Len(listed)
              /\ Len(listed) \in Nat /\ Len(history) \in Nat
              /\ HistoryMax > 0 /\ Len(listed) > 0 => Len(history) > 0
              /\ \A i \in 1..Len(history) : i \in 1..Len(listed) /\ history[i] = listed[i]
          <5>1. /\ HistoryMax \in Nat /\ listed \in Seq(MarkRecords)
                /\ history = FirstOf(HistoryMax, listed)
            BY <1>4, <2>1, <2>4
          <5> QED
            BY <5>1, FirstAre
        <4> QED
          BY <1>4, <3>1, <4>1
    <2>6. 1 \in DOMAIN history /\ history[1] = record
      BY <2>4, <2>5
    <2>7. /\ app' \in AppStates /\ app'.history = history /\ app'.checkedInAt = record
          /\ app'.signedIn = app.signedIn /\ app'.employee = app.employee
      BY <1>1, <1>5, <2>2, <2>5 DEF HomeTyped, AppStates
    <2>8. HomeTyped'
      BY <1>1, <1>3, <1>4, <1>11, <1>16, <2>5, <2>7 DEF HomeTyped
    <2>9. LedgersOwn'
      <3>1. \A i \in DOMAIN history : history[i][2] <= recordsMade + 1
        <4> SUFFICES ASSUME NEW i \in 1..Len(history) PROVE history[i][2] <= recordsMade + 1
          BY <2>5
        <4>1. i \in 1..Len(listed) /\ history[i] = listed[i]
          BY <2>5
        <4>2. CASE i = 1
          BY <1>2, <1>4, <2>6, <4>2
        <4>3. CASE i # 1
          <5>1. PICK j \in DOMAIN app.history : history[i] = app.history[j]
            BY <2>4, <4>1, <4>3
          <5> QED
            BY <1>12, <1>13, <2>3, <5>1
        <4> QED
          BY <4>2, <4>3
      <3> QED
        BY <1>3, <1>14, <2>7, <3>1 DEF LedgersOwn, RecordsOf
    <2>10. SignedOutBlank' /\ LoginAlone' /\ TrackingHeld'
      BY <1>1, <1>3, <2>7 DEF HomeHeld, SignedOutBlank, LoginAlone, TrackingHeld
    <2>11. ListHeld'
      <3>1. NewestFirst(app.history)
        BY <1>1 DEF HomeHeld, ListHeld
      <3>2. listed = <<<<tokenOf, recordsMade + 1>>>> \o app.history
        BY <1>2, <2>1
      <3>3. NewestFirst(listed)
        BY <1>4, <2>3, <3>1, <3>2, PutFirstOrdered
      <3>4. NewestFirst(history)
        BY <1>4, <2>1, <2>4, <3>3, FirstOrdered
      <3> QED
        BY <2>6, <2>7, <3>4 DEF ListHeld, Range
    <2>12. TokensOwn'
      <3>1. ASSUME ~Crossed PROVE ScreenOwn' /\ ProfilesOwn'
        <4>1. /\ tokenOf = app.employee /\ ProfilesOwn
              /\ \A i \in DOMAIN app.history : app.history[i][1] = app.employee
          BY <1>1, <1>3, <3>1 DEF HomeHeld, TokensOwn, ScreenOwn
        <4>2. \A i \in DOMAIN history : history[i][1] = app.employee
          <5> SUFFICES ASSUME NEW i \in 1..Len(history) PROVE history[i][1] = app.employee
            BY <2>5
          <5>1. i \in 1..Len(listed) /\ history[i] = listed[i]
            BY <2>5
          <5>2. CASE i = 1
            BY <1>5, <2>6, <4>1, <5>2
          <5>3. CASE i # 1
            BY <2>4, <4>1, <5>1, <5>3
          <5> QED
            BY <5>2, <5>3
        <4>3. ScreenOwn'
          BY <1>3, <2>7, <4>1, <4>2 DEF ScreenOwn
        <4>4. ProfilesOwn'
          BY <1>3, <4>1 DEF ProfilesOwn
        <4> QED
          BY <4>3, <4>4
      <3> QED
        BY <1>3, <3>1 DEF TokensOwn, Crossed
    <2> QED
      BY <2>8, <2>9, <2>10, <2>11, <2>12 DEF HomeInv, HomeHeld
  <1> QED
    BY <1>3, <1>15, <1>16

LEMMA HomeGoesOn == HomeInv /\ [HomeNext]_homeVars => HomeInv'
  <1> SUFFICES ASSUME HomeInv, [HomeNext]_homeVars PROVE HomeInv'
    OBVIOUS
  <1> QED
    BY HomeStays, HomeAssign, HomeSubmits, HomeAnswers, HomeWaits, HomeRenews, HomeProfile, HomePages,
       HomeEnds, HomeReopens, HomeChecksOut, HomeRecords DEF HomeNext

\* Home and profile show what belongs to whoever is signed in, and telemetry
\* follows nobody else, whatever refresh succeeds or fails meanwhile.
THEOREM HomesAreSound == HomeSpec => [](HomeTypeOK /\ HomeSound)
  <1> QED
    BY HomeShows, HomeStarts, HomeGoesOn, PTL DEF HomeSpec

\* A set of numbers has a least one.
LEMMA LeastOne ==
    ASSUME NEW S, S \subseteq Nat, S # {}
    PROVE  \E i \in S : \A j \in S : i <= j
  <1>1. PICK i \in S : \A j \in S : ~ (<<j, i>> \in OpToRel(<, Nat))
    BY NatLessThanWellFounded, WFMin, Zenon
  <1>2. \A j \in S : ~ (j < i)
    <2> TAKE j \in S
    <2>1. <<j, i>> \in Nat \X Nat
      OBVIOUS
    <2>2. ~ (<<j, i>> \in OpToRel(<, Nat))
      BY <1>1
    <2> QED
      BY <2>1, <2>2, Zenon DEF OpToRel
  <1> QED
    BY <1>2

\* The first objection is one of those the guards have.
LEMMA ObjectionFound ==
    ASSUME NEW guards, NEW n \in Nat, DOMAIN guards = 1..n, Found(guards) # {}
    PROVE  \E i \in 1..n : guards[i][1] \in flaws /\ Objection(guards) = guards[i][2]
  <1>1. Found(guards) \subseteq 1..n /\ Found(guards) \subseteq Nat
    BY DEF Found
  <1>2. \E i \in Found(guards) : \A j \in Found(guards) : i <= j
    BY <1>1, LeastOne
  <1> DEFINE k == CHOOSE i \in Found(guards) : \A j \in Found(guards) : i <= j
  <1>3. k \in Found(guards)
    BY <1>2
  <1> QED
    BY <1>1, <1>3 DEF Found, Objection

\* An answer that tells a flaw, and is none of a success.
Tells(answer, flaw) ==
    /\ answer.http \in Nat /\ answer.reason \in Reasons
    /\ answer = [http |-> answer.http, status |-> answer.status, reason |-> answer.reason]
    /\ answer.status \in {"none", "rejected", "error"}
    /\ answer.http = 401 => answer.status = "rejected"
    /\ Interpretation(answer).title \in TitlesFor(flaw)

Refusal(http) == http \in Nat /\ http # 0 /\ ~(http >= 500)
Failure(http) == http \in Nat /\ http # 0 /\ http >= 500 /\ http # 401

LEMMA HttpCodes ==
    /\ \A http \in {200, 400, 401, 403, 409, 413, 422, 429} : Refusal(http)
    /\ \A http \in {500, 502} : Failure(http)
  BY DEF Refusal, Failure

\* What is said of an answer, by its status.
LEMMA SaidOf ==
    ASSUME NEW answer, answer # NoReply
    PROVE  /\ answer.status = "rejected" =>
                Interpretation(answer) = Rejected(RejectionTitle(answer.reason))
           /\ answer.status = "error" => Interpretation(answer) = Failed("Server error")
           /\ answer.status = "none" /\ ~(answer.http >= 500) =>
                Interpretation(answer) = Failed("Request couldn't be processed")
           /\ answer.status = "none" /\ answer.http >= 500 =>
                Interpretation(answer) = Failed("Server error")
  BY DEF Interpretation

LEMMA ReplyShape ==
    ASSUME NEW reason, NEW http
    PROVE  /\ Refusal(http) =>
                Reply(http, reason) = [http |-> http, status |-> "rejected", reason |-> reason]
           /\ Failure(http) =>
                Reply(http, reason) = [http |-> http, status |-> "error", reason |-> reason]
           /\ Refusal(http) \/ Failure(http) => Reply(http, reason) # NoReply
  <1>1. Refusal(http) => ~(http >= 500) /\ http # 0
    BY DEF Refusal
  <1>2. Failure(http) => http >= 500 /\ http # 0
    BY DEF Failure
  <1>3. Reply(http, reason).http = http /\ NoReply.http = 0
    BY DEF Reply, NoReply
  <1> QED
    BY <1>1, <1>2, <1>3, Zenon DEF Reply

LEMMA RejectionTells ==
    ASSUME NEW flaw, NEW reason \in Reasons, NEW http, Refusal(http),
           RejectionTitle(reason) \in TitlesFor(flaw)
    PROVE  Tells(Reply(http, reason), flaw)
  <1>0. http \in Nat
    BY DEF Refusal
  <1>1. PICK answer : answer = Reply(http, reason)
    OBVIOUS
  <1>2. answer = [http |-> http, status |-> "rejected", reason |-> reason]
    BY <1>1, ReplyShape
  <1>3. answer.http = http /\ answer.status = "rejected" /\ answer.reason = reason
    BY <1>2
  <1>4. Interpretation(answer) = Rejected(RejectionTitle(reason))
    BY <1>1, <1>3, ReplyShape, SaidOf
  <1>5. Interpretation(answer).title \in TitlesFor(flaw)
    BY <1>4 DEF Rejected
  <1> QED
    BY <1>0, <1>1, <1>2, <1>3, <1>5, Zenon DEF Tells

TellsError(flaw) == "Server error" \in TitlesFor(flaw)

LEMMA ErrorTells ==
    ASSUME NEW flaw, NEW reason \in Reasons, NEW http, Failure(http), TellsError(flaw)
    PROVE  Tells(Reply(http, reason), flaw)
  <1>0. http \in Nat /\ http # 401
    BY DEF Failure
  <1>1. PICK answer : answer = Reply(http, reason)
    OBVIOUS
  <1>2. answer = [http |-> http, status |-> "error", reason |-> reason]
    BY <1>1, ReplyShape
  <1>3. answer.http = http /\ answer.status = "error" /\ answer.reason = reason
    BY <1>2
  <1>4. Interpretation(answer) = Failed("Server error")
    BY <1>1, <1>3, ReplyShape, SaidOf
  <1>5. Interpretation(answer).title \in TitlesFor(flaw)
    <2>1. \A title : Failed(title).title = title
      BY DEF Failed
    <2> QED
      BY <1>4, <2>1, Zenon DEF TellsError
  <1>6. answer.status \in {"none", "rejected", "error"}
    BY <1>3
  <1>7. ~(answer.http = 401) /\ answer.http \in Nat /\ answer.reason \in Reasons
    BY <1>0, <1>3, Zenon
  <1>8. answer = [http |-> answer.http, status |-> answer.status, reason |-> answer.reason]
    BY <1>2
  <1> QED
    BY <1>1, <1>5, <1>6, <1>7, <1>8, Zenon DEF Tells

\* The front's answers tell its flaws.
LEMMA GateTells ==
    ASSUME NEW i \in 1..7
    PROVE  Tells(Gate[i][2], Gate[i][1]) /\ Gate[i][2].reason # "mock_location_detected"
  <1>1. CASE i = 1
    <2>1. Gate[i][1] = "too_large" /\ Gate[i][2] = Foreign(413)
      BY <1>1 DEF Gate
    <2>2. Foreign(413) = [http |-> 413, status |-> "none", reason |-> "none"]
      BY DEF Foreign
    <2>3. 413 \in Nat /\ 413 # 0 /\ 413 # 401 /\ ~(413 >= 500)
      OBVIOUS
    <2>4. PICK answer : answer = Foreign(413)
      OBVIOUS
    <2>5. answer.status = "none" /\ answer.reason = "none"
          /\ answer = [http |-> answer.http, status |-> answer.status, reason |-> answer.reason]
      BY <2>2, <2>4
    <2>11. answer.http = 413
      BY <2>2, <2>4
    <2>12. answer.http \in Nat /\ ~(answer.http = 401) /\ ~(answer.http >= 500) /\ ~(answer.http = 0)
      BY <2>11
    <2>6. answer # NoReply
      <3>1. NoReply.http = 0
        BY DEF NoReply
      <3> QED
        BY <2>12, <3>1, Zenon
    <2>7. Interpretation(answer) = Failed("Request couldn't be processed")
      BY <2>12, <2>5, <2>6, SaidOf, Zenon
    <2>8. "Request couldn't be processed" \in TitlesFor("too_large")
      BY DEF TitlesFor, Misworded
    <2>9. Interpretation(answer).title \in TitlesFor("too_large")
      <3>1. \A title : Failed(title).title = title
        BY DEF Failed
      <3> QED
        BY <2>7, <2>8, <3>1, Zenon
    <2>10. answer.http \in Nat /\ ~(answer.http = 401) /\ answer.reason \in Reasons
      <3>1. "none" \in Reasons
        BY DEF Reasons
      <3> QED
        BY <2>12, <2>5, <3>1, Zenon
    <2>13. answer.status \in {"none", "rejected", "error"}
      BY <2>5
    <2>14. Tells(answer, "too_large")
      BY <2>5, <2>9, <2>10, <2>13, Zenon DEF Tells
    <2>15. Gate[i][2].reason # "mock_location_detected"
      BY <2>1, <2>2
    <2> QED
      BY <2>1, <2>4, <2>14, <2>15, Zenon
  <1>2. CASE i = 2
    <2>1. Gate[i][1] = "ip_blocked" /\ Gate[i][2] = Reply(403, "ip_blocked")
      BY <1>2 DEF Gate
    <2>2. RejectionTitle("ip_blocked") \in TitlesFor("ip_blocked") /\ "ip_blocked" \in Reasons
      BY DEF RejectionTitle, TitlesFor, Misworded, Reasons
    <2>3. Refusal(403)
      BY HttpCodes
    <2>4. Tells(Reply(403, "ip_blocked"), "ip_blocked")
      BY <2>2, <2>3, RejectionTells, Zenon
    <2>5. Reply(403, "ip_blocked").reason = "ip_blocked"
      BY DEF Reply
    <2>6. "ip_blocked" # "mock_location_detected"
      OBVIOUS
    <2> QED
      BY <2>1, <2>4, <2>5, <2>6, Zenon
  <1>3. CASE i = 3
    <2>1. Gate[i][1] = "crowded" /\ Gate[i][2] = Reply(429, "rate_limited")
      BY <1>3 DEF Gate
    <2>2. RejectionTitle("rate_limited") \in TitlesFor("crowded") /\ "rate_limited" \in Reasons
      BY DEF RejectionTitle, TitlesFor, Misworded, Reasons
    <2>3. Refusal(429)
      BY HttpCodes
    <2>4. Tells(Reply(429, "rate_limited"), "crowded")
      BY <2>2, <2>3, RejectionTells, Zenon
    <2>5. Reply(429, "rate_limited").reason = "rate_limited"
      BY DEF Reply
    <2>6. "rate_limited" # "mock_location_detected"
      OBVIOUS
    <2> QED
      BY <2>1, <2>4, <2>5, <2>6, Zenon
  <1>4. CASE i = 4
    <2>1. Gate[i][1] = "expired" /\ Gate[i][2] = Reply(401, "unauthenticated")
      BY <1>4 DEF Gate
    <2>2. RejectionTitle("unauthenticated") \in TitlesFor("expired") /\ "unauthenticated" \in Reasons
      BY DEF RejectionTitle, TitlesFor, Misworded, Reasons
    <2>3. Refusal(401)
      BY HttpCodes
    <2>4. Tells(Reply(401, "unauthenticated"), "expired")
      BY <2>2, <2>3, RejectionTells, Zenon
    <2>5. Reply(401, "unauthenticated").reason = "unauthenticated"
      BY DEF Reply
    <2>6. "unauthenticated" # "mock_location_detected"
      OBVIOUS
    <2> QED
      BY <2>1, <2>4, <2>5, <2>6, Zenon
  <1>5. CASE i = 5
    <2>1. Gate[i][1] = "role" /\ Gate[i][2] = Reply(403, "forbidden")
      BY <1>5 DEF Gate
    <2>2. RejectionTitle("forbidden") \in TitlesFor("role") /\ "forbidden" \in Reasons
      BY DEF RejectionTitle, TitlesFor, Misworded, Reasons
    <2>3. Refusal(403)
      BY HttpCodes
    <2>4. Tells(Reply(403, "forbidden"), "role")
      BY <2>2, <2>3, RejectionTells, Zenon
    <2>5. Reply(403, "forbidden").reason = "forbidden"
      BY DEF Reply
    <2>6. "forbidden" # "mock_location_detected"
      OBVIOUS
    <2> QED
      BY <2>1, <2>4, <2>5, <2>6, Zenon
  <1>6. CASE i = 6
    <2>1. Gate[i][1] = "malformed" /\ Gate[i][2] = Reply(422, "invalid_request")
      BY <1>6 DEF Gate
    <2>2. RejectionTitle("invalid_request") \in TitlesFor("malformed") /\ "invalid_request" \in Reasons
      BY DEF RejectionTitle, TitlesFor, Misworded, Reasons
    <2>3. Refusal(422)
      BY HttpCodes
    <2>4. Tells(Reply(422, "invalid_request"), "malformed")
      BY <2>2, <2>3, RejectionTells, Zenon
    <2>5. Reply(422, "invalid_request").reason = "invalid_request"
      BY DEF Reply
    <2>6. "invalid_request" # "mock_location_detected"
      OBVIOUS
    <2> QED
      BY <2>1, <2>4, <2>5, <2>6, Zenon
  <1>7. CASE i = 7
    <2>1. Gate[i][1] = "few_frames" /\ Gate[i][2] = Reply(422, "liveness_failed")
      BY <1>7 DEF Gate
    <2>2. RejectionTitle("liveness_failed") \in TitlesFor("few_frames") /\ "liveness_failed" \in Reasons
      BY DEF RejectionTitle, TitlesFor, Misworded, Reasons
    <2>3. Refusal(422)
      BY HttpCodes
    <2>4. Tells(Reply(422, "liveness_failed"), "few_frames")
      BY <2>2, <2>3, RejectionTells, Zenon
    <2>5. Reply(422, "liveness_failed").reason = "liveness_failed"
      BY DEF Reply
    <2>6. "liveness_failed" # "mock_location_detected"
      OBVIOUS
    <2> QED
      BY <2>1, <2>4, <2>5, <2>6, Zenon
  <1> QED
    BY <1>1, <1>2, <1>3, <1>4, <1>5, <1>6, <1>7

LEMMA StandingTells ==
    ASSUME NEW i \in 1..3
    PROVE  Tells(Standing[i][2], Standing[i][1]) /\ Standing[i][2].reason # "mock_location_detected"
  <1>1. CASE i = 1
    <2>1. Standing[i][1] = "no_flash" /\ Standing[i][2] = Reply(422, "liveness_failed")
      BY <1>1 DEF Standing
    <2>2. RejectionTitle("liveness_failed") \in TitlesFor("no_flash") /\ "liveness_failed" \in Reasons
      BY DEF RejectionTitle, TitlesFor, Misworded, Reasons
    <2>3. Refusal(422)
      BY HttpCodes
    <2>4. Tells(Reply(422, "liveness_failed"), "no_flash")
      BY <2>2, <2>3, RejectionTells, Zenon
    <2>5. Reply(422, "liveness_failed").reason = "liveness_failed"
      BY DEF Reply
    <2>6. "liveness_failed" # "mock_location_detected"
      OBVIOUS
    <2> QED
      BY <2>1, <2>4, <2>5, <2>6, Zenon
  <1>2. CASE i = 2
    <2>1. Standing[i][1] = "inactive" /\ Standing[i][2] = Reply(401, "unauthenticated")
      BY <1>2 DEF Standing
    <2>2. RejectionTitle("unauthenticated") \in TitlesFor("inactive") /\ "unauthenticated" \in Reasons
      BY DEF RejectionTitle, TitlesFor, Misworded, Reasons
    <2>3. Refusal(401)
      BY HttpCodes
    <2>4. Tells(Reply(401, "unauthenticated"), "inactive")
      BY <2>2, <2>3, RejectionTells, Zenon
    <2>5. Reply(401, "unauthenticated").reason = "unauthenticated"
      BY DEF Reply
    <2>6. "unauthenticated" # "mock_location_detected"
      OBVIOUS
    <2> QED
      BY <2>1, <2>4, <2>5, <2>6, Zenon
  <1>3. CASE i = 3
    <2>1. Standing[i][1] = "no_pin" /\ Standing[i][2] = Reply(409, "pin_not_set")
      BY <1>3 DEF Standing
    <2>2. RejectionTitle("pin_not_set") \in TitlesFor("no_pin") /\ "pin_not_set" \in Reasons
      BY DEF RejectionTitle, TitlesFor, Misworded, Reasons
    <2>3. Refusal(409)
      BY HttpCodes
    <2>4. Tells(Reply(409, "pin_not_set"), "no_pin")
      BY <2>2, <2>3, RejectionTells, Zenon
    <2>5. Reply(409, "pin_not_set").reason = "pin_not_set"
      BY DEF Reply
    <2>6. "pin_not_set" # "mock_location_detected"
      OBVIOUS
    <2> QED
      BY <2>1, <2>4, <2>5, <2>6, Zenon
  <1> QED
    BY <1>1, <1>2, <1>3

LEMMA PlaceTells ==
    ASSUME NEW i \in 1..4
    PROVE  /\ Tells(Place[i][2], Place[i][1])
           /\ Place[i][2].reason \notin {"unauthenticated", "mock_location_detected"}
  <1>1. CASE i = 1
    <2>1. Place[i][1] = "wrong_pin" /\ Place[i][2] = Reply(401, "pin_mismatch")
      BY <1>1 DEF Place
    <2>2. RejectionTitle("pin_mismatch") \in TitlesFor("wrong_pin") /\ "pin_mismatch" \in Reasons
      BY DEF RejectionTitle, TitlesFor, Misworded, Reasons
    <2>3. Refusal(401)
      BY HttpCodes
    <2>4. Tells(Reply(401, "pin_mismatch"), "wrong_pin")
      BY <2>2, <2>3, RejectionTells, Zenon
    <2>5. Reply(401, "pin_mismatch").reason = "pin_mismatch"
      BY DEF Reply
    <2>6. "pin_mismatch" \notin {"unauthenticated", "mock_location_detected"}
      OBVIOUS
    <2> QED
      BY <2>1, <2>4, <2>5, <2>6, Zenon
  <1>2. CASE i = 2
    <2>1. Place[i][1] = "odd_coordinates" /\ Place[i][2] = Reply(422, "invalid_location")
      BY <1>2 DEF Place
    <2>2. RejectionTitle("invalid_location") \in TitlesFor("odd_coordinates") /\ "invalid_location" \in Reasons
      BY DEF RejectionTitle, TitlesFor, Misworded, Reasons
    <2>3. Refusal(422)
      BY HttpCodes
    <2>4. Tells(Reply(422, "invalid_location"), "odd_coordinates")
      BY <2>2, <2>3, RejectionTells, Zenon
    <2>5. Reply(422, "invalid_location").reason = "invalid_location"
      BY DEF Reply
    <2>6. "invalid_location" \notin {"unauthenticated", "mock_location_detected"}
      OBVIOUS
    <2> QED
      BY <2>1, <2>4, <2>5, <2>6, Zenon
  <1>3. CASE i = 3
    <2>1. Place[i][1] = "outside" /\ Place[i][2] = Reply(422, "outside_geofence")
      BY <1>3 DEF Place
    <2>2. RejectionTitle("outside_geofence") \in TitlesFor("outside") /\ "outside_geofence" \in Reasons
      BY DEF RejectionTitle, TitlesFor, Misworded, Reasons
    <2>3. Refusal(422)
      BY HttpCodes
    <2>4. Tells(Reply(422, "outside_geofence"), "outside")
      BY <2>2, <2>3, RejectionTells, Zenon
    <2>5. Reply(422, "outside_geofence").reason = "outside_geofence"
      BY DEF Reply
    <2>6. "outside_geofence" \notin {"unauthenticated", "mock_location_detected"}
      OBVIOUS
    <2> QED
      BY <2>1, <2>4, <2>5, <2>6, Zenon
  <1>4. CASE i = 4
    <2>1. Place[i][1] = "not_enrolled" /\ Place[i][2] = Reply(409, "no_reference_embedding")
      BY <1>4 DEF Place
    <2>2. RejectionTitle("no_reference_embedding") \in TitlesFor("not_enrolled") /\ "no_reference_embedding" \in Reasons
      BY DEF RejectionTitle, TitlesFor, Misworded, Reasons
    <2>3. Refusal(409)
      BY HttpCodes
    <2>4. Tells(Reply(409, "no_reference_embedding"), "not_enrolled")
      BY <2>2, <2>3, RejectionTells, Zenon
    <2>5. Reply(409, "no_reference_embedding").reason = "no_reference_embedding"
      BY DEF Reply
    <2>6. "no_reference_embedding" \notin {"unauthenticated", "mock_location_detected"}
      OBVIOUS
    <2> QED
      BY <2>1, <2>4, <2>5, <2>6, Zenon
  <1> QED
    BY <1>1, <1>2, <1>3, <1>4

\* What becomes of an error of the AI service: by default it is the server's.
LEMMA RetryableErrors ==
    ASSUME NEW err, err.retryable = TRUE
    PROVE  ServerError(err) = Reply(502, "server_error")
  BY DEF ServerError

LEMMA FinalErrors ==
    ASSUME NEW err, NEW http, ~err.retryable, err.status = http, ~(http = 0)
    PROVE  ServerError(err) = Reply(http, "server_error")
  BY Zenon DEF ServerError

LEMMA FinalEnvelope ==
    ASSUME NEW code, NEW http, HttpStatus(code) = http, code \notin Retryable, ~(http = 0)
    PROVE  ServerError(Envelope(code)) = Reply(http, "server_error")
  <1>1. Envelope(code).retryable = (code \in Retryable) /\ Envelope(code).status = HttpStatus(code)
    BY DEF Envelope
  <1>2. ~Envelope(code).retryable
    BY <1>1
  <1> QED
    BY <1>1, <1>2, FinalErrors, Zenon

LEMMA ServerErrors ==
    /\ ServerError(Envelope("UNAUTHORIZED")) = Reply(401, "server_error")
    /\ ServerError(Envelope("BAD_REQUEST")) = Reply(400, "server_error")
    /\ ServerError(Bare) = Reply(502, "server_error")
    /\ ServerError(Unanswered) = Reply(502, "server_error")
  <1>1. ~(401 = 0) /\ ~(400 = 0) /\ ~(502 = 0)
    OBVIOUS
  <1>2. ServerError(Envelope("UNAUTHORIZED")) = Reply(401, "server_error")
    <2>1. PICK http : http = 401
      OBVIOUS
    <2>2. HttpStatus("UNAUTHORIZED") = http /\ "UNAUTHORIZED" \notin Retryable
      BY <2>1 DEF HttpStatus, Retryable
    <2>3. ~(http = 0)
      BY <2>1
    <2>4. ServerError(Envelope("UNAUTHORIZED")) = Reply(http, "server_error")
      BY <2>2, <2>3, FinalEnvelope, Zenon
    <2> QED
      BY <2>1, <2>4
  <1>3. ServerError(Envelope("BAD_REQUEST")) = Reply(400, "server_error")
    <2>1. PICK http : http = 400
      OBVIOUS
    <2>2. HttpStatus("BAD_REQUEST") = http /\ "BAD_REQUEST" \notin Retryable
      BY <2>1 DEF HttpStatus, Retryable
    <2>3. ~(http = 0)
      BY <2>1
    <2>4. ServerError(Envelope("BAD_REQUEST")) = Reply(http, "server_error")
      BY <2>2, <2>3, FinalEnvelope, Zenon
    <2> QED
      BY <2>1, <2>4
  <1>4. ServerError(Bare) = Reply(502, "server_error")
    <2>1. PICK http : http = 502
      OBVIOUS
    <2>2. ~Bare.retryable /\ Bare.status = http
      BY <2>1 DEF Bare
    <2> QED
      BY <1>1, <2>1, <2>2, FinalErrors, Zenon
  <1>5. ServerError(Unanswered) = Reply(502, "server_error")
    <2>1. Unanswered.retryable = TRUE
      BY DEF Unanswered
    <2> QED
      BY <2>1, RetryableErrors, Zenon
  <1> QED
    BY <1>2, <1>3, <1>4, <1>5

LEMMA EnvelopeOf ==
    ASSUME NEW code
    PROVE  /\ Envelope(code).code = code
           /\ code \in Retryable => Envelope(code).retryable = TRUE
  BY DEF Envelope

Reported == {"MOCK_LOCATION", "EMULATOR_DETECTED", "REPLAY_DETECTED", "STALE_CAPTURE",
             "MODEL_VERSION_MISMATCH", "NO_REFERENCE_EMBEDDING", "DECRYPT_FAILED"}

LEMMA VerifyErrors ==
    ASSUME NEW err
    PROVE  /\ err.code \notin Reported => VerifyError(err) = ServerError(err)
           /\ err.code # "RATE_LIMITED" => PinError(err) = ServerError(err)
           /\ err.code = "RATE_LIMITED" => PinError(err) = Reply(429, "pin_locked")
  BY DEF VerifyError, PinError, Reported

\* An answer told at a stage after the PIN's: not that the session has ended,
\* and of a fake location only if HR has been told.
ToldLate(answer, flaw, code) ==
    /\ Tells(answer, flaw)
    /\ answer.reason # "unauthenticated"
    /\ answer.reason = "mock_location_detected" => code \in SecurityEvents

LEMMA LivenessTells ==
    ASSUME NEW i \in 1..3
    PROVE  ToldLate(ServerError(Envelope(LivenessGuards[i][2])), LivenessGuards[i][1], "none")
  <1>1. CASE i = 1
    <2>1. LivenessGuards[i][1] = "frames_too_large" /\ LivenessGuards[i][2] = "PAYLOAD_TOO_LARGE"
      BY <1>1 DEF LivenessGuards
    <2>2. ServerError(Envelope("PAYLOAD_TOO_LARGE")) = Reply(502, "server_error")
      <3>1. "PAYLOAD_TOO_LARGE" \in Retryable
        BY DEF Retryable
      <3> QED
        BY <3>1, EnvelopeOf, RetryableErrors, Zenon
    <2>3. Failure(502) /\ "server_error" \in Reasons
      BY HttpCodes DEF Reasons
    <2>4. TellsError("frames_too_large")
      BY DEF TellsError, TitlesFor, Misworded
    <2>5. Tells(Reply(502, "server_error"), "frames_too_large")
      BY <2>3, <2>4, ErrorTells, Zenon
    <2>6. ToldLate(Reply(502, "server_error"), "frames_too_large", "none")
      <3>1. Reply(502, "server_error").reason = "server_error"
        BY DEF Reply
      <3> QED
        BY <2>5, <3>1 DEF ToldLate, SecurityEvents
    <2> QED
      BY <2>1, <2>2, <2>6, Zenon
  <1>2. CASE i = 2
    <2>1. LivenessGuards[i][1] = "clocks_apart" /\ LivenessGuards[i][2] = "UNAUTHORIZED"
      BY <1>2 DEF LivenessGuards
    <2>2. ServerError(Envelope("UNAUTHORIZED")) = Reply(401, "server_error")
      BY ServerErrors
    <2>3. Refusal(401) /\ "server_error" \in Reasons
      BY HttpCodes DEF Reasons
    <2>4. RejectionTitle("server_error") \in TitlesFor("clocks_apart")
      BY DEF RejectionTitle, TitlesFor, Misworded
    <2>5. Tells(Reply(401, "server_error"), "clocks_apart")
      BY <2>3, <2>4, RejectionTells, Zenon
    <2>6. ToldLate(Reply(401, "server_error"), "clocks_apart", "none")
      <3>1. Reply(401, "server_error").reason = "server_error"
        BY DEF Reply
      <3> QED
        BY <2>5, <3>1 DEF ToldLate, SecurityEvents
    <2> QED
      BY <2>1, <2>2, <2>6, Zenon
  <1>3. CASE i = 3
    <2>1. LivenessGuards[i][1] = "frame_unreadable" /\ LivenessGuards[i][2] = "BAD_REQUEST"
      BY <1>3 DEF LivenessGuards
    <2>2. ServerError(Envelope("BAD_REQUEST")) = Reply(400, "server_error")
      BY ServerErrors
    <2>3. Refusal(400) /\ "server_error" \in Reasons
      BY HttpCodes DEF Reasons
    <2>4. RejectionTitle("server_error") \in TitlesFor("frame_unreadable")
      BY DEF RejectionTitle, TitlesFor, Misworded
    <2>5. Tells(Reply(400, "server_error"), "frame_unreadable")
      BY <2>3, <2>4, RejectionTells, Zenon
    <2>6. ToldLate(Reply(400, "server_error"), "frame_unreadable", "none")
      <3>1. Reply(400, "server_error").reason = "server_error"
        BY DEF Reply
      <3> QED
        BY <2>5, <3>1 DEF ToldLate, SecurityEvents
    <2> QED
      BY <2>1, <2>2, <2>6, Zenon
  <1> QED
    BY <1>1, <1>2, <1>3

LEMMA PinTells ==
    ASSUME NEW i \in 1..1
    PROVE  ToldLate(PinError(Envelope(PinGuards[i][2])), PinGuards[i][1], "none")
  <1>1. CASE i = 1
    <2>1. PinGuards[i][1] = "pin_locked" /\ PinGuards[i][2] = "RATE_LIMITED"
      BY <1>1 DEF PinGuards
    <2>2. PinError(Envelope("RATE_LIMITED")) = Reply(429, "pin_locked")
      BY EnvelopeOf, VerifyErrors, Zenon
    <2>3. Refusal(429) /\ "pin_locked" \in Reasons
      BY HttpCodes DEF Reasons
    <2>4. RejectionTitle("pin_locked") \in TitlesFor("pin_locked")
      BY DEF RejectionTitle, TitlesFor, Misworded
    <2>5. Tells(Reply(429, "pin_locked"), "pin_locked")
      BY <2>3, <2>4, RejectionTells, Zenon
    <2>6. ToldLate(Reply(429, "pin_locked"), "pin_locked", "none")
      <3>1. Reply(429, "pin_locked").reason = "pin_locked"
        BY DEF Reply
      <3> QED
        BY <2>5, <3>1 DEF ToldLate, SecurityEvents
    <2> QED
      BY <2>1, <2>2, <2>6, Zenon
  <1> QED
    BY <1>1

LEMMA VerifyTells ==
    ASSUME NEW i \in 1..15
    PROVE  ToldLate(VerifyError(Envelope(VerifyGuards[i][2])), VerifyGuards[i][1],
                    VerifyGuards[i][2])
  <1>1. CASE i \in {1, 8, 9, 11, 12, 13, 14, 15}
    <2>1. /\ VerifyGuards[i][1] \in {"too_often", "photo_too_large", "no_photo", "no_face",
                                     "two_faces", "far", "blurred", "dark"}
          /\ VerifyGuards[i][2] \in Retryable \ Reported
      BY <1>1 DEF VerifyGuards, Retryable, Reported
    <2>2. PICK code : code = VerifyGuards[i][2]
      OBVIOUS
    <2>3. VerifyError(Envelope(code)) = Reply(502, "server_error")
      <3>1. code \in Retryable /\ code \notin Reported
        BY <2>1, <2>2
      <3>2. Envelope(code).code = code /\ Envelope(code).retryable = TRUE
        BY <3>1, EnvelopeOf, Zenon
      <3>3. VerifyError(Envelope(code)) = ServerError(Envelope(code))
        BY <3>1, <3>2, VerifyErrors, Zenon
      <3> QED
        BY <3>2, <3>3, RetryableErrors, Zenon
    <2>4. TellsError(VerifyGuards[i][1])
      BY <2>1 DEF TellsError, TitlesFor, Misworded
    <2>5. Failure(502) /\ "server_error" \in Reasons
      BY HttpCodes DEF Reasons
    <2>6. Tells(Reply(502, "server_error"), VerifyGuards[i][1])
      BY <2>4, <2>5, ErrorTells, Zenon
    <2>7. ToldLate(Reply(502, "server_error"), VerifyGuards[i][1], VerifyGuards[i][2])
      <3>1. Reply(502, "server_error").reason = "server_error"
        BY DEF Reply
      <3> QED
        BY <2>6, <3>1, Zenon DEF ToldLate
    <2> QED
      BY <2>2, <2>3, <2>7, Zenon
  <1>2. CASE i = 2
    <2>1. VerifyGuards[i][1] = "mock_location" /\ VerifyGuards[i][2] = "MOCK_LOCATION"
      BY <1>2 DEF VerifyGuards
    <2>2. VerifyError(Envelope("MOCK_LOCATION")) = Reply(403, "mock_location_detected")
      <3>1. Envelope("MOCK_LOCATION").code = "MOCK_LOCATION"
        BY EnvelopeOf
      <3> QED
        BY <3>1 DEF VerifyError
    <2>3. Refusal(403) /\ "mock_location_detected" \in Reasons
      BY HttpCodes DEF Reasons
    <2>4. RejectionTitle("mock_location_detected") \in TitlesFor("mock_location")
      BY DEF RejectionTitle, TitlesFor, Misworded
    <2>5. Tells(Reply(403, "mock_location_detected"), "mock_location")
      BY <2>3, <2>4, RejectionTells, Zenon
    <2>6. ToldLate(Reply(403, "mock_location_detected"), "mock_location", "MOCK_LOCATION")
      <3>1. Reply(403, "mock_location_detected").reason = "mock_location_detected"
        BY DEF Reply
      <3> QED
        BY <2>5, <3>1 DEF ToldLate, SecurityEvents
    <2> QED
      BY <2>1, <2>2, <2>6, Zenon
  <1>3. CASE i = 3
    <2>1. VerifyGuards[i][1] = "emulator" /\ VerifyGuards[i][2] = "EMULATOR_DETECTED"
      BY <1>3 DEF VerifyGuards
    <2>2. VerifyError(Envelope("EMULATOR_DETECTED")) = Reply(403, "emulator_detected")
      <3>1. Envelope("EMULATOR_DETECTED").code = "EMULATOR_DETECTED"
        BY EnvelopeOf
      <3> QED
        BY <3>1 DEF VerifyError
    <2>3. Refusal(403) /\ "emulator_detected" \in Reasons
      BY HttpCodes DEF Reasons
    <2>4. RejectionTitle("emulator_detected") \in TitlesFor("emulator")
      BY DEF RejectionTitle, TitlesFor, Misworded
    <2>5. Tells(Reply(403, "emulator_detected"), "emulator")
      BY <2>3, <2>4, RejectionTells, Zenon
    <2>6. ToldLate(Reply(403, "emulator_detected"), "emulator", "EMULATOR_DETECTED")
      <3>1. Reply(403, "emulator_detected").reason = "emulator_detected"
        BY DEF Reply
      <3> QED
        BY <2>5, <3>1 DEF ToldLate, SecurityEvents
    <2> QED
      BY <2>1, <2>2, <2>6, Zenon
  <1>4. CASE i = 4
    <2>1. VerifyGuards[i][1] = "stale" /\ VerifyGuards[i][2] = "STALE_CAPTURE"
      BY <1>4 DEF VerifyGuards
    <2>2. VerifyError(Envelope("STALE_CAPTURE")) = Reply(409, "stale_capture")
      <3>1. Envelope("STALE_CAPTURE").code = "STALE_CAPTURE"
        BY EnvelopeOf
      <3> QED
        BY <3>1 DEF VerifyError
    <2>3. Refusal(409) /\ "stale_capture" \in Reasons
      BY HttpCodes DEF Reasons
    <2>4. RejectionTitle("stale_capture") \in TitlesFor("stale")
      BY DEF RejectionTitle, TitlesFor, Misworded
    <2>5. Tells(Reply(409, "stale_capture"), "stale")
      BY <2>3, <2>4, RejectionTells, Zenon
    <2>6. ToldLate(Reply(409, "stale_capture"), "stale", "STALE_CAPTURE")
      <3>1. Reply(409, "stale_capture").reason = "stale_capture"
        BY DEF Reply
      <3> QED
        BY <2>5, <3>1 DEF ToldLate, SecurityEvents
    <2> QED
      BY <2>1, <2>2, <2>6, Zenon
  <1>5. CASE i = 5
    <2>1. VerifyGuards[i][1] = "model_changed" /\ VerifyGuards[i][2] = "MODEL_VERSION_MISMATCH"
      BY <1>5 DEF VerifyGuards
    <2>2. VerifyError(Envelope("MODEL_VERSION_MISMATCH")) = Reply(409, "profile_needs_attention")
      <3>1. Envelope("MODEL_VERSION_MISMATCH").code = "MODEL_VERSION_MISMATCH"
        BY EnvelopeOf
      <3> QED
        BY <3>1 DEF VerifyError
    <2>3. Refusal(409) /\ "profile_needs_attention" \in Reasons
      BY HttpCodes DEF Reasons
    <2>4. RejectionTitle("profile_needs_attention") \in TitlesFor("model_changed")
      BY DEF RejectionTitle, TitlesFor, Misworded
    <2>5. Tells(Reply(409, "profile_needs_attention"), "model_changed")
      BY <2>3, <2>4, RejectionTells, Zenon
    <2>6. ToldLate(Reply(409, "profile_needs_attention"), "model_changed", "MODEL_VERSION_MISMATCH")
      <3>1. Reply(409, "profile_needs_attention").reason = "profile_needs_attention"
        BY DEF Reply
      <3> QED
        BY <2>5, <3>1 DEF ToldLate, SecurityEvents
    <2> QED
      BY <2>1, <2>2, <2>6, Zenon
  <1>6. CASE i = 6
    <2>1. VerifyGuards[i][1] = "key_changed" /\ VerifyGuards[i][2] = "DECRYPT_FAILED"
      BY <1>6 DEF VerifyGuards
    <2>2. VerifyError(Envelope("DECRYPT_FAILED")) = Reply(500, "server_error")
      <3>1. Envelope("DECRYPT_FAILED").code = "DECRYPT_FAILED"
        BY EnvelopeOf
      <3> QED
        BY <3>1 DEF VerifyError
    <2>3. Failure(500) /\ "server_error" \in Reasons
      BY HttpCodes DEF Reasons
    <2>4. TellsError("key_changed")
      BY DEF TellsError, TitlesFor, Misworded
    <2>5. Tells(Reply(500, "server_error"), "key_changed")
      BY <2>3, <2>4, ErrorTells, Zenon
    <2>6. ToldLate(Reply(500, "server_error"), "key_changed", "DECRYPT_FAILED")
      <3>1. Reply(500, "server_error").reason = "server_error"
        BY DEF Reply
      <3> QED
        BY <2>5, <3>1 DEF ToldLate, SecurityEvents
    <2> QED
      BY <2>1, <2>2, <2>6, Zenon
  <1>7. CASE i = 7
    <2>1. VerifyGuards[i][1] = "foreign_key" /\ VerifyGuards[i][2] = "BAD_REQUEST"
      BY <1>7 DEF VerifyGuards
    <2>2. VerifyError(Envelope("BAD_REQUEST")) = Reply(400, "server_error")
      <3>1. Envelope("BAD_REQUEST").code = "BAD_REQUEST"
        BY EnvelopeOf
      <3>2. VerifyError(Envelope("BAD_REQUEST")) = ServerError(Envelope("BAD_REQUEST"))
        BY <3>1 DEF VerifyError
      <3> QED
        BY <3>2, ServerErrors
    <2>3. Refusal(400) /\ "server_error" \in Reasons
      BY HttpCodes DEF Reasons
    <2>4. RejectionTitle("server_error") \in TitlesFor("foreign_key")
      BY DEF RejectionTitle, TitlesFor, Misworded
    <2>5. Tells(Reply(400, "server_error"), "foreign_key")
      BY <2>3, <2>4, RejectionTells, Zenon
    <2>6. ToldLate(Reply(400, "server_error"), "foreign_key", "BAD_REQUEST")
      <3>1. Reply(400, "server_error").reason = "server_error"
        BY DEF Reply
      <3> QED
        BY <2>5, <3>1 DEF ToldLate, SecurityEvents
    <2> QED
      BY <2>1, <2>2, <2>6, Zenon
  <1>10. CASE i = 10
    <2>1. VerifyGuards[i][1] = "same_photo" /\ VerifyGuards[i][2] = "REPLAY_DETECTED"
      BY <1>10 DEF VerifyGuards
    <2>2. VerifyError(Envelope("REPLAY_DETECTED")) = Reply(409, "replay_detected")
      <3>1. Envelope("REPLAY_DETECTED").code = "REPLAY_DETECTED"
        BY EnvelopeOf
      <3> QED
        BY <3>1 DEF VerifyError
    <2>3. Refusal(409) /\ "replay_detected" \in Reasons
      BY HttpCodes DEF Reasons
    <2>4. RejectionTitle("replay_detected") \in TitlesFor("same_photo")
      BY DEF RejectionTitle, TitlesFor, Misworded
    <2>5. Tells(Reply(409, "replay_detected"), "same_photo")
      BY <2>3, <2>4, RejectionTells, Zenon
    <2>6. ToldLate(Reply(409, "replay_detected"), "same_photo", "REPLAY_DETECTED")
      <3>1. Reply(409, "replay_detected").reason = "replay_detected"
        BY DEF Reply
      <3> QED
        BY <2>5, <3>1 DEF ToldLate, SecurityEvents
    <2> QED
      BY <2>1, <2>2, <2>6, Zenon
  <1> QED
    BY <1>1, <1>2, <1>3, <1>4, <1>5, <1>6, <1>7, <1>10
-----------------------------------------------------------------------------
\* The employee's answer and its explanation: an entry, or a flaw there is.
ReplyHolds ==
    /\ \/ /\ entry \in {"approved", "flagged"} /\ reply = Accepted(entry)
          /\ entry = "flagged" => "half_match" \in flaws
       \/ /\ \E flaw \in flaws : Tells(reply, flaw)
          /\ entry # "none" => reply.status # "rejected"
    /\ reply.reason = "mock_location_detected" => alerted
    /\ reply.reason = "unauthenticated" => compared = 0

Finished == {"answered", "shown"}
Before == {"phone", "front", "liveness", "standing", "pin"}

VerdictInv ==
    /\ VerdictTypeOK /\ compared \in 0..1
    /\ at \notin Finished => entry = "none"
    /\ at \in Before => compared = 0
    /\ at \in Finished => ReplyHolds
    /\ at # "shown" => verdict = NotShown
    /\ at = "shown" => verdict = Interpretation(reply)

\* The phone's words, for an answer that tells a flaw and for one of an entry.
LEMMA SaidOfFlaws ==
    ASSUME NEW answer, NEW flaw, Tells(answer, flaw)
    PROVE  /\ Interpretation(answer).kind \in {"rejected", "error"}
           /\ Interpretation(answer).title \in Titles
           /\ Interpretation(answer) = [kind |-> Interpretation(answer).kind,
                                        title |-> Interpretation(answer).title]
           /\ Interpretation(answer).kind = "rejected" => answer.status = "rejected"
           /\ Interpretation(answer).title = "Mock location detected" =>
                answer.reason = "mock_location_detected"
  <1>1. answer.status \in {"none", "rejected", "error"}
    BY DEF Tells
  <1>2. CASE answer.status = "rejected"
    <2>1. answer # NoReply
      BY <1>2 DEF NoReply
    <2>2. Interpretation(answer) = Rejected(RejectionTitle(answer.reason))
      BY <1>2, <2>1, SaidOf
    <2>3. RejectionTitle(answer.reason) \in Titles
      BY DEF RejectionTitle, Titles
    <2>4. RejectionTitle(answer.reason) = "Mock location detected" =>
            answer.reason = "mock_location_detected"
      BY DEF RejectionTitle
    <2>5. /\ Interpretation(answer).kind = "rejected"
          /\ Interpretation(answer).title = RejectionTitle(answer.reason)
          /\ Interpretation(answer) = [kind |-> "rejected",
                                       title |-> RejectionTitle(answer.reason)]
      BY <2>2 DEF Rejected
    <2> QED
      BY <1>2, <2>3, <2>4, <2>5
  <1>3. CASE answer.status \in {"none", "error"}
    <2>1. \E title \in {"Couldn't reach the server", "Server error",
                        "Request couldn't be processed"} :
            Interpretation(answer) = Failed(title)
      <3>1. CASE answer = NoReply
        <4>1. Interpretation(NoReply) = Failed("Couldn't reach the server")
          BY DEF Interpretation
        <4> QED
          BY <3>1, <4>1
      <3>2. CASE answer # NoReply /\ answer.status = "error"
        BY <3>2, SaidOf
      <3>3. CASE answer # NoReply /\ answer.status = "none"
        <4>1. CASE answer.http >= 500
          BY <3>3, <4>1, SaidOf, Zenon
        <4>2. CASE ~(answer.http >= 500)
          BY <3>3, <4>2, SaidOf, Zenon
        <4> QED
          BY <4>1, <4>2
      <3> QED
        BY <1>3, <3>1, <3>2, <3>3
    <2>2. PICK title \in {"Couldn't reach the server", "Server error",
                          "Request couldn't be processed"} :
            Interpretation(answer) = Failed(title)
      BY <2>1
    <2>3. /\ Interpretation(answer).kind = "error" /\ Interpretation(answer).title = title
          /\ Interpretation(answer) = [kind |-> "error", title |-> title]
      <3>1. \A t : /\ Failed(t) = [kind |-> "error", title |-> t]
                   /\ Failed(t).kind = "error" /\ Failed(t).title = t
        BY DEF Failed
      <3> QED
        BY <2>2, <3>1, Zenon
    <2>4. title \in Titles /\ title # "Mock location detected"
      BY DEF Titles
    <2> QED
      BY <2>3, <2>4
  <1> QED
    BY <1>1, <1>2, <1>3

LEMMA SaidOfEntries ==
    ASSUME NEW decision \in {"approved", "flagged"}
    PROVE  /\ Accepted(decision) # NoReply /\ Accepted(decision).http # 401
           /\ Accepted(decision).status = decision /\ Accepted(decision).reason = "none"
           /\ Interpretation(Accepted(decision)) =
                IF decision = "approved" THEN [kind |-> "success", title |-> "Checked in"]
                ELSE [kind |-> "review", title |-> "Sent for HR review"]
  <1>1. Accepted(decision).http = 200
    BY DEF Accepted
  <1>2. Accepted(decision).http # 401
    BY <1>1
  <1>3. Accepted(decision).status = decision /\ Accepted(decision).reason = "none"
    BY DEF Accepted
  <1>4. NoReply.status = "none" /\ decision # "none"
    BY DEF NoReply
  <1>5. Accepted(decision) # NoReply
    BY <1>3, <1>4
  <1>6. PICK answer : answer = Accepted(decision)
    OBVIOUS
  <1>7. answer.status = decision /\ answer # NoReply
    BY <1>3, <1>5, <1>6
  <1>8. Interpretation(answer) =
          IF decision = "approved" THEN [kind |-> "success", title |-> "Checked in"]
          ELSE [kind |-> "review", title |-> "Sent for HR review"]
    BY <1>7 DEF Interpretation
  <1> QED
    BY <1>2, <1>3, <1>5, <1>6, <1>8

Spoken == [kind : {"none", "success", "review", "rejected", "error"}, title : Titles]
AnswersGiven == [http : Nat, status : {"none", "approved", "flagged", "rejected", "error"},
                 reason : Reasons]

LEMMA TellsTyped ==
    ASSUME NEW answer, NEW flaw, Tells(answer, flaw) PROVE answer \in AnswersGiven
  <1>1. /\ answer = [http |-> answer.http, status |-> answer.status, reason |-> answer.reason]
        /\ answer.http \in Nat /\ answer.reason \in Reasons
        /\ answer.status \in {"none", "rejected", "error"}
    BY DEF Tells
  <1>2. answer.status \in {"none", "approved", "flagged", "rejected", "error"}
    BY <1>1
  <1> QED
    BY <1>1, <1>2, Zenon DEF AnswersGiven

LEMMA AcceptedTyped ==
    ASSUME NEW decision \in {"approved", "flagged"} PROVE Accepted(decision) \in AnswersGiven
  <1>1. 200 \in Nat /\ "none" \in Reasons
    BY DEF Reasons
  <1>2. decision \in {"none", "approved", "flagged", "rejected", "error"}
    OBVIOUS
  <1> QED
    BY <1>1, <1>2, Zenon DEF Accepted, AnswersGiven

LEMMA VerdictStarts == VerdictInit => VerdictInv
  <1> SUFFICES ASSUME VerdictInit PROVE VerdictInv
    OBVIOUS
  <1>1. /\ flaws \subseteq Flaws /\ at = "phone" /\ resent = FALSE /\ compared = 0
        /\ entry = "none" /\ alerted = FALSE /\ reply = NoReply /\ verdict = NotShown
    BY DEF VerdictInit
  <1>2. NoReply \in AnswersGiven
    <2>1. 0 \in Nat /\ "none" \in Reasons
      BY DEF Reasons
    <2> QED
      BY <2>1 DEF NoReply, AnswersGiven
  <1>3. NotShown \in Spoken
    BY DEF NotShown, Spoken, Titles
  <1>4. compared \in 0..1 /\ compared \in 0..2
    <2>1. compared = 0
      BY DEF VerdictInit
    <2> QED
      BY <2>1
  <1>5. at \in VerdictStages /\ at \notin Finished /\ at # "shown"
    BY <1>1 DEF VerdictStages, Finished
  <1>6. VerdictTypeOK
    BY <1>1, <1>2, <1>3, <1>4, <1>5 DEF VerdictTypeOK, Spoken, AnswersGiven
  <1> QED
    BY <1>1, <1>4, <1>5, <1>6 DEF VerdictInv

\* What an answer has to be for the request to end with it.
LEMMA EndsWell ==
    ASSUME VerdictInv, at \notin Finished, NEW answer, NEW flaw \in flaws',
           Answered(answer), Tells(answer, flaw),
           flaws' \subseteq Flaws \cup {"outage"},
           resent' = resent, entry' = entry, verdict' = verdict,
           compared' \in 0..1, alerted' \in BOOLEAN,
           answer.reason = "mock_location_detected" => alerted',
           answer.reason = "unauthenticated" => compared' = 0
    PROVE  VerdictInv'
  <1>1. at' = "answered" /\ reply' = answer
    BY DEF Answered
  <1>2. /\ entry' = "none" /\ verdict' = NotShown /\ verdict' \in Spoken
        /\ resent' \in BOOLEAN /\ entry' \in {"none", "approved", "flagged"}
    BY DEF VerdictInv, VerdictTypeOK, Finished, Spoken
  <1>3. reply' \in AnswersGiven
    BY <1>1, TellsTyped
  <1>4. compared' \in 0..2
    OBVIOUS
  <1>5. at' \in VerdictStages /\ at' \in Finished /\ at' \notin Before /\ at' # "shown"
    BY <1>1 DEF VerdictStages, Finished, Before
  <1>6. VerdictTypeOK'
    BY <1>2, <1>3, <1>4, <1>5 DEF VerdictTypeOK, Spoken, AnswersGiven
  <1>7. \E f \in flaws' : Tells(answer, f)
    OBVIOUS
  <1>8. ReplyHolds'
    <2>1. \E f \in flaws' : Tells(reply, f)'
      BY <1>1, <1>7
    <2> QED
      BY <1>1, <1>2, <2>1 DEF ReplyHolds
  <1> QED
    BY <1>2, <1>5, <1>6, <1>8 DEF VerdictInv

\* The request goes on to another stage.
LEMMA GoesOn ==
    ASSUME VerdictInv, at' \in VerdictStages, at' \notin Finished,
           entry = "none", verdict = NotShown, reply' \in AnswersGiven,
           flaws' \subseteq Flaws \cup {"outage"},
           resent' \in BOOLEAN, entry' = entry, verdict' = verdict, alerted' \in BOOLEAN,
           compared' \in 0..1, at' \in Before => compared' = 0
    PROVE  VerdictInv'
  <1>1. verdict' \in Spoken /\ entry' \in {"none", "approved", "flagged"}
    BY DEF NotShown, Spoken, Titles
  <1>2. compared' \in 0..2
    OBVIOUS
  <1>3. VerdictTypeOK'
    BY <1>1, <1>2 DEF VerdictTypeOK, Spoken, AnswersGiven
  <1>4. at' # "shown"
    BY DEF Finished
  <1> QED
    BY <1>3, <1>4 DEF VerdictInv

\* What the invariant says while a request is under way.
LEMMA UnderWayFacts ==
    ASSUME VerdictInv
    PROVE  /\ flaws \subseteq Flaws \cup {"outage"} /\ resent \in BOOLEAN
           /\ compared \in 0..1 /\ alerted \in BOOLEAN /\ reply \in AnswersGiven
           /\ at \notin Finished => entry = "none" /\ verdict = NotShown
           /\ at \in Before => compared = 0
  BY DEF VerdictInv, VerdictTypeOK, Finished, AnswersGiven

LEMMA SendKeeps ==
    ASSUME VerdictInv, Send PROVE VerdictInv'
  <1>1. /\ at = "phone" /\ at' = "front" /\ flaws' = flaws /\ resent' = resent
        /\ compared' = compared /\ entry' = entry /\ alerted' = alerted
        /\ reply' = reply /\ verdict' = verdict
    BY DEF Send
  <1>2. /\ at \notin Finished /\ at \in Before
        /\ at' \in VerdictStages /\ at' \notin Finished /\ at' \in Before
    BY <1>1 DEF Finished, Before, VerdictStages
  <1> QED
    BY <1>1, <1>2, UnderWayFacts, GoesOn

\* A stage of the backend's own, whose answers tell their flaws.
LEMMA CheckKeeps ==
    ASSUME VerdictInv, NEW stage \in VerdictStages \ Finished, NEW n \in Nat, NEW guards,
           NEW next \in VerdictStages \ Finished, DOMAIN guards = 1..n,
           Check(stage, guards, next),
           next \in Before => stage \in Before,
           \A i \in 1..n : /\ Tells(guards[i][2], guards[i][1])
                           /\ guards[i][2].reason # "mock_location_detected"
                           /\ guards[i][2].reason = "unauthenticated" => stage \in Before
    PROVE  VerdictInv'
  <1>1. /\ at = stage /\ flaws' = flaws /\ resent' = resent
        /\ compared' = compared /\ entry' = entry /\ alerted' = alerted
        /\ verdict' = verdict
    BY DEF Check
  <1>2. CASE Found(guards) # {}
    <2>1. Answered(Objection(guards))
      BY <1>2 DEF Check
    <2>2. PICK i \in 1..n : guards[i][1] \in flaws /\ Objection(guards) = guards[i][2]
      BY <1>2, ObjectionFound
    <2>3. /\ Tells(Objection(guards), guards[i][1])
          /\ Objection(guards).reason # "mock_location_detected"
          /\ Objection(guards).reason = "unauthenticated" => stage \in Before
      BY <2>2
    <2> QED
      BY <1>1, <2>1, <2>2, <2>3, UnderWayFacts, EndsWell
  <1>3. CASE Found(guards) = {}
    <2>1. at' = next /\ reply' = reply
      BY <1>3 DEF Check
    <2> QED
      BY <1>1, <2>1, UnderWayFacts, GoesOn
  <1> QED
    BY <1>2, <1>3

LEMMA ChecksKeep ==
    ASSUME VerdictInv,
           \/ Check("front", Gate, "liveness")
           \/ Check("standing", Standing, "pin")
           \/ Check("place", Place, "verify")
    PROVE  VerdictInv'
  <1>1. /\ {"front", "liveness", "standing", "pin", "place", "verify"}
               \subseteq VerdictStages \ Finished
        /\ {"front", "liveness", "standing", "pin"} \subseteq Before
        /\ "verify" \notin Before
    BY DEF VerdictStages, Finished, Before
  <1>2. CASE Check("front", Gate, "liveness")
    <2>1. DOMAIN Gate = 1..7 /\ 7 \in Nat
      BY DEF Gate
    <2> QED
      BY <1>1, <1>2, <2>1, GateTells, CheckKeeps
  <1>3. CASE Check("standing", Standing, "pin")
    <2>1. DOMAIN Standing = 1..3 /\ 3 \in Nat
      BY DEF Standing
    <2> QED
      BY <1>1, <1>3, <2>1, StandingTells, CheckKeeps
  <1>4. CASE Check("place", Place, "verify")
    <2>1. DOMAIN Place = 1..4 /\ 4 \in Nat
      BY DEF Place
    <2>2. \A i \in 1..4 : /\ Tells(Place[i][2], Place[i][1])
                          /\ Place[i][2].reason # "mock_location_detected"
                          /\ Place[i][2].reason # "unauthenticated"
      BY PlaceTells
    <2> QED
      BY <1>1, <1>4, <2>1, <2>2, CheckKeeps
  <1> QED
    BY <1>2, <1>3, <1>4

\* A call of the AI service: what it objects to ends the request.
LEMMA ObjectionEnds ==
    ASSUME VerdictInv, at \notin Finished, NEW n \in Nat, NEW guards, NEW answer,
           DOMAIN guards = 1..n, Found(guards) # {}, Answered(answer),
           flaws' = flaws, resent' = resent, entry' = entry, verdict' = verdict,
           compared' = compared, alerted' \in BOOLEAN,
           \A i \in 1..n : Objection(guards) = guards[i][2] =>
               \E code : ToldLate(answer, guards[i][1], code)
                         /\ (code \in SecurityEvents => alerted')
    PROVE  VerdictInv'
  <1>1. PICK i \in 1..n : guards[i][1] \in flaws /\ Objection(guards) = guards[i][2]
    BY ObjectionFound
  <1>2. PICK code : ToldLate(answer, guards[i][1], code) /\ (code \in SecurityEvents => alerted')
    BY <1>1
  <1>3. /\ Tells(answer, guards[i][1]) /\ answer.reason # "unauthenticated"
        /\ answer.reason = "mock_location_detected" => alerted'
    BY <1>2 DEF ToldLate
  <1> QED
    BY <1>1, <1>3, UnderWayFacts, EndsWell

LEMMA AskLivenessKeeps ==
    ASSUME VerdictInv, AskLiveness PROVE VerdictInv'
  <1>1. /\ at = "liveness" /\ flaws' = flaws /\ resent' = resent
        /\ compared' = compared /\ entry' = entry /\ alerted' = alerted /\ verdict' = verdict
    BY DEF AskLiveness, Ask
  <1>2. at \notin Finished /\ at \in Before
    BY <1>1 DEF Finished, Before
  <1>3. CASE Found(LivenessGuards) # {}
    <2>1. Answered(ServerError(Envelope(Objection(LivenessGuards))))
      BY <1>3 DEF AskLiveness, Ask
    <2>2. DOMAIN LivenessGuards = 1..3 /\ 3 \in Nat
      BY DEF LivenessGuards
    <2>3. ASSUME NEW i \in 1..3, Objection(LivenessGuards) = LivenessGuards[i][2]
          PROVE  ToldLate(ServerError(Envelope(Objection(LivenessGuards))),
                          LivenessGuards[i][1], "none")
      BY <2>3, LivenessTells
    <2>4. "none" \notin SecurityEvents
      BY DEF SecurityEvents
    <2> QED
      BY <1>1, <1>2, <1>3, <2>1, <2>2, <2>3, <2>4, UnderWayFacts, ObjectionEnds
  <1>4. CASE Found(LivenessGuards) = {}
    <2>1. at' = "standing" /\ reply' = reply
      BY <1>4 DEF AskLiveness, Ask
    <2>2. at' \in VerdictStages /\ at' \notin Finished
      BY <2>1 DEF VerdictStages, Finished
    <2> QED
      BY <1>1, <1>2, <2>1, <2>2, UnderWayFacts, GoesOn
  <1> QED
    BY <1>3, <1>4

LEMMA AskPinKeeps ==
    ASSUME VerdictInv, AskPin PROVE VerdictInv'
  <1>1. /\ at = "pin" /\ flaws' = flaws /\ resent' = resent
        /\ entry' = entry /\ alerted' = alerted /\ verdict' = verdict
    BY DEF AskPin, Ask
  <1>2. at \notin Finished /\ at \in Before
    BY <1>1 DEF Finished, Before
  <1>3. compared = 0
    BY <1>2 DEF VerdictInv
  <1>4. CASE Found(PinGuards) # {}
    <2>1. Answered(PinError(Envelope(Objection(PinGuards))))
      BY <1>4 DEF AskPin, Ask
    <2>2. compared' = compared
      <3>1. compared' = compared + 0
        BY <1>4, Zenon DEF AskPin
      <3> QED
        BY <1>3, <3>1
    <2>3. DOMAIN PinGuards = 1..1 /\ 1 \in Nat
      BY DEF PinGuards
    <2>4. ASSUME NEW i \in 1..1, Objection(PinGuards) = PinGuards[i][2]
          PROVE  ToldLate(PinError(Envelope(Objection(PinGuards))), PinGuards[i][1], "none")
      BY <2>4, PinTells
    <2>5. "none" \notin SecurityEvents
      BY DEF SecurityEvents
    <2> QED
      BY <1>1, <1>2, <1>4, <2>1, <2>2, <2>3, <2>4, <2>5, UnderWayFacts, ObjectionEnds
  <1>5. CASE Found(PinGuards) = {}
    <2>1. at' = "place" /\ reply' = reply
      BY <1>5 DEF AskPin, Ask
    <2>2. compared' \in 0..1
      <3>1. compared' = compared + 1
        BY <1>5, Zenon DEF AskPin
      <3> QED
        BY <1>3, <3>1
    <2>3. at' \in VerdictStages /\ at' \notin Finished /\ at' \notin Before
      BY <2>1 DEF VerdictStages, Finished, Before
    <2> QED
      BY <1>1, <1>2, <2>1, <2>2, <2>3, UnderWayFacts, GoesOn
  <1> QED
    BY <1>4, <1>5

LEMMA AskVerifyKeeps ==
    ASSUME VerdictInv, AskVerify PROVE VerdictInv'
  <1>1. /\ at = "verify" /\ flaws' = flaws /\ resent' = resent /\ compared' = compared
        /\ entry' = entry /\ verdict' = verdict
    BY DEF AskVerify, Ask
  <1>2. at \notin Finished /\ at \notin Before
    BY <1>1 DEF Finished, Before
  <1>3. /\ alerted' = (alerted \/ (Found(VerifyGuards) # {}
                                   /\ Objection(VerifyGuards) \in SecurityEvents))
        /\ alerted' \in BOOLEAN
    BY DEF AskVerify
  <1>4. CASE Found(VerifyGuards) # {}
    <2>1. Answered(VerifyError(Envelope(Objection(VerifyGuards))))
      BY <1>4 DEF AskVerify, Ask
    <2>2. DOMAIN VerifyGuards = 1..15 /\ 15 \in Nat
      BY DEF VerifyGuards
    <2>3. ASSUME NEW i \in 1..15, Objection(VerifyGuards) = VerifyGuards[i][2]
          PROVE  ToldLate(VerifyError(Envelope(Objection(VerifyGuards))),
                          VerifyGuards[i][1], Objection(VerifyGuards))
      BY <2>3, VerifyTells
    <2>4. Objection(VerifyGuards) \in SecurityEvents => alerted'
      BY <1>3, <1>4, Zenon
    <2> QED
      BY <1>1, <1>2, <1>3, <1>4, <2>1, <2>2, <2>3, <2>4, ObjectionEnds
  <1>5. CASE Found(VerifyGuards) = {}
    <2>1. at' = "score" /\ reply' = reply
      BY <1>5 DEF AskVerify, Ask
    <2>2. at' \in VerdictStages /\ at' \notin Finished /\ at' \notin Before
      BY <2>1 DEF VerdictStages, Finished, Before
    <2> QED
      BY <1>1, <1>2, <1>3, <2>1, <2>2, UnderWayFacts, GoesOn
  <1> QED
    BY <1>4, <1>5

LEMMA DecideKeeps ==
    ASSUME VerdictInv, Decide PROVE VerdictInv'
  <1>1. /\ at = "score" /\ flaws' = flaws /\ resent' = resent /\ compared' = compared
        /\ alerted' = alerted /\ verdict' = verdict
    BY DEF Decide
  <1>2. at \notin Finished /\ at \notin Before
    BY <1>1 DEF Finished, Before
  <1>3. Found(Score) # {} =>
          \/ Objection(Score) = "NO_MATCH" /\ "other_face" \in flaws
          \/ Objection(Score) = "LOW_CONFIDENCE" /\ "half_match" \in flaws
    <2>1. DOMAIN Score = 1..2 /\ 2 \in Nat
      BY DEF Score
    <2>2. ASSUME Found(Score) # {}
          PROVE  \E i \in 1..2 : Score[i][1] \in flaws /\ Objection(Score) = Score[i][2]
      BY <2>1, <2>2, ObjectionFound
    <2>3. /\ Score[1][1] = "other_face" /\ Score[1][2] = "NO_MATCH"
          /\ Score[2][1] = "half_match" /\ Score[2][2] = "LOW_CONFIDENCE"
      BY DEF Score
    <2>4. \A i \in 1..2 : i = 1 \/ i = 2
      OBVIOUS
    <2> QED
      BY <2>2, <2>3, <2>4, Zenon
  <1>4. CASE Found(Score) # {} /\ Objection(Score) = "NO_MATCH"
    <2>1. Answered(Reply(HttpStatus("NO_MATCH"), "low_face_match")) /\ entry' = entry
      BY <1>4 DEF Decide
    <2>2. HttpStatus("NO_MATCH") = 200
      BY DEF HttpStatus
    <2>3. Refusal(200) /\ "low_face_match" \in Reasons
      <3>1. Refusal(200)
        BY HttpCodes
      <3>2. "low_face_match" \in Reasons
        BY DEF Reasons
      <3> QED
        BY <3>1, <3>2
    <2>4. RejectionTitle("low_face_match") \in TitlesFor("other_face")
      BY DEF RejectionTitle, TitlesFor, Misworded
    <2>5. Tells(Reply(200, "low_face_match"), "other_face")
      BY <2>3, <2>4, RejectionTells, Zenon
    <2>6. /\ Reply(200, "low_face_match").reason # "mock_location_detected"
          /\ Reply(200, "low_face_match").reason # "unauthenticated"
      <3>1. Reply(200, "low_face_match").reason = "low_face_match"
        BY DEF Reply
      <3> QED
        BY <3>1
    <2>7. "other_face" \in flaws
      BY <1>3, <1>4
    <2>8. PICK answer : answer = Reply(200, "low_face_match")
      OBVIOUS
    <2>9. Answered(answer) /\ Tells(answer, "other_face")
      BY <2>1, <2>2, <2>5, <2>8, Zenon
    <2>10. answer.reason # "mock_location_detected" /\ answer.reason # "unauthenticated"
      BY <2>6, <2>8
    <2> QED
      BY <1>1, <1>2, <2>1, <2>7, <2>9, <2>10, UnderWayFacts, EndsWell
  <1>5. CASE ~(Found(Score) # {} /\ Objection(Score) = "NO_MATCH")
    <2>1. PICK decision \in {"approved", "flagged"} :
            /\ entry' = decision /\ Answered(Accepted(decision))
            /\ decision = "flagged" => "half_match" \in flaws
      <3>1. CASE Found(Score) = {}
        <4>1. entry' = "approved" /\ Answered(Accepted("approved"))
          BY <3>1 DEF Decide
        <4> QED
          BY <4>1
      <3>2. CASE Found(Score) # {}
        <4>1. Objection(Score) = "LOW_CONFIDENCE" /\ "half_match" \in flaws
          BY <1>3, <1>5, <3>2
        <4>2. entry' = "flagged" /\ Answered(Accepted("flagged"))
          BY <3>2, <4>1 DEF Decide
        <4> QED
          BY <4>1, <4>2
      <3> QED
        BY <3>1, <3>2
    <2>2. at' = "answered" /\ reply' = Accepted(decision)
      BY <2>1 DEF Answered
    <2>3. reply' \in AnswersGiven
      BY <2>2, AcceptedTyped
    <2>4. reply'.reason = "none" /\ reply'.status = decision
      BY <2>2, SaidOfEntries
    <2>5. at' \in VerdictStages /\ at' \in Finished /\ at' \notin Before /\ at' # "shown"
      BY <2>2 DEF VerdictStages, Finished, Before
    <2>6. VerdictTypeOK'
      BY <1>1, <2>1, <2>3, <2>5 DEF VerdictInv, VerdictTypeOK, AnswersGiven
    <2>7. ReplyHolds'
      <3>1. Accepted(entry)' = Accepted(decision)
        BY <2>1 DEF Accepted
      <3> QED
        BY <1>1, <2>1, <2>2, <2>4, <3>1 DEF ReplyHolds
    <2>8. verdict' = NotShown
      BY <1>1, <1>2, UnderWayFacts
    <2> QED
      BY <1>1, <2>5, <2>6, <2>7, <2>8, UnderWayFacts DEF VerdictInv
  <1> QED
    BY <1>4, <1>5

\* What fails for reasons of its own is told as such.
LEMMA OutageTells ==
    /\ Tells(NoReply, "outage") /\ NoReply.status = "none" /\ NoReply.reason = "none"
    /\ \A http \in {500, 502} :
         /\ Tells(Reply(http, "server_error"), "outage")
         /\ Reply(http, "server_error").status = "error"
         /\ Reply(http, "server_error").reason = "server_error"
  <1>1. Tells(NoReply, "outage") /\ NoReply.status = "none" /\ NoReply.reason = "none"
    <2>1. 0 \in Nat /\ ~(0 = 401)
      OBVIOUS
    <2>2. PICK answer : answer = NoReply
      OBVIOUS
    <2>3. /\ answer.status = "none" /\ answer.reason = "none"
          /\ answer = [http |-> answer.http, status |-> answer.status, reason |-> answer.reason]
      BY <2>2 DEF NoReply
    <2>4. answer.http = 0
      BY <2>2 DEF NoReply
    <2>5. Interpretation(answer) = Failed("Couldn't reach the server")
      BY <2>2, Zenon DEF Interpretation
    <2>6. "Couldn't reach the server" \in TitlesFor("outage") /\ "none" \in Reasons
      BY DEF TitlesFor, Misworded, Reasons
    <2>7. \A title : Failed(title).title = title
      BY DEF Failed
    <2>8. Interpretation(answer).title \in TitlesFor("outage")
      BY <2>5, <2>6, <2>7, Zenon
    <2>9. answer.status \in {"none", "rejected", "error"} /\ answer.reason \in Reasons
      BY <2>3, <2>6
    <2>10. answer.http \in Nat /\ ~(answer.http = 401)
      BY <2>1, <2>4
    <2>11. Tells(answer, "outage")
      BY <2>3, <2>8, <2>9, <2>10, Zenon DEF Tells
    <2> QED
      BY <2>2, <2>3, <2>11
  <1>2. ASSUME NEW http \in {500, 502}
        PROVE  /\ Tells(Reply(http, "server_error"), "outage")
               /\ Reply(http, "server_error").status = "error"
               /\ Reply(http, "server_error").reason = "server_error"
    <2>1. Failure(http)
      BY HttpCodes
    <2>2. TellsError("outage") /\ "server_error" \in Reasons
      BY DEF TellsError, TitlesFor, Misworded, Reasons
    <2>3. Reply(http, "server_error") =
            [http |-> http, status |-> "error", reason |-> "server_error"]
      BY <2>1, ReplyShape
    <2>4. Tells(Reply(http, "server_error"), "outage")
      BY <2>1, <2>2, ErrorTells, Zenon
    <2> QED
      BY <2>3, <2>4
  <1> QED
    BY <1>1, <1>2

\* An error without a reason of its own is the server's, wherever it comes up.
LEMMA OutageErrors ==
    ASSUME NEW err \in {Bare, Unanswered, Envelope("INTERNAL")}
    PROVE  /\ ServerError(err) = Reply(502, "server_error")
           /\ PinError(err) = Reply(502, "server_error")
           /\ VerifyError(err) = Reply(502, "server_error")
  <1>1. ServerError(err) = Reply(502, "server_error")
    <2>1. "INTERNAL" \in Retryable
      BY DEF Retryable
    <2>2. ServerError(Envelope("INTERNAL")) = Reply(502, "server_error")
      BY <2>1, EnvelopeOf, RetryableErrors, Zenon
    <2> QED
      BY <2>2, ServerErrors
  <1>2. err.code \in {"INTERNAL", "UPSTREAM_STORAGE_ERROR"}
    <2>1. Bare.code = "INTERNAL" /\ Unanswered.code = "UPSTREAM_STORAGE_ERROR"
      BY DEF Bare, Unanswered
    <2>2. Envelope("INTERNAL").code = "INTERNAL"
      BY EnvelopeOf
    <2> QED
      BY <2>1, <2>2
  <1>3. err.code \notin Reported /\ err.code # "RATE_LIMITED"
    BY <1>2 DEF Reported
  <1> QED
    BY <1>1, <1>3, VerifyErrors

LEMMA ServiceOutageKeeps ==
    ASSUME VerdictInv, ServiceOutage PROVE VerdictInv'
  <1>1. /\ at \in {"liveness", "pin", "verify", "score", "standing", "place"}
        /\ flaws' = flaws \cup {"outage"} /\ resent' = resent /\ compared' = compared
        /\ entry' = entry /\ alerted' = alerted /\ verdict' = verdict
    BY DEF ServiceOutage
  <1>2. at \notin Finished
    BY <1>1 DEF Finished
  <1>3. PICK http \in {500, 502} : Answered(Reply(http, "server_error"))
    <2>1. CASE at \in {"standing", "place"}
      <3>1. Answered(Reply(500, "server_error"))
        BY <2>1 DEF ServiceOutage
      <3> QED
        BY <3>1
    <2>2. CASE at \in {"liveness", "pin", "verify", "score"}
      <3>1. PICK err \in {Bare, Unanswered, Envelope("INTERNAL")} :
              Answered(IF at = "pin" THEN PinError(err)
                       ELSE IF at = "liveness" THEN ServerError(err) ELSE VerifyError(err))
        BY <2>2 DEF ServiceOutage
      <3>2. Answered(Reply(502, "server_error"))
        BY <3>1, OutageErrors
      <3> QED
        BY <3>2
    <2> QED
      BY <1>1, <2>1, <2>2
  <1>4. PICK answer : answer = Reply(http, "server_error")
    OBVIOUS
  <1>5. /\ Tells(answer, "outage") /\ answer.reason # "mock_location_detected"
        /\ answer.reason # "unauthenticated"
    BY <1>4, OutageTells
  <1>6. Answered(answer) /\ "outage" \in flaws' /\ flaws' \subseteq Flaws \cup {"outage"}
    BY <1>1, <1>3, <1>4, UnderWayFacts
  <1> QED
    BY <1>1, <1>2, <1>5, <1>6, UnderWayFacts, EndsWell

\* The answer is replaced by one that tells of an outage.
LEMMA ReplacedHolds ==
    ASSUME VerdictInv, at = "answered", at' = at, flaws' = flaws \cup {"outage"},
           reply' = NoReply \/ \E http \in {500, 502} : reply' = Reply(http, "server_error"),
           resent' \in BOOLEAN, compared' = compared, entry' = entry, alerted' = alerted,
           verdict' = verdict
    PROVE  VerdictInv'
  <1>1. PICK answer : answer = reply'
    OBVIOUS
  <1>2. /\ Tells(answer, "outage") /\ answer.status # "rejected"
        /\ answer.reason # "mock_location_detected" /\ answer.reason # "unauthenticated"
    BY <1>1, OutageTells
  <1>3. reply' \in AnswersGiven
    BY <1>1, <1>2, TellsTyped
  <1>4. "outage" \in flaws' /\ flaws' \subseteq Flaws \cup {"outage"}
    BY UnderWayFacts
  <1>5. VerdictTypeOK'
    BY <1>3, <1>4 DEF VerdictInv, VerdictTypeOK, AnswersGiven
  <1>6. ReplyHolds'
    <2>1. \E flaw \in flaws' : Tells(reply, flaw)'
      BY <1>1, <1>2, <1>4
    <2> QED
      BY <1>1, <1>2, <2>1 DEF ReplyHolds
  <1>7. at' \in Finished /\ at' \notin Before /\ at' # "shown"
    BY DEF Finished, Before
  <1> QED
    BY <1>5, <1>6, <1>7 DEF VerdictInv

LEMMA AnswerLostKeeps ==
    ASSUME VerdictInv, AnswerLost PROVE VerdictInv'
  <1>1. /\ at = "answered" /\ at' = at /\ flaws' = flaws \cup {"outage"} /\ resent' = resent
        /\ compared' = compared /\ entry' = entry /\ alerted' = alerted /\ verdict' = verdict
        /\ reply' = NoReply \/ reply' = Reply(500, "server_error")
    BY DEF AnswerLost
  <1> QED
    BY <1>1, UnderWayFacts, ReplacedHolds

\* An answer that the session has ended is a rejection, with nothing recorded.
LEMMA EndedIsRejected ==
    ASSUME VerdictInv, at \in Finished, reply.http = 401, reply.reason = "unauthenticated"
    PROVE  /\ entry = "none" /\ compared = 0 /\ reply = Reply(401, "unauthenticated")
           /\ \E flaw \in flaws : Tells(reply, flaw)
  <1>1. ReplyHolds
    BY DEF VerdictInv
  <1>2. \A decision \in {"approved", "flagged"} : reply # Accepted(decision)
    BY SaidOfEntries
  <1>3. PICK flaw \in flaws : Tells(reply, flaw)
    BY <1>1, <1>2 DEF ReplyHolds
  <1>4. reply.status = "rejected"
    BY <1>3 DEF Tells
  <1>5. reply = [http |-> 401, status |-> "rejected", reason |-> "unauthenticated"]
    BY <1>3, <1>4, Zenon DEF Tells
  <1>6. Reply(401, "unauthenticated") =
          [http |-> 401, status |-> "rejected", reason |-> "unauthenticated"]
    BY HttpCodes, ReplyShape
  <1>7. entry = "none" /\ compared = 0
    BY <1>1, <1>2, <1>4 DEF ReplyHolds
  <1> QED
    BY <1>3, <1>5, <1>6, <1>7

LEMMA ResendKeeps ==
    ASSUME VerdictInv, Resend PROVE VerdictInv'
  <1>1. /\ at = "answered" /\ at' = "front" /\ resent' = TRUE /\ reply' = NoReply
        /\ flaws' = flaws \ {"expired"} /\ compared' = compared /\ entry' = entry
        /\ alerted' = alerted /\ verdict' = verdict
        /\ reply.http = 401 /\ reply.reason = "unauthenticated"
    BY DEF Resend, SessionEnded
  <1>2. at \in Finished /\ at' \in VerdictStages /\ at' \notin Finished
    BY <1>1 DEF VerdictStages, Finished
  <1>3. entry = "none" /\ compared = 0
    BY <1>1, <1>2, EndedIsRejected
  <1>4. verdict = NotShown
    BY <1>1 DEF VerdictInv
  <1>5. reply' \in AnswersGiven
    BY <1>1, OutageTells, TellsTyped
  <1>6. flaws' \subseteq Flaws \cup {"outage"}
    BY <1>1, UnderWayFacts
  <1> QED
    BY <1>1, <1>2, <1>3, <1>4, <1>5, <1>6, UnderWayFacts, GoesOn

LEMMA RefreshRefusedKeeps ==
    ASSUME VerdictInv, RefreshRefused PROVE VerdictInv'
  <1>1. /\ at = "answered" /\ at' = at /\ resent' = TRUE
        /\ compared' = compared /\ entry' = entry /\ alerted' = alerted /\ verdict' = verdict
        /\ reply.http = 401 /\ reply.reason = "unauthenticated"
    BY DEF RefreshRefused, SessionEnded
  <1>2. CASE reply' = Reply(401, "unauthenticated") /\ flaws' = flaws
    <2>1. at \in Finished
      BY <1>1 DEF Finished
    <2>2. reply' = reply
      BY <1>1, <1>2, <2>1, EndedIsRejected
    <2>3. VerdictTypeOK'
      BY <1>1, <1>2, <2>2 DEF VerdictInv, VerdictTypeOK
    <2>4. ReplyHolds'
      <3>1. ReplyHolds /\ entry = "none"
        BY <1>1, <2>1, EndedIsRejected DEF VerdictInv
      <3>2. \E flaw \in flaws' : Tells(reply, flaw)'
        BY <1>1, <1>2, <2>1, <2>2, EndedIsRejected
      <3> QED
        BY <1>1, <2>2, <3>1, <3>2 DEF ReplyHolds
    <2> QED
      BY <1>1, <2>1, <2>3, <2>4 DEF VerdictInv
  <1>3. CASE reply' \in {Reply(500, "server_error"), NoReply} /\ flaws' = flaws \cup {"outage"}
    BY <1>1, <1>3, ReplacedHolds
  <1> QED
    BY <1>2, <1>3 DEF RefreshRefused

LEMMA ShowVerdictKeeps ==
    ASSUME VerdictInv, ShowVerdict PROVE VerdictInv'
  <1>1. /\ at = "answered" /\ at' = "shown" /\ verdict' = Interpretation(reply)
        /\ flaws' = flaws /\ resent' = resent /\ compared' = compared /\ entry' = entry
        /\ alerted' = alerted /\ reply' = reply
    BY DEF ShowVerdict
  <1>2. at \in Finished /\ at' \in VerdictStages /\ at' \in Finished /\ at' \notin Before
    BY <1>1 DEF VerdictStages, Finished, Before
  <1>3. ReplyHolds
    BY <1>2 DEF VerdictInv
  <1>4. Interpretation(reply) \in Spoken
    <2>1. CASE \E flaw \in flaws : Tells(reply, flaw)
      <3>1. PICK flaw \in flaws : Tells(reply, flaw)
        BY <2>1
      <3>2. Interpretation(reply).kind \in {"none", "success", "review", "rejected", "error"}
        BY <3>1, SaidOfFlaws
      <3>3. /\ Interpretation(reply).title \in Titles
            /\ Interpretation(reply) = [kind |-> Interpretation(reply).kind,
                                        title |-> Interpretation(reply).title]
        BY <3>1, SaidOfFlaws
      <3>4. \A k \in {"none", "success", "review", "rejected", "error"}, t \in Titles :
               [kind |-> k, title |-> t] \in Spoken
        BY DEF Spoken
      <3> QED
        BY <3>2, <3>3, <3>4, Zenon
    <2>2. CASE entry \in {"approved", "flagged"} /\ reply = Accepted(entry)
      <3>1. Interpretation(reply) =
              IF entry = "approved" THEN [kind |-> "success", title |-> "Checked in"]
              ELSE [kind |-> "review", title |-> "Sent for HR review"]
        BY <2>2, SaidOfEntries
      <3>2. /\ [kind |-> "success", title |-> "Checked in"] \in Spoken
            /\ [kind |-> "review", title |-> "Sent for HR review"] \in Spoken
        BY DEF Spoken, Titles
      <3> QED
        BY <3>1, <3>2, Zenon
    <2> QED
      BY <1>3, <2>1, <2>2 DEF ReplyHolds
  <1>5. VerdictTypeOK'
    BY <1>1, <1>2, <1>4 DEF VerdictInv, VerdictTypeOK, Spoken
  <1>6. ReplyHolds'
    <2>1. \A flaw : Tells(reply, flaw) => Tells(reply, flaw)'
      BY <1>1
    <2>2. Accepted(entry)' = Accepted(entry)
      BY <1>1 DEF Accepted
    <2> QED
      BY <1>1, <1>3, <2>1, <2>2 DEF ReplyHolds
  <1>7. Interpretation(reply)' = Interpretation(reply)
    BY <1>1
  <1> QED
    BY <1>1, <1>2, <1>5, <1>6, <1>7 DEF VerdictInv

LEMMA VerdictSpecInv == VerdictSpec => []VerdictInv
  <1>1. VerdictInv /\ [VerdictNext]_verdictVars => VerdictInv'
    <2> SUFFICES ASSUME VerdictInv, [VerdictNext]_verdictVars PROVE VerdictInv'
      OBVIOUS
    <2>1. CASE UNCHANGED verdictVars
      <3>1. /\ flaws' = flaws /\ at' = at /\ resent' = resent /\ compared' = compared
            /\ entry' = entry /\ alerted' = alerted /\ reply' = reply /\ verdict' = verdict
        BY <2>1 DEF verdictVars
      <3>2. ReplyHolds => ReplyHolds'
        <4>1. \A flaw : Tells(reply, flaw) => Tells(reply, flaw)'
          BY <3>1
        <4>2. Accepted(entry)' = Accepted(entry)
          BY <3>1 DEF Accepted
        <4> QED
          BY <3>1, <4>1, <4>2 DEF ReplyHolds
      <3>3. Interpretation(reply)' = Interpretation(reply)
        BY <3>1
      <3>4. VerdictTypeOK'
        BY <3>1 DEF VerdictInv, VerdictTypeOK
      <3> QED
        BY <3>1, <3>2, <3>3, <3>4 DEF VerdictInv
    <2>2. CASE VerdictNext
      BY <2>2, SendKeeps, ChecksKeep, AskLivenessKeeps, AskPinKeeps, AskVerifyKeeps, DecideKeeps,
         ServiceOutageKeeps, AnswerLostKeeps, ResendKeeps, RefreshRefusedKeeps, ShowVerdictKeeps
         DEF VerdictNext
    <2> QED
      BY <2>1, <2>2
  <1> QED
    BY VerdictStarts, <1>1, PTL DEF VerdictSpec

LEMMA VerdictInvFair == VerdictInv => VerdictsFair
  <1> SUFFICES ASSUME VerdictInv PROVE VerdictsFair
    OBVIOUS
  <1>1. ComparedOnce
    <2>1. compared \in 0..1
      BY DEF VerdictInv
    <2> QED
      BY <2>1 DEF ComparedOnce
  <1>2. CASE at # "shown"
    <2>1. verdict.kind = "none" /\ verdict.title = "none"
      BY <1>2 DEF VerdictInv, NotShown
    <2> QED
      BY <1>1, <2>1 DEF VerdictsFair, ToldWhatIsWrong, ToldWhatIsRecorded, NotifiedIsSo
  <1>3. CASE at = "shown"
    <2>1. ReplyHolds /\ verdict = Interpretation(reply)
      BY <1>3 DEF VerdictInv, Finished
    <2>2. CASE entry \in {"approved", "flagged"} /\ reply = Accepted(entry)
               /\ (entry = "flagged" => "half_match" \in flaws)
      <3>1. verdict = IF entry = "approved" THEN [kind |-> "success", title |-> "Checked in"]
                      ELSE [kind |-> "review", title |-> "Sent for HR review"]
        BY <2>1, <2>2, SaidOfEntries
      <3>2. CASE entry = "approved"
        <4>1. verdict.kind = "success" /\ verdict.title = "Checked in"
          BY <3>1, <3>2
        <4> QED
          BY <1>1, <3>2, <4>1
             DEF VerdictsFair, ToldWhatIsWrong, ToldWhatIsRecorded, NotifiedIsSo
      <3>3. CASE entry = "flagged"
        <4>1. verdict.kind = "review" /\ verdict.title = "Sent for HR review"
          BY <3>1, <3>3
        <4>2. "Sent for HR review" \in TitlesFor("half_match") /\ "half_match" \in flaws
          BY <2>2, <3>3 DEF TitlesFor, Misworded
        <4> QED
          BY <1>1, <3>3, <4>1, <4>2
             DEF VerdictsFair, ToldWhatIsWrong, ToldWhatIsRecorded, NotifiedIsSo
      <3> QED
        BY <2>2, <3>2, <3>3
    <2>3. CASE (\E flaw \in flaws : Tells(reply, flaw))
               /\ (entry # "none" => reply.status # "rejected")
      <3>1. PICK flaw \in flaws : Tells(reply, flaw)
        BY <2>3
      <3>2. verdict.title \in TitlesFor(flaw)
        BY <2>1, <3>1 DEF Tells
      <3>3. /\ verdict.kind \in {"rejected", "error"}
            /\ verdict.kind = "rejected" => reply.status = "rejected"
            /\ verdict.title = "Mock location detected" =>
                 reply.reason = "mock_location_detected"
        BY <2>1, <3>1, SaidOfFlaws
      <3>4. ToldWhatIsWrong
        BY <3>1, <3>2 DEF ToldWhatIsWrong
      <3>5. ToldWhatIsRecorded
        BY <2>3, <3>3 DEF ToldWhatIsRecorded
      <3>6. NotifiedIsSo
        BY <2>1, <3>3 DEF NotifiedIsSo, ReplyHolds
      <3> QED
        BY <1>1, <3>4, <3>5, <3>6 DEF VerdictsFair
    <2> QED
      BY <2>1, <2>2, <2>3 DEF ReplyHolds
  <1> QED
    BY <1>2, <1>3

\* An attempt, its answer and its wording stay typed (VerdictTypeOK).
THEOREM VerdictsTyped == VerdictSpec => []VerdictTypeOK
  <1>1. VerdictInv => VerdictTypeOK
    BY DEF VerdictInv
  <1> QED
    BY VerdictSpecInv, <1>1, PTL

\* Whatever is wrong, fails or is repeated on the way, the employee is told one
\* of the things that are wrong, what was recorded, and at the cost of one PIN
\* attempt (pnsmAiClient.ts, attendanceService.ts, http.js, api.js).
THEOREM VerdictsAreFair == VerdictSpec => []VerdictsFair
  BY VerdictSpecInv, VerdictInvFair, PTL
=============================================================================
