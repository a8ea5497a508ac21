------------------------ MODULE ConsoleSessionProofs ------------------------
(***************************************************************************)
(* Proofs about ConsoleSession for every number of concurrent API calls,   *)
(* tokens and reloads.                                                     *)
(***************************************************************************)
EXTENDS ConsoleSession, TLAPS

\* A refresh the interceptor sent belongs to the call that leads.
RefreshOwned == \A c \in Calls : asked[c] # "no" => call[c] = "refreshing"

\* While the page boots nothing else runs: no page's call, no sign-in and no
\* sign-out; and the profile is asked for only after the boot refresh, with
\* the token it brought still in memory unless a new one is being fetched.
BootAlone ==
    /\ status = "loading" => ~signIn /\ ~signOut /\ \A c \in Requests : call[c] = "idle"
    /\ asked[Boot] # "no" => status = "loading" /\ call[Me] = "idle"
    /\ call[Me] # "idle" => status = "loading"
    /\ call[Me] \in {"sent", "leading", "replaying"} => accessToken # 0

\* The inductive invariant.  Neither OneRefresh nor AuthenticatedHasToken is
\* inductive alone: the first needs to know whose refresh is answered, the
\* second that nothing drops the boot's token before its profile arrives.
IInv ==
    /\ TypeOK
    /\ OneRefresh
    /\ AuthenticatedHasToken
    /\ RefreshOwned
    /\ BootAlone

USE NamesAssumption, BoundsAssumption

-----------------------------------------------------------------------------
\* The calls and their tokens keep their types when a refresh is answered.
LEMMA ReleaseTypes ==
    ASSUME TypeOK, NEW c \in Calls, issued' = issued + 1, Release(c)
    PROVE  /\ call' \in [Calls -> Progress]
           /\ bearer' \in [Calls -> 0..issued']
           /\ retried' = retried
<1>1. issued \in Nat /\ call \in [Calls -> Progress] /\ bearer \in [Calls -> 0..issued]
  BY DEF TypeOK
<1>. QED  BY <1>1 DEF Release, Progress

\* The calls and the token keep their types when the session expires.
LEMMA ExpiredTypes ==
    ASSUME TypeOK, NEW c \in Calls, SessionExpired(c)
    PROVE  /\ call' \in [Calls -> Progress]
           /\ accessToken' \in 0..issued
           /\ isRefreshing' \in BOOLEAN
           /\ status' \in {"loading", "authenticated", "anonymous"}
<1>1. issued \in Nat /\ call \in [Calls -> Progress] /\ "idle" \in Progress
  BY DEF TypeOK, Progress
<1>2. call' = [d \in Calls |-> IF d = c \/ call[d] = "parked" THEN "idle" ELSE call[d]]
  BY DEF SessionExpired
<1>3. call' \in [Calls -> Progress]
  BY <1>1, <1>2
<1>4. accessToken' = 0 /\ isRefreshing' = FALSE /\ status' = "anonymous" /\ 0 \in 0..issued
  BY <1>1 DEF SessionExpired
<1>. QED  BY <1>3, <1>4

\* Every step keeps the types.
LEMMA TypeStep == TypeOK /\ [Next]_vars => TypeOK'
<1> SUFFICES ASSUME TypeOK, [Next]_vars  PROVE TypeOK'
  OBVIOUS
<1> USE DEF TypeOK, Progress
<1>r. Boot \in Refreshers /\ Socket \in Refreshers /\ Me \in Calls /\ Calls \subseteq Refreshers
  BY DEF Refreshers, Calls
<1>z. 0 \in 0..issued
  OBVIOUS
<1>1. ASSUME NEW c \in Calls, Send(c)  PROVE TypeOK'
  BY <1>1 DEF Send
<1>2. ASSUME NEW c \in Calls, Answered(c)  PROVE TypeOK'
  BY <1>2 DEF Answered
<1>3. ASSUME NEW c \in Calls, Fails(c)  PROVE TypeOK'
  BY <1>3, <1>z DEF Fails
<1>4. ASSUME NEW c \in Calls, Unauthorized(c)  PROVE TypeOK'
  BY <1>4, <1>r DEF Unauthorized, Carrying
<1>5. ASSUME NEW c \in Calls, ReplayFails(c)  PROVE TypeOK'
  <2>1. SessionExpired(c)
    BY <1>5 DEF ReplayFails
  <2>. QED  BY <1>5, <2>1, ExpiredTypes DEF ReplayFails
<1>6. ASSUME NEW x \in Refreshers, RefreshGranted(x)  PROVE TypeOK'
  <2>1. /\ issued' = issued + 1 /\ issued' \in Nat /\ accessToken' \in 0..issued'
        /\ expired' \in 0..issued' /\ 0..issued \subseteq 0..issued'
        /\ asked' \in [Refreshers -> {"no", "bare", "carrying"}] /\ cookie' = TRUE
        /\ UNCHANGED <<status, isRefreshing, signIn, signOut, reloads>>
    BY <1>6 DEF RefreshGranted
  <2>2. /\ call' \in [Calls -> Progress]
        /\ bearer' \in [Calls -> 0..issued']
        /\ retried' \in [Calls -> BOOLEAN]
    <3>1. CASE x \in Calls /\ Release(x)
      BY <2>1, <3>1, ReleaseTypes
    <3>2. CASE /\ call' = [call EXCEPT ![Me] = "sent"]
               /\ bearer' = [bearer EXCEPT ![Me] = issued + 1]
               /\ retried' = [retried EXCEPT ![Me] = FALSE]
      BY <1>r, <2>1, <3>2
    <3>3. CASE UNCHANGED <<call, bearer, retried>>
      BY <2>1, <3>3
    <3>. QED  BY <1>6, <3>1, <3>2, <3>3 DEF RefreshGranted
  <2>. QED  BY <2>1, <2>2
<1>7. ASSUME NEW x \in Refreshers, RefreshRefused(x)  PROVE TypeOK'
  <2>1. /\ asked' \in [Refreshers -> {"no", "bare", "carrying"}]
        /\ UNCHANGED <<cookie, issued, expired, bearer, retried, signIn, signOut, reloads>>
    BY <1>7 DEF RefreshRefused
  <2>2. CASE x \in Calls /\ SessionExpired(x)
    BY <2>1, <2>2, ExpiredTypes
  <2>3. CASE accessToken' = 0 /\ status' = "anonymous" /\ UNCHANGED <<call, isRefreshing>>
    BY <1>z, <2>1, <2>3
  <2>4. CASE UNCHANGED <<accessToken, status, call, isRefreshing>>
    BY <2>1, <2>4
  <2>. QED  BY <1>7, <2>2, <2>3, <2>4 DEF RefreshRefused
<1>8. CASE SocketRefused
  BY <1>8, <1>r DEF SocketRefused, Carrying
<1>9. CASE SignIn \/ SignOut
  BY <1>9 DEF SignIn, SignOut
<1>10. CASE SignInAnswered
  <2>1. /\ UNCHANGED <<expired, isRefreshing, call, bearer, retried, asked, signOut, reloads>>
        /\ signIn' = FALSE
    BY <1>10 DEF SignInAnswered
  <2>2. /\ issued' \in Nat /\ accessToken' \in 0..issued' /\ cookie' \in BOOLEAN
        /\ status' \in {"loading", "authenticated", "anonymous"}
        /\ 0..issued \subseteq 0..issued'
    <3>1. CASE /\ issued' = issued + 1 /\ accessToken' = issued + 1
               /\ cookie' = TRUE /\ status' = "authenticated"
      BY <3>1
    <3>2. CASE cookie' \in {TRUE, cookie} /\ UNCHANGED <<issued, accessToken, status>>
      BY <3>2
    <3>. QED  BY <1>10, <3>1, <3>2 DEF SignInAnswered
  <2>3. expired' \in 0..issued' /\ bearer' \in [Calls -> 0..issued']
    BY <2>1, <2>2
  <2>. QED  BY <2>1, <2>2, <2>3
<1>11. CASE SignOutAnswered
  BY <1>11, <1>z DEF SignOutAnswered
<1>12. CASE Expire
  BY <1>12 DEF Expire
<1>13. CASE Reload
  <2>1. /\ call' \in [Calls -> Progress] /\ retried' \in [Calls -> BOOLEAN]
        /\ asked' \in [Refreshers -> {"no", "bare", "carrying"}]
        /\ reloads' \in 0..MaxReloads
    BY <1>13 DEF Reload, Carrying
  <2>2. bearer' \in [Calls -> 0..issued]
    BY <1>13, <1>z DEF Reload
  <2>. QED  BY <1>13, <1>z, <2>1, <2>2 DEF Reload
<1>14. CASE UNCHANGED vars
  BY <1>14 DEF vars
<1>. QED  BY <1>1, <1>2, <1>3, <1>4, <1>5, <1>6, <1>7, <1>8, <1>9, <1>10, <1>11, <1>12,
             <1>13, <1>14 DEF Next, CallReturns, RefreshReturns

-----------------------------------------------------------------------------
\* When the leader's session expires no call leads and no refresh is owed to one.
LEMMA ExpiredTogether ==
    ASSUME IInv, NEW c \in Leaders, SessionExpired(c),
           \A d \in Calls \ {c} : asked'[d] = asked[d],
           asked'[c] = "no"
    PROVE  OneRefresh' /\ RefreshOwned'
<1>1. call \in [Calls -> Progress] /\ OneRefresh /\ RefreshOwned /\ c \in Calls
  BY DEF IInv, TypeOK, Leaders
<1>2. \A d \in Calls : call'[d] = IF d = c \/ call[d] = "parked" THEN "idle" ELSE call[d]
  BY DEF SessionExpired
<1>3. \A d \in Calls : d # c => d \notin Leaders
  BY <1>1 DEF OneRefresh
<1>4. Leaders' = {}
  BY <1>2, <1>3 DEF Leaders
<1>5. isRefreshing' = FALSE
  BY DEF SessionExpired
<1>6. \A d \in Calls : asked'[d] = "no"
  BY <1>1, <1>3 DEF RefreshOwned, Leaders
<1>. QED  BY <1>4, <1>5, <1>6 DEF OneRefresh, RefreshOwned

\* The interceptor's refreshes stay serialised, each owned by the leading call.
LEMMA RefreshStep == IInv /\ [Next]_vars => OneRefresh' /\ RefreshOwned'
<1> SUFFICES ASSUME IInv, [Next]_vars  PROVE OneRefresh' /\ RefreshOwned'
  OBVIOUS
<1>0. /\ call \in [Calls -> Progress] /\ isRefreshing \in BOOLEAN
      /\ asked \in [Refreshers -> {"no", "bare", "carrying"}]
      /\ OneRefresh /\ RefreshOwned
  BY DEF IInv, TypeOK
<1>r. /\ Boot \in Refreshers /\ Socket \in Refreshers /\ Me \in Calls
      /\ Calls \subseteq Refreshers /\ Boot \notin Calls /\ Socket \notin Calls
  BY DEF Refreshers, Calls
\* A step that moves no call into or out of the lead, and no refresh of a call's.
<1>s. ASSUME isRefreshing' = isRefreshing, Leaders' = Leaders,
             \A c \in Calls : asked'[c] = asked[c] /\ (call[c] = "refreshing" => call'[c] = "refreshing")
      PROVE  OneRefresh' /\ RefreshOwned'
  BY <1>0, <1>s DEF OneRefresh, RefreshOwned
<1>1. ASSUME NEW c \in Calls, Send(c)  PROVE OneRefresh' /\ RefreshOwned'
  <2>1. Leaders' = Leaders
    BY <1>0, <1>1 DEF Send, Leaders
  <2>. QED  BY <1>0, <1>1, <1>s, <2>1 DEF Send
<1>2. ASSUME NEW c \in Calls, Answered(c)  PROVE OneRefresh' /\ RefreshOwned'
  <2>1. call' = [call EXCEPT ![c] = "idle"] /\ asked' = asked /\ call[c] # "refreshing"
    BY <1>2 DEF Answered
  <2>2. RefreshOwned'
    BY <1>0, <2>1 DEF RefreshOwned
  <2>3. Leaders' = Leaders \ {c}
    BY <1>0, <2>1 DEF Leaders
  <2>4. CASE call[c] = "leading"
    <3>1. c \in Leaders /\ ~isRefreshing'
      BY <1>2, <2>4 DEF Answered, Leaders
    <3>2. Leaders' = {}
      BY <1>0, <2>3, <3>1 DEF OneRefresh
    <3>. QED  BY <2>2, <3>1, <3>2 DEF OneRefresh
  <2>5. CASE call[c] # "leading"
    <3>1. Leaders' = Leaders /\ isRefreshing' = isRefreshing
      BY <1>0, <1>2, <2>1, <2>3, <2>5 DEF Answered, Leaders
    <3>. QED  BY <1>0, <2>2, <3>1 DEF OneRefresh
  <2>. QED  BY <2>4, <2>5
<1>3. ASSUME NEW c \in Calls, Fails(c)  PROVE OneRefresh' /\ RefreshOwned'
  <2>1. Leaders' = Leaders
    BY <1>0, <1>3 DEF Fails, Leaders
  <2>. QED  BY <1>0, <1>3, <1>s, <2>1 DEF Fails
<1>4. ASSUME NEW c \in Calls, Unauthorized(c)  PROVE OneRefresh' /\ RefreshOwned'
  <2>1. CASE isRefreshing /\ call' = [call EXCEPT ![c] = "parked"] /\ UNCHANGED asked
    <3>1. Leaders' = Leaders /\ isRefreshing'
      BY <1>0, <1>4, <2>1 DEF Unauthorized, Leaders
    <3>. QED  BY <1>0, <1>4, <1>s, <2>1, <3>1 DEF Unauthorized
  <2>2. CASE /\ ~isRefreshing
             /\ call' = [call EXCEPT ![c] = "refreshing"]
             /\ asked' = [asked EXCEPT ![c] = Carrying]
    <3>1. Leaders = {}
      BY <1>0, <2>2 DEF OneRefresh
    <3>2. Leaders' = {c} /\ isRefreshing'
      BY <1>0, <1>4, <2>2, <3>1 DEF Unauthorized, Leaders
    <3>3. RefreshOwned'
      BY <1>0, <1>r, <2>2 DEF RefreshOwned
    <3>. QED  BY <3>2, <3>3 DEF OneRefresh
  <2>. QED  BY <1>4, <2>1, <2>2 DEF Unauthorized
<1>5. ASSUME NEW c \in Calls, ReplayFails(c)  PROVE OneRefresh' /\ RefreshOwned'
  <2>1. c \in Leaders /\ SessionExpired(c) /\ asked' = asked /\ asked[c] = "no"
    BY <1>0, <1>5 DEF ReplayFails, Leaders, RefreshOwned
  <2>. QED  BY <2>1, ExpiredTogether
<1>6. ASSUME NEW x \in Refreshers, RefreshGranted(x)  PROVE OneRefresh' /\ RefreshOwned'
  <2>1. asked[x] = "carrying" /\ asked' = [asked EXCEPT ![x] = "no"] /\ isRefreshing' = isRefreshing
    BY <1>6 DEF RefreshGranted
  <2>2. CASE x \in Calls /\ Release(x)
    <3>1. call[x] = "refreshing"
      BY <1>0, <2>1, <2>2 DEF RefreshOwned
    <3>2. \A d \in Calls : call'[d] = IF d = x THEN "leading"
                                     ELSE IF call[d] = "parked" THEN "replaying" ELSE call[d]
      BY <2>2 DEF Release
    <3>3. Leaders' = Leaders
      BY <2>2, <3>1, <3>2 DEF Leaders
    <3>4. \A d \in Calls : asked'[d] # "no" => d # x /\ asked[d] # "no"
      BY <1>0, <1>r, <2>1
    <3>5. RefreshOwned'
      BY <1>0, <3>2, <3>4 DEF RefreshOwned
    <3>. QED  BY <1>0, <2>1, <3>3, <3>5 DEF OneRefresh
  <2>3. CASE x = Boot /\ call' = [call EXCEPT ![Me] = "sent"]
    <3>1. call[Me] = "idle"
      BY <2>1, <2>3 DEF IInv, BootAlone
    <3>2. Leaders' = Leaders
      BY <1>0, <1>r, <2>3, <3>1 DEF Leaders
    <3>. QED  BY <1>0, <1>r, <1>s, <2>1, <2>3, <3>1, <3>2
  <2>4. CASE x = Socket /\ UNCHANGED call
    <3>1. Leaders' = Leaders
      BY <2>4 DEF Leaders
    <3>. QED  BY <1>0, <1>r, <1>s, <2>1, <2>4, <3>1
  <2>. QED  BY <1>6, <2>2, <2>3, <2>4 DEF RefreshGranted
<1>7. ASSUME NEW x \in Refreshers, RefreshRefused(x)  PROVE OneRefresh' /\ RefreshOwned'
  <2>1. asked[x] # "no" /\ asked' = [asked EXCEPT ![x] = "no"]
    BY <1>7 DEF RefreshRefused
  <2>2. CASE x \in Calls /\ SessionExpired(x)
    <3>1. x \in Leaders
      BY <1>0, <2>1, <2>2 DEF RefreshOwned, Leaders
    <3>2. asked'[x] = "no" /\ \A d \in Calls \ {x} : asked'[d] = asked[d]
      BY <1>0, <1>r, <2>1
    <3>. QED  BY <2>2, <3>1, <3>2, ExpiredTogether
  <2>3. CASE x \notin Calls /\ UNCHANGED <<call, isRefreshing>>
    <3>1. Leaders' = Leaders
      BY <2>3 DEF Leaders
    <3>. QED  BY <1>0, <1>r, <1>s, <2>1, <2>3, <3>1
  <2>. QED  BY <1>7, <1>r, <2>2, <2>3 DEF RefreshRefused
<1>8. CASE SocketRefused
  <2>1. Leaders' = Leaders
    BY <1>8 DEF SocketRefused, Leaders
  <2>. QED  BY <1>0, <1>r, <1>s, <1>8, <2>1 DEF SocketRefused
<1>9. CASE Reload
  <2>1. Leaders' = {} /\ ~isRefreshing'
    BY <1>9 DEF Reload, Leaders
  <2>2. RefreshOwned'
    BY <1>9, <1>r DEF Reload, RefreshOwned
  <2>. QED  BY <2>1, <2>2 DEF OneRefresh
<1>10. CASE UNCHANGED <<isRefreshing, call, asked>>
  <2>1. Leaders' = Leaders
    BY <1>10 DEF Leaders
  <2>. QED  BY <1>10, <1>s, <2>1
<1>. QED  BY <1>1, <1>2, <1>3, <1>4, <1>5, <1>6, <1>7, <1>8, <1>9, <1>10
          DEF Next, CallReturns, RefreshReturns, SignIn, SignInAnswered, SignOut,
              SignOutAnswered, Expire, vars

-----------------------------------------------------------------------------
\* The boot runs alone, and the token is there whenever someone is signed in.
LEMMA BootStep == IInv /\ [Next]_vars => BootAlone' /\ AuthenticatedHasToken'
<1> SUFFICES ASSUME IInv, [Next]_vars  PROVE BootAlone' /\ AuthenticatedHasToken'
  OBVIOUS
<1> USE DEF AuthenticatedHasToken, BootAlone
<1>0. /\ call \in [Calls -> Progress] /\ asked \in [Refreshers -> {"no", "bare", "carrying"}]
      /\ issued \in Nat /\ issued + 1 # 0
      /\ BootAlone /\ AuthenticatedHasToken /\ RefreshOwned
  BY DEF IInv, TypeOK
<1>r. /\ Boot \in Refreshers /\ Socket \in Refreshers /\ Me \in Calls /\ Me \notin Requests
      /\ Calls = Requests \cup {Me} /\ Calls \subseteq Refreshers
      /\ Boot \notin Calls /\ Socket \notin Calls /\ Boot # Socket
  BY DEF Refreshers, Calls
<1>t. TypeOK'
  BY TypeStep DEF IInv
\* Whatever ends the session while no boot is under way, or ends the boot itself.
<1>e. ASSUME status' = "anonymous", call'[Me] = "idle", asked'[Boot] = "no"
      PROVE  BootAlone' /\ AuthenticatedHasToken'
  BY <1>e
<1>1. ASSUME NEW c \in Calls, Send(c)  PROVE BootAlone' /\ AuthenticatedHasToken'
  BY <1>0, <1>1, <1>r DEF Send
<1>2. ASSUME NEW c \in Calls, Answered(c)  PROVE BootAlone' /\ AuthenticatedHasToken'
  BY <1>0, <1>2, <1>r DEF Answered
<1>3. ASSUME NEW c \in Calls, Fails(c)  PROVE BootAlone' /\ AuthenticatedHasToken'
  BY <1>0, <1>3, <1>r DEF Fails
<1>4. ASSUME NEW c \in Calls, Unauthorized(c)  PROVE BootAlone' /\ AuthenticatedHasToken'
  <2>1. \A d \in Requests : status = "loading" => call'[d] = "idle"
    BY <1>0, <1>4, <1>r DEF Unauthorized
  <2>2. asked'[Boot] = asked[Boot] /\ (call'[Me] # call[Me] => call[Me] = "sent")
    BY <1>0, <1>4, <1>r DEF Unauthorized
  <2>3. UNCHANGED <<status, accessToken, signIn, signOut>>
    BY <1>4 DEF Unauthorized
  <2>4. call'[Me] \in {"sent", "leading", "replaying"} => call'[Me] = call[Me]
    BY <1>0, <1>4, <1>r DEF Unauthorized
  <2>. QED  BY <1>0, <2>1, <2>2, <2>3, <2>4
\* A call whose session expires takes a waiting GET /auth/me with it.
<1>x. ASSUME NEW c \in Calls, SessionExpired(c), asked'[Boot] = asked[Boot],
             c \in Leaders
      PROVE  BootAlone' /\ AuthenticatedHasToken'
  <2>1. /\ status' = "anonymous"
        /\ \A d \in Calls : call'[d] = IF d = c \/ call[d] = "parked" THEN "idle" ELSE call[d]
    BY <1>x DEF SessionExpired
  <2>2. call[c] # "idle"
    BY <1>x DEF Leaders
  <2>3. CASE status = "loading"
    <3>1. c = Me
      BY <1>0, <1>r, <2>2, <2>3
    <3>. QED  BY <1>0, <1>e, <1>r, <1>x, <2>1, <2>2, <3>1
  <2>4. CASE status # "loading"
    <3>1. call[Me] = "idle" /\ asked[Boot] = "no"
      BY <1>0, <1>r, <2>4, <1>t DEF IInv, TypeOK
    <3>. QED  BY <1>e, <1>r, <1>x, <2>1, <3>1
  <2>. QED  BY <2>3, <2>4
<1>5. ASSUME NEW c \in Calls, ReplayFails(c)  PROVE BootAlone' /\ AuthenticatedHasToken'
  BY <1>5, <1>x DEF ReplayFails, Leaders
<1>6. ASSUME NEW x \in Refreshers, RefreshGranted(x)  PROVE BootAlone' /\ AuthenticatedHasToken'
  <2>1. /\ asked[x] = "carrying" /\ asked' = [asked EXCEPT ![x] = "no"]
        /\ accessToken' # 0 /\ UNCHANGED <<status, signIn, signOut>>
    BY <1>0, <1>6 DEF RefreshGranted
  <2>2. CASE x \in Calls /\ Release(x)
    <3>1. call[x] = "refreshing"
      BY <1>0, <2>1, <2>2 DEF RefreshOwned
    <3>2. \A d \in Calls : call[d] = "idle" <=> call'[d] = "idle"
      BY <2>2, <3>1 DEF Release
    <3>3. asked'[Boot] = asked[Boot]
      BY <1>0, <1>r, <2>1, <2>2
    <3>. QED  BY <1>0, <1>r, <2>1, <3>2, <3>3
  <2>3. CASE x = Boot /\ call' = [call EXCEPT ![Me] = "sent"]
    BY <1>0, <1>r, <2>1, <2>3
  <2>4. CASE x = Socket /\ UNCHANGED call
    BY <1>0, <1>r, <2>1, <2>4
  <2>. QED  BY <1>6, <2>2, <2>3, <2>4 DEF RefreshGranted
<1>7. ASSUME NEW x \in Refreshers, RefreshRefused(x)  PROVE BootAlone' /\ AuthenticatedHasToken'
  <2>1. /\ asked[x] # "no" /\ asked' = [asked EXCEPT ![x] = "no"]
        /\ UNCHANGED <<signIn, signOut>>
    BY <1>7 DEF RefreshRefused
  <2>2. CASE x \in Calls /\ SessionExpired(x)
    <3>1. x \in Leaders
      BY <1>0, <2>1, <2>2 DEF RefreshOwned, Leaders
    <3>2. asked'[Boot] = asked[Boot]
      BY <1>0, <1>r, <2>1, <2>2
    <3>. QED  BY <1>x, <2>2, <3>1, <3>2
  <2>3. CASE x = Boot /\ status' = "anonymous" /\ UNCHANGED call
    <3>1. call'[Me] = "idle" /\ asked'[Boot] = "no"
      BY <1>0, <1>r, <2>1, <2>3
    <3>. QED  BY <1>e, <2>3, <3>1
  <2>4. CASE x = Socket /\ UNCHANGED <<accessToken, status, call>>
    BY <1>0, <1>r, <2>1, <2>4
  <2>. QED  BY <1>7, <2>2, <2>3, <2>4 DEF RefreshRefused
<1>8. CASE SocketRefused
  BY <1>0, <1>8, <1>r DEF SocketRefused
<1>9. CASE SignIn
  BY <1>0, <1>9 DEF SignIn
<1>10. CASE SignInAnswered
  BY <1>0, <1>10 DEF SignInAnswered
<1>11. CASE SignOut
  BY <1>0, <1>11 DEF SignOut
<1>12. CASE SignOutAnswered
  <2>1. signOut /\ status' = "anonymous" /\ UNCHANGED <<call, asked>>
    BY <1>12 DEF SignOutAnswered
  <2>2. call[Me] = "idle" /\ asked[Boot] = "no"
    BY <1>0, <1>r, <2>1
  <2>. QED  BY <1>e, <2>1, <2>2
<1>13. CASE Reload
  BY <1>13, <1>r DEF Reload
<1>14. CASE UNCHANGED <<status, accessToken, call, asked, signIn, signOut>>
  BY <1>0, <1>14
<1>. QED  BY <1>1, <1>2, <1>3, <1>4, <1>5, <1>6, <1>7, <1>8, <1>9, <1>10, <1>11, <1>12,
             <1>13, <1>14 DEF Next, CallReturns, RefreshReturns, Expire, vars

-----------------------------------------------------------------------------
\* The inductive invariant holds of every behaviour.
THEOREM Invariance == Spec => []IInv
<1>1. Init => IInv
  <2> SUFFICES ASSUME Init  PROVE IInv
    OBVIOUS
  <2>r. Boot \in Refreshers /\ Me \in Calls /\ Calls \subseteq Refreshers /\ Boot \notin Calls
        /\ Requests \subseteq Calls
    BY DEF Refreshers, Calls
  <2>1. TypeOK
    <3>1. issued = 0 /\ 0 \in 0..issued /\ expired \in 0..issued /\ accessToken \in 0..issued
      BY DEF Init
    <3>2. /\ call \in [Calls -> Progress] /\ retried \in [Calls -> BOOLEAN]
          /\ asked \in [Refreshers -> {"no", "bare", "carrying"}]
      BY DEF Init, Progress, Carrying
    <3>3. bearer \in [Calls -> 0..issued] /\ reloads \in 0..MaxReloads
      BY <3>1 DEF Init
    <3>4. /\ status \in {"loading", "authenticated", "anonymous"} /\ issued \in Nat
          /\ cookie \in BOOLEAN /\ isRefreshing \in BOOLEAN
          /\ signIn \in BOOLEAN /\ signOut \in BOOLEAN
      BY DEF Init
    <3>. QED  BY <3>1, <3>2, <3>3, <3>4 DEF TypeOK
  <2>2. Leaders = {} /\ ~isRefreshing
    BY DEF Init, Leaders
  <2>3. RefreshOwned /\ BootAlone /\ AuthenticatedHasToken
    BY <2>r DEF Init, RefreshOwned, BootAlone, AuthenticatedHasToken
  <2>. QED  BY <2>1, <2>2, <2>3 DEF IInv, OneRefresh
<1>2. IInv /\ [Next]_vars => IInv'
  BY TypeStep, RefreshStep, BootStep DEF IInv
<1>. QED  BY <1>1, <1>2, PTL DEF Spec

\* The variables of the console's session always have their types.
THEOREM TypeCorrect == Spec => []TypeOK
<1>1. IInv => TypeOK
  BY DEF IInv
<1>. QED  BY <1>1, Invariance, PTL

\* However many calls are refused at once, and whatever happens to the session
\* meanwhile, the interceptor runs one refresh at a time and its flag says so.
THEOREM RefreshesAreSerialised == Spec => []OneRefresh
<1>1. IInv => OneRefresh
  BY DEF IInv
<1>. QED  BY <1>1, Invariance, PTL

\* No race between signing in, signing out and a failing refresh leaves the
\* console signed in without a token.
THEOREM SignedInWithToken == Spec => []AuthenticatedHasToken
<1>1. IInv => AuthenticatedHasToken
  BY DEF IInv
<1>. QED  BY <1>1, Invariance, PTL

\* Only a call that leads or that waited is sent again, with a newer token.
THEOREM ReplaysAreRenewed == Spec => ReplayedWithNewerToken
<1> DEFINE Renewed == \A c \in Calls :
      call[c] \in {"parked", "refreshing"} /\ call'[c] \in {"leading", "replaying"}
         => bearer'[c] > bearer[c]
<1>1. IInv /\ [Next]_vars => Renewed
  <2> SUFFICES ASSUME IInv, [Next]_vars, NEW c \in Calls,
                      call[c] \in {"parked", "refreshing"},
                      call'[c] \in {"leading", "replaying"}
               PROVE  bearer'[c] > bearer[c]
    OBVIOUS
  <2>1. /\ issued \in Nat /\ bearer[c] \in 0..issued
        /\ call \in [Calls -> Progress] /\ bearer \in [Calls -> 0..issued]
    BY DEF IInv, TypeOK
  <2>2. PICK x \in Calls : Release(x)
    <3>1. \A d \in Calls : ~Send(d) /\ ~Answered(d) /\ ~Fails(d) /\ ~Unauthorized(d)
      BY <2>1 DEF Send, Answered, Fails, Unauthorized
    <3>2. \A d \in Calls : ~SessionExpired(d)
      BY <2>1 DEF SessionExpired
    <3>3. call' # call /\ call' # [d \in Calls |-> "idle"] /\ call' # [call EXCEPT ![Me] = "sent"]
      BY <2>1
    <3>4. PICK x \in Refreshers : RefreshReturns(x)
      BY <3>1, <3>2, <3>3 DEF Next, CallReturns, ReplayFails, SocketRefused, SignIn,
         SignInAnswered, SignOut, SignOutAnswered, Expire, Reload, vars
    <3>. QED  BY <3>2, <3>3, <3>4 DEF RefreshReturns, RefreshGranted, RefreshRefused
  <2>3. c = x \/ call[c] = "parked"
    BY <2>2 DEF Release
  <2>4. bearer'[c] = issued + 1
    BY <2>2, <2>3 DEF Release
  <2>. QED  BY <2>1, <2>4
<1>2. IInv /\ [Next]_vars => [Renewed]_vars
  BY <1>1
<1>. QED  BY <1>1, Invariance, PTL DEF Spec, ReplayedWithNewerToken
=============================================================================
