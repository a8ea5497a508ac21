------------------------------- MODULE Checkin -------------------------------
(***************************************************************************)
(* One employee checking in: the phone that submits, the backend handler   *)
(* (attendanceService.performCheckin) and the AI service's /v1/verify      *)
(* (VerifyService.execute), up to the attendance log, the alerts and the   *)
(* answer the employee reads.                                              *)
(*                                                                         *)
(* The handler awaits once per step, so several attempts of one employee   *)
(* interleave: the phone gives up after its own timeout while the handler  *)
(* goes on, and the handler gives up on /v1/verify while the AI service    *)
(* goes on.  The backend and the AI service restart independently.         *)
(*                                                                         *)
(* Abstractions: a submission is a small record of the facts the steps     *)
(* test; the request-id cache and the image history are sets, their limits *)
(* being larger than a run; the PIN budget is the environment's choice     *)
(* (PinLockout models it); so is the AI service's rate limiter.            *)
(***************************************************************************)
EXTENDS Naturals, FiniteSets

CONSTANTS
    NAttempts,    \* how many times the employee submits
    Photos,       \* selfies, up to byte identity
    RequestIds,   \* request ids a caller may choose
    Nil,          \* no request id: the handler mints a fresh one
    Choices,      \* the submissions each attempt may make, for model checking
    Bands,        \* settings.decision_bands
    MaxRestarts   \* bound on AI service restarts, for model checking

Attempts == 1..NAttempts

\* The facts a submission may fail to satisfy, named for the step that tests them.
Gates == {"frames", "alive", "pin_set", "pin", "inside", "enrolled", "clean", "fresh", "usable"}

\* How the selfie compares with the reference embedding: at or above the
\* approve threshold, in the band below it, or lower.
Likeness == {"match", "near", "other"}

Submission ==
    [photo : Photos, id : RequestIds \cup {Nil}, face : Likeness, lacks : SUBSET Gates]

ASSUME AttemptsAssumption   == NAttempts \in Nat
ASSUME NilAssumption        == Nil \notin RequestIds
ASSUME ChoicesAssumption    == Choices \in [Attempts -> (SUBSET Submission) \ {{}}]
ASSUME BandsAssumption      == Bands \in {"two", "three"}
ASSUME RestartsAssumption   == MaxRestarts \in Nat

VARIABLES
    body,      \* what each attempt submitted
    client,    \* the phone: what its screen says of the attempt
    stage,     \* the backend handler: the step it is about to take
    answer,    \* the class of the handler's response
    ai,        \* /v1/verify: its next step, or its result, for the attempt
    nonces,    \* SecurityGuards._nonces: request ids already used
    images,    \* SecurityGuards._images: photos already used
    restarts,  \* ghost: AI service restarts so far
    accepted,  \* ghost: the restart count when the image guard let it pass, plus 1
    active,    \* User.is_active
    onRoll,    \* ghost: was the employee active when the handler started
    log,       \* AttendanceLog: the status of the attempt's entry
    alerts,    \* SpoofAlert: attempts that have one
    heard      \* attempts for which an alert was broadcast to HR

aiVars    == <<nonces, images, restarts, accepted>>
hrVars    == <<alerts, heard>>
vars == <<body, client, stage, answer, ai, aiVars, active, onRoll, log, hrVars>>

Screens  == {"idle", "waiting", "recorded", "review", "refused", "server_error", "network_error"}
Working  == {"liveness", "user", "pin", "geofence", "embedding", "verify",
             "alert", "record", "broadcast", "notify"}
Stages   == {"unsent", "sent", "answered", "crashed"} \cup Working
Answers  == {"none", "approved", "flagged", "refused", "replay", "error"}
Decided  == {"approved", "flagged", "rejected"}
Verdicts == Decided \cup {"mock", "replay", "failed", "unfit", "dead"}
Asking   == {"admit", "fetch", "score"}

TypeOK ==
    /\ body \in [Attempts -> Submission]
    /\ client \in [Attempts -> Screens]
    /\ stage \in [Attempts -> Stages]
    /\ answer \in [Attempts -> Answers]
    /\ ai \in [Attempts -> {"idle"} \cup Asking \cup Verdicts]
    /\ nonces \subseteq RequestIds
    /\ images \subseteq Photos
    /\ restarts \in Nat
    /\ accepted \in [Attempts -> Nat]
    /\ active \in BOOLEAN
    /\ onRoll \in [Attempts -> BOOLEAN]
    /\ log \in [Attempts -> {"none", "approved", "flagged", "rejected"}]
    /\ alerts \subseteq Attempts
    /\ heard \subseteq Attempts

Init ==
    /\ body = [a \in Attempts |-> CHOOSE b \in Choices[a] : TRUE]
    /\ client = [a \in Attempts |-> "idle"]
    /\ stage = [a \in Attempts |-> "unsent"]
    /\ answer = [a \in Attempts |-> "none"]
    /\ ai = [a \in Attempts |-> "idle"]
    /\ nonces = {} /\ images = {} /\ restarts = 0
    /\ accepted = [a \in Attempts |-> 0]
    /\ active = TRUE
    /\ onRoll = [a \in Attempts |-> FALSE]
    /\ log = [a \in Attempts |-> "none"]
    /\ alerts = {} /\ heard = {}

Has(a, gate) == gate \notin body[a].lacks

-----------------------------------------------------------------------------
(* The phone *)

\* CheckInScreen's in-flight guard: one submission at a time, none after a
\* check-in that was confirmed.  Attempts are numbered in submission order.
MaySubmit(a) ==
    /\ client[a] = "idle"
    /\ \A b \in 1..(a - 1) : client[b] \notin {"idle", "waiting", "recorded", "review"}

Submit(a) ==
    /\ MaySubmit(a)
    /\ \E b \in Choices[a] : body' = [body EXCEPT ![a] = b]
    /\ client' = [client EXCEPT ![a] = "waiting"]
    /\ stage' = [stage EXCEPT ![a] = "sent"]
    /\ UNCHANGED <<answer, ai, aiVars, active, onRoll, log, hrVars>>

\* Mutation: a server error is shown as a refusal.
InterpretErrorAsRefusal(response) ==
    CASE response = "approved" -> "recorded"
      [] response = "flagged"  -> "review"
      [] OTHER                 -> "refused"

\* interpretCheckinResponse: what the screen makes of a response.
Interpret(response) ==
    CASE response = "approved"            -> "recorded"
      [] response = "flagged"             -> "review"
      [] response \in {"refused", "replay"} -> "refused"
      [] OTHER                            -> "server_error"

ReadAnswer(a) ==
    /\ client[a] = "waiting"
    /\ stage[a] = "answered"
    /\ client' = [client EXCEPT ![a] = Interpret(answer[a])]
    /\ UNCHANGED <<body, stage, answer, ai, aiVars, active, onRoll, log, hrVars>>

\* No response: the request or the response was lost, or took longer than the
\* phone's timeout.  The request may still be under way, or arrive later.
GiveUp(a) ==
    /\ client[a] = "waiting"
    /\ client' = [client EXCEPT ![a] = "network_error"]
    /\ UNCHANGED <<body, stage, answer, ai, aiVars, active, onRoll, log, hrVars>>

-----------------------------------------------------------------------------
(* The backend handler: performCheckin *)

Goto(a, step) == stage' = [stage EXCEPT ![a] = step] /\ UNCHANGED answer
Reply(a, r)   == stage' = [stage EXCEPT ![a] = "answered"] /\ answer' = [answer EXCEPT ![a] = r]

\* What no handler step before the face comparison touches.
Untouched == UNCHANGED <<body, client, aiVars, active, log, hrVars>>

\* The route: the rate limiter, the token, the permission and the schema may each
\* refuse.  requireAuth looks at the token only, so a deactivated employee gets
\* past it.
Receive(a) ==
    /\ stage[a] = "sent"
    /\ Goto(a, "liveness") \/ Reply(a, "refused")
    /\ onRoll' = [onRoll EXCEPT ![a] = active]
    /\ UNCHANGED ai /\ Untouched

\* Step 1: too few frames never reach the AI service; otherwise its liveness
\* challenge passes, fails, is refused as a request (4xx), or cannot be had.
CheckLiveness(a) ==
    /\ stage[a] = "liveness"
    /\ \/ Has(a, "frames") /\ Has(a, "alive") /\ Goto(a, "user")
       \/ Reply(a, "refused")
       \/ Has(a, "frames") /\ Reply(a, "error")
    /\ UNCHANGED <<ai, onRoll>> /\ Untouched

\* Mutation: the token is trusted and is_active is not looked at again.
LoadUserAnyStanding(a) ==
    /\ stage[a] = "user"
    /\ \/ Has(a, "pin_set") /\ Goto(a, "pin")
       \/ ~Has(a, "pin_set") /\ Reply(a, "refused")
    /\ UNCHANGED <<ai, onRoll>> /\ Untouched

\* Step 2, the user document: 401 unauthenticated or 409 pin_not_set.
LoadUser(a) ==
    /\ stage[a] = "user"
    /\ \/ active /\ Has(a, "pin_set") /\ Goto(a, "pin")
       \/ ~(active /\ Has(a, "pin_set")) /\ Reply(a, "refused")
    /\ UNCHANGED <<ai, onRoll>> /\ Untouched

\* Step 2, the PIN: a match, a mismatch, a lockout whatever the PIN, or no answer.
VerifyPin(a) ==
    /\ stage[a] = "pin"
    /\ \/ Has(a, "pin") /\ Goto(a, "geofence")
       \/ Reply(a, "refused")
       \/ Reply(a, "error")
    /\ UNCHANGED <<ai, onRoll>> /\ Untouched

\* Step 3: outside_geofence, or coordinates that make no sense.
CheckGeofence(a) ==
    /\ stage[a] = "geofence"
    /\ \/ Has(a, "inside") /\ Goto(a, "embedding")
       \/ ~Has(a, "inside") /\ Reply(a, "refused")
    /\ UNCHANGED <<ai, onRoll>> /\ Untouched

\* Step 4: no reference embedding is a refusal; with one, /v1/verify is called.
LoadEmbedding(a) ==
    /\ stage[a] = "embedding"
    /\ \/ Has(a, "enrolled") /\ Goto(a, "verify") /\ ai' = [ai EXCEPT ![a] = "admit"]
       \/ ~Has(a, "enrolled") /\ Reply(a, "refused") /\ UNCHANGED ai
    /\ UNCHANGED onRoll /\ Untouched

\* Mutation: every answer but a replay is taken for a decision.
TakeVerdictUnsorted(a) ==
    /\ stage[a] = "verify"
    /\ ai[a] \in Verdicts \ {"dead"}
    /\ \/ ai[a] # "replay" /\ Goto(a, "record")
       \/ ai[a] = "replay" /\ Reply(a, "replay")
    /\ UNCHANGED <<ai, onRoll>> /\ Untouched

\* Step 4, the result of the comparison, or handleVerifyError's switch on the
\* error code.  A malformed request and a reference that needs enrolling again
\* end as 4xx, so the phone reads a rejection; every other failure, a selfie
\* without one good face included, becomes 500 or 502.
TakeVerdict(a) ==
    /\ stage[a] = "verify"
    /\ ai[a] \in Verdicts \ {"dead"}
    /\ \/ ai[a] \in {"approved", "flagged"} /\ Goto(a, "record")
       \/ ai[a] \in {"rejected", "unfit"} /\ Reply(a, "refused")
       \/ ai[a] = "mock" /\ Goto(a, "alert")
       \/ ai[a] = "replay" /\ Reply(a, "replay")
       \/ ai[a] = "failed" /\ Reply(a, "error")
    /\ UNCHANGED <<ai, onRoll>> /\ Untouched

\* Mutation: only a broken connection ends the wait.
VerifyTimeoutNever(a) ==
    /\ stage[a] = "verify"
    /\ ai[a] = "dead"
    /\ Reply(a, "error")
    /\ UNCHANGED <<ai, onRoll>> /\ Untouched

\* Step 4, no answer within the AI client's timeout, or a broken connection:
\* 502 server_error.  The AI service is not told.
VerifyTimeout(a) ==
    /\ stage[a] = "verify"
    /\ Reply(a, "error")
    /\ UNCHANGED <<ai, onRoll>> /\ Untouched

\* handleVerifyError, MOCK_LOCATION and EMULATOR_DETECTED: SpoofAlert.create,
\* then read it back, then broadcast it; either database call may throw.
RaiseAlert(a) ==
    /\ stage[a] = "alert"
    /\ \/ /\ Reply(a, "refused")
          /\ alerts' = alerts \cup {a}
          /\ heard' = heard \cup {a}
       \/ /\ Reply(a, "error")
          /\ alerts' \in {alerts, alerts \cup {a}}
          /\ UNCHANGED heard
    /\ UNCHANGED <<body, client, ai, aiVars, active, onRoll, log>>

\* Step 5: AttendanceLog.create with the decision as its status, or a
\* database failure.
WriteLog(a) ==
    /\ stage[a] = "record"
    /\ \/ Goto(a, "broadcast") /\ log' = [log EXCEPT ![a] = ai[a]]
       \/ Reply(a, "error") /\ UNCHANGED log
    /\ UNCHANGED <<body, client, ai, aiVars, active, onRoll, hrVars>>

\* Mutation: every entry is broadcast as one to review.
BroadcastLoudly(a) ==
    /\ stage[a] = "broadcast"
    /\ \/ ai[a] = "approved" /\ Reply(a, "approved")
       \/ ai[a] = "flagged" /\ Goto(a, "notify")
    /\ heard' = heard \cup {a}
    /\ UNCHANGED <<body, client, ai, aiVars, active, onRoll, log, alerts>>

\* Mutation: a flagged entry is only ever broadcast as a new one.
BroadcastQuietly(a) ==
    /\ stage[a] = "broadcast"
    /\ \/ ai[a] = "approved" /\ Reply(a, "approved")
       \/ ai[a] = "flagged" /\ Goto(a, "notify")
       \/ Reply(a, "error")
    /\ UNCHANGED <<body, client, ai, aiVars, active, onRoll, log, hrVars>>

\* Step 6: populate, which may throw after the log is written; then
\* attendance:new, and attendance:flagged for a flagged entry.
Broadcast(a) ==
    /\ stage[a] = "broadcast"
    /\ \/ ai[a] = "approved" /\ Reply(a, "approved") /\ UNCHANGED heard
       \/ ai[a] = "flagged" /\ Goto(a, "notify") /\ heard' = heard \cup {a}
       \/ Reply(a, "error") /\ UNCHANGED heard
    /\ UNCHANGED <<body, client, ai, aiVars, active, onRoll, log, alerts>>

\* Step 6: Notification.create, whose failure is swallowed.
Notify(a) ==
    /\ stage[a] = "notify"
    /\ Reply(a, "flagged")
    /\ UNCHANGED <<ai, onRoll>> /\ Untouched

-----------------------------------------------------------------------------
(* The AI service: VerifyService.execute, on a thread of its pool *)

Think(a, next) == ai' = [ai EXCEPT ![a] = next]
AiOnly == UNCHANGED <<body, client, stage, answer, restarts, active, onRoll, log, hrVars>>

\* A malformed request, the rate limit, device, freshness, then the request id,
\* which is used up from here on whatever happens next.  A minted id is new.
Admit(a) ==
    LET id == body[a].id IN
    /\ ai[a] = "admit"
    /\ \/ (\E v \in {"failed", "unfit"} : Think(a, v)) /\ UNCHANGED nonces
       \/ ~Has(a, "clean") /\ Think(a, "mock") /\ UNCHANGED nonces
       \/ Has(a, "clean") /\ ~Has(a, "fresh") /\ Think(a, "replay") /\ UNCHANGED nonces
       \/ Has(a, "clean") /\ Has(a, "fresh") /\ id \in nonces
             /\ Think(a, "replay") /\ UNCHANGED nonces
       \/ Has(a, "clean") /\ Has(a, "fresh") /\ id \notin nonces
             /\ Think(a, "fetch") /\ nonces' = nonces \cup ({id} \ {Nil})
    /\ UNCHANGED <<images, accepted>> /\ AiOnly

\* Mutation: the image guard records photos and never refuses one.
FetchUnguarded(a) ==
    /\ ai[a] = "fetch"
    /\ Think(a, "score")
    /\ images' = images \cup {body[a].photo}
    /\ accepted' = [accepted EXCEPT ![a] = restarts + 1]
    /\ UNCHANGED nonces /\ AiOnly

\* Open the envelope, which may be damaged or of another model version, and
\* fetch the selfie, which may fail; then the image guard's seen_or_add.
Fetch(a) ==
    LET photo == body[a].photo IN
    /\ ai[a] = "fetch"
    /\ \/ (\E v \in {"failed", "unfit"} : Think(a, v)) /\ UNCHANGED <<images, accepted>>
       \/ photo \in images /\ Think(a, "replay") /\ UNCHANGED <<images, accepted>>
       \/ /\ photo \notin images
          /\ Think(a, "score")
          /\ images' = images \cup {photo}
          /\ accepted' = [accepted EXCEPT ![a] = restarts + 1]
    /\ UNCHANGED nonces /\ AiOnly

\* score.decide on the configured bands.
Decide(face) ==
    IF face = "match" THEN "approved"
    ELSE IF face = "near" /\ Bands = "three" THEN "flagged"
    ELSE "rejected"

\* Extract the live embedding and compare.  An image without exactly one good
\* face is refused with a code marked retryable.
Score(a) ==
    /\ ai[a] = "score"
    /\ \/ Has(a, "usable") /\ Think(a, Decide(body[a].face))
       \/ Think(a, "failed")
    /\ UNCHANGED <<nonces, images, accepted>> /\ AiOnly

-----------------------------------------------------------------------------
(* Restarts, and the administrators *)

\* The AI service keeps its guards in memory only.
RestartAi ==
    /\ restarts < MaxRestarts
    /\ restarts' = restarts + 1
    /\ nonces' = {} /\ images' = {}
    /\ ai' = [a \in Attempts |-> IF ai[a] \in Asking THEN "dead" ELSE ai[a]]
    /\ UNCHANGED <<body, client, stage, answer, accepted, active, onRoll, log, hrVars>>

\* The backend process ends: its handlers never answer.
CrashBackend ==
    /\ \E a \in Attempts : stage[a] \in Working
    /\ stage' = [a \in Attempts |-> IF stage[a] \in Working THEN "crashed" ELSE stage[a]]
    /\ UNCHANGED <<body, client, answer, ai, aiVars, active, onRoll, log, hrVars>>

\* setAttendanceStatus: HR approves or rejects an entry, at any time.
Review(a) ==
    /\ log[a] # "none"
    /\ \E s \in {"approved", "rejected"} : log' = [log EXCEPT ![a] = s]
    /\ UNCHANGED <<body, client, stage, answer, ai, aiVars, active, onRoll, hrVars>>

\* deactivateEmployee.
Deactivate ==
    /\ active
    /\ active' = FALSE
    /\ UNCHANGED <<body, client, stage, answer, ai, aiVars, onRoll, log, hrVars>>

Phone(a)   == Submit(a) \/ ReadAnswer(a) \/ GiveUp(a)
Handler(a) ==
    \/ CheckLiveness(a) \/ LoadUser(a) \/ VerifyPin(a) \/ CheckGeofence(a)
    \/ LoadEmbedding(a) \/ TakeVerdict(a) \/ VerifyTimeout(a) \/ RaiseAlert(a)
    \/ WriteLog(a) \/ Broadcast(a) \/ Notify(a)
Verify(a)  == Admit(a) \/ Fetch(a) \/ Score(a)

Next ==
    \/ \E a \in Attempts : Phone(a) \/ Receive(a) \/ Handler(a) \/ Verify(a) \/ Review(a)
    \/ RestartAi \/ CrashBackend \/ Deactivate

Spec == Init /\ [][Next]_vars

\* A running handler takes its next step: every await of it ends, the calls to
\* the AI service by their timeout at the latest.  Nothing is assumed of the
\* network, the employee or the AI service.
FairSpec == Spec /\ \A a \in Attempts : WF_vars(Handler(a))

-----------------------------------------------------------------------------
\* An attendance entry was earned: its submission satisfied every gate, the
\* employee was still active when the handler started, and the face matched as
\* far as the entry claims.  No interleaving of attempts lends one attempt the
\* checks another one passed.
LogEarned ==
    \A a \in Attempts : log[a] # "none" =>
        /\ body[a].lacks = {}
        /\ onRoll[a]
        /\ ai[a] = Decide(body[a].face) /\ ai[a] # "rejected"

\* Neither a photo nor a caller's request id is recorded twice, unless the AI
\* service restarted in between and forgot the first use.
UsedOnce ==
    \A a, b \in Attempts :
        /\ a # b /\ log[a] # "none" /\ log[b] # "none"
        /\ body[a].photo = body[b].photo \/ (body[a].id = body[b].id /\ body[a].id # Nil)
        => accepted[a] # accepted[b]

\* HR is alerted of what is there: a spoof alert concerns a submission from a
\* mocked device that got as far as the face comparison and left no entry, and
\* every other broadcast alert concerns an entry that was flagged.
AlertsTrue ==
    /\ \A a \in alerts : ~Has(a, "clean") /\ Has(a, "pin") /\ log[a] = "none"
    /\ \A a \in heard \ alerts : log[a] # "none" /\ ai[a] = "flagged"

\* "Sent for HR review" is only ever read when HR has in fact been alerted, and
\* a 403 for a mocked device likewise.
ReviewMeansHeard ==
    \A a \in Attempts :
        client[a] = "review" \/ (answer[a] = "refused" /\ ai[a] = "mock") => a \in heard

\* What HR hears is so, and what the employee is told HR has heard.
AlertsHonest == AlertsTrue /\ ReviewMeansHeard

\* A handler that has started comes to an end.
HandlerEnds == \A a \in Attempts : stage[a] \in Working ~> stage[a] \in {"answered", "crashed"}

\* The abstract specification's view: an attempt is settled by its entry, or by
\* the end of its handler without one.
Settlement(a) ==
    IF log[a] # "none" THEN ai[a]
    ELSE IF stage[a] \in {"answered", "crashed"} THEN "refused" ELSE "open"

Notice(a) ==
    CASE client[a] \in {"idle", "waiting"} -> "nothing"
      [] client[a] \in {"server_error", "network_error"} -> "unknown"
      [] OTHER -> client[a]

Ledger == INSTANCE AttendanceLedger WITH
            settled <- [a \in Attempts |-> Settlement(a)],
            told    <- [a \in Attempts |-> Notice(a)]

\* The check-in path implements the ledger: an attempt that was refused never
\* gets an entry later, and "recorded", "review" and "refused" are only read
\* when that is how the attempt was settled.
ImplementsLedger == Ledger!Spec

-----------------------------------------------------------------------------
(* What the repository says of the program *)

\* lib/api.js tells the employee, after a network error, that the check-in was
\* not recorded.
NetworkErrorMeansNotRecorded ==
    \A a \in Attempts : client[a] = "network_error" => log[a] = "none"

\* The integration guide makes repeating the identical request the way to retry
\* after a network failure: it must not then be refused as a replay when the
\* first request ended in a failure and left no entry.
IdenticalRetryAccepted ==
    \A a, b \in Attempts :
        /\ a < b /\ body[a] = body[b] /\ Has(a, "fresh")
        /\ answer[a] = "error" \/ stage[a] = "crashed"
        /\ log[a] = "none"
        => answer[b] # "replay"
=============================================================================
