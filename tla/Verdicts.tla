------------------------------- MODULE Verdicts -------------------------------
(***************************************************************************)
(* How what is wrong with a check-in becomes what its employee is told: a  *)
(* reason of the AI service (errors.py), an error of the backend's client  *)
(* for it (pnsmAiClient.ts), a refusal of the backend (attendanceService,  *)
(* errorHandler.ts), and a title on the phone (api.js), with one           *)
(* repetition by http.js when the session had ended.                       *)
(*                                                                         *)
(* An attempt carries a set of flaws.  Each guard along the way looks for  *)
(* one of them, in the order of the code, and the first one found is told. *)
(***************************************************************************)
EXTENDS Naturals

-----------------------------------------------------------------------------
\* REASON_SPECS: the HTTP status of each code, and which may be retried.
HttpStatus(code) ==
    CASE code \in {"OK_MATCH", "LOW_CONFIDENCE", "NO_MATCH"} -> 200
      [] code \in {"NO_FACE_DETECTED", "MULTIPLE_FACES", "IMAGE_TOO_BLURRY",
                   "IMAGE_TOO_DARK", "FACE_TOO_SMALL"} -> 422
      [] code \in {"MOCK_LOCATION", "EMULATOR_DETECTED"} -> 403
      [] code \in {"REPLAY_DETECTED", "STALE_CAPTURE", "NO_REFERENCE_EMBEDDING",
                   "MODEL_VERSION_MISMATCH"} -> 409
      [] code \in {"DECRYPT_FAILED", "INTERNAL"} -> 500
      [] code = "PAYLOAD_TOO_LARGE" -> 413
      [] code = "RATE_LIMITED" -> 429
      [] code = "UPSTREAM_STORAGE_ERROR" -> 502
      [] code = "UNAUTHORIZED" -> 401
      [] code = "BAD_REQUEST" -> 400

Retryable ==
    {"NO_MATCH", "NO_FACE_DETECTED", "MULTIPLE_FACES", "IMAGE_TOO_BLURRY", "IMAGE_TOO_DARK",
     "FACE_TOO_SMALL", "STALE_CAPTURE", "PAYLOAD_TOO_LARGE", "RATE_LIMITED",
     "UPSTREAM_STORAGE_ERROR", "INTERNAL"}

\* What PnsmAiError makes of an envelope, of an answer without one (a proxy's),
\* and of none at all.
Envelope(code) ==
    [status |-> HttpStatus(code), code |-> code, retryable |-> code \in Retryable]
Bare == [status |-> 502, code |-> "INTERNAL", retryable |-> FALSE]
Unanswered == [status |-> 0, code |-> "UPSTREAM_STORAGE_ERROR", retryable |-> TRUE]

-----------------------------------------------------------------------------
\* A mobile answer: its status says whose fault it is.
Reply(http, reason) ==
    [http |-> http, status |-> IF http >= 500 THEN "error" ELSE "rejected", reason |-> reason]
Accepted(decision) == [http |-> 200, status |-> decision, reason |-> "none"]
\* Before markRouteGroup the answer has the console's envelope.
Foreign(http) == [http |-> http, status |-> "none", reason |-> "none"]
NoReply == [http |-> 0, status |-> "none", reason |-> "none"]

\* Mutation: the AI service's status is handed on, whatever may be retried.
ServerErrorAsIs(err) == Reply(IF err.status = 0 THEN 500 ELSE err.status, "server_error")

\* performCheckin's default: a retryable error is never the employee's fault.
ServerError(err) ==
    Reply(IF err.retryable THEN 502 ELSE IF err.status = 0 THEN 500 ELSE err.status, "server_error")

PinError(err) == IF err.code = "RATE_LIMITED" THEN Reply(429, "pin_locked") ELSE ServerError(err)

\* handleVerifyError, with lowerReason.
VerifyError(err) ==
    CASE err.code = "MOCK_LOCATION"     -> Reply(403, "mock_location_detected")
      [] err.code = "EMULATOR_DETECTED" -> Reply(403, "emulator_detected")
      [] err.code = "REPLAY_DETECTED"   -> Reply(409, "replay_detected")
      [] err.code = "STALE_CAPTURE"     -> Reply(409, "stale_capture")
      [] err.code \in {"MODEL_VERSION_MISMATCH", "NO_REFERENCE_EMBEDDING"} ->
            Reply(409, "profile_needs_attention")
      [] err.code = "DECRYPT_FAILED"    -> Reply(500, "server_error")
      [] OTHER                          -> ServerError(err)

SecurityEvents == {"MOCK_LOCATION", "EMULATOR_DETECTED"}

-----------------------------------------------------------------------------
\* The guards of each stage, in order: the flaw each looks for, and the answer
\* it gives of its own or the code the AI service gives.
Gate ==
    <<<<"too_large", Foreign(413)>>,
      <<"ip_blocked", Reply(403, "ip_blocked")>>, <<"crowded", Reply(429, "rate_limited")>>,
      <<"expired", Reply(401, "unauthenticated")>>, <<"role", Reply(403, "forbidden")>>,
      <<"malformed", Reply(422, "invalid_request")>>,
      <<"few_frames", Reply(422, "liveness_failed")>>>>

\* The body's size, the signature, and the frames one by one.
LivenessGuards ==
    <<<<"frames_too_large", "PAYLOAD_TOO_LARGE">>, <<"clocks_apart", "UNAUTHORIZED">>,
      <<"frame_unreadable", "BAD_REQUEST">>>>

Standing ==
    <<<<"no_flash", Reply(422, "liveness_failed")>>,
      <<"inactive", Reply(401, "unauthenticated")>>, <<"no_pin", Reply(409, "pin_not_set")>>>>

PinGuards == <<<<"pin_locked", "RATE_LIMITED">>>>

Place ==
    <<<<"wrong_pin", Reply(401, "pin_mismatch")>>,
      <<"odd_coordinates", Reply(422, "invalid_location")>>,
      <<"outside", Reply(422, "outside_geofence")>>,
      <<"not_enrolled", Reply(409, "no_reference_embedding")>>>>

\* VerifyService.execute, fle.open_envelope, resolve, and the engine's gate.
VerifyGuards ==
    <<<<"too_often", "RATE_LIMITED">>, <<"mock_location", "MOCK_LOCATION">>,
      <<"emulator", "EMULATOR_DETECTED">>, <<"stale", "STALE_CAPTURE">>,
      <<"model_changed", "MODEL_VERSION_MISMATCH">>, <<"key_changed", "DECRYPT_FAILED">>,
      <<"foreign_key", "BAD_REQUEST">>, <<"photo_too_large", "PAYLOAD_TOO_LARGE">>,
      <<"no_photo", "UPSTREAM_STORAGE_ERROR">>, <<"same_photo", "REPLAY_DETECTED">>,
      <<"no_face", "NO_FACE_DETECTED">>, <<"two_faces", "MULTIPLE_FACES">>,
      <<"far", "FACE_TOO_SMALL">>, <<"blurred", "IMAGE_TOO_BLURRY">>,
      <<"dark", "IMAGE_TOO_DARK">>>>

Score == <<<<"other_face", "NO_MATCH">>, <<"half_match", "LOW_CONFIDENCE">>>>

FlawsOf(guards) == {guards[i][1] : i \in DOMAIN guards}
Flaws == UNION {FlawsOf(g) :
                g \in {Gate, LivenessGuards, Standing, PinGuards, Place, VerifyGuards, Score}}

VARIABLES
    flaws,    \* what is wrong with the attempt
    at,       \* where the request is
    resent,   \* _pnsmRetried
    compared, \* PIN comparisons made
    entry,    \* the decision of the entry written, or "none"
    alerted,  \* HR has been told of a security event
    reply,    \* the backend's answer
    verdict   \* what the phone shows of it

verdictVars == <<flaws, at, resent, compared, entry, alerted, reply, verdict>>

VerdictStages ==
    {"phone", "front", "liveness", "standing", "pin", "place", "verify", "score", "answered",
     "shown"}
NotShown == [kind |-> "none", title |-> "none"]

Reasons ==
    {"none", "ip_blocked", "rate_limited", "unauthenticated", "forbidden", "invalid_request",
     "liveness_failed", "pin_not_set", "pin_locked", "pin_mismatch", "invalid_location",
     "outside_geofence", "no_reference_embedding", "profile_needs_attention",
     "mock_location_detected", "emulator_detected", "replay_detected", "stale_capture",
     "low_face_match", "server_error"}
Titles ==
    {"none", "Checked in", "Sent for HR review", "Check-in rejected", "Outside office geofence",
     "Mock location detected", "Liveness check failed", "Incorrect PIN",
     "PIN temporarily locked", "Profile incomplete", "Server error",
     "Couldn't reach the server", "Request couldn't be processed"}

VerdictTypeOK ==
    /\ flaws \subseteq Flaws \cup {"outage"} /\ at \in VerdictStages
    /\ resent \in BOOLEAN /\ compared \in 0..2 /\ alerted \in BOOLEAN
    /\ entry \in {"none", "approved", "flagged"}
    /\ reply \in [http : Nat, status : {"none", "approved", "flagged", "rejected", "error"},
                  reason : Reasons]
    /\ verdict \in [kind : {"none", "success", "review", "rejected", "error"}, title : Titles]

VerdictInit ==
    \* Bound: at most two things are wrong at the start.
    /\ flaws \in {{}} \cup {{one, other} : one, other \in Flaws}
    /\ at = "phone" /\ resent = FALSE /\ compared = 0
    /\ entry = "none" /\ alerted = FALSE /\ reply = NoReply /\ verdict = NotShown

-----------------------------------------------------------------------------
Found(guards) == {i \in DOMAIN guards : guards[i][1] \in flaws}
Objection(guards) == guards[CHOOSE i \in Found(guards) : \A j \in Found(guards) : i <= j][2]

Answered(answer) == at' = "answered" /\ reply' = answer

Send ==
    /\ at = "phone"
    /\ at' = "front"
    /\ UNCHANGED <<flaws, resent, compared, entry, alerted, reply, verdict>>

\* One stage of the backend's own: its first objection, or on to the next.
Check(stage, guards, next) ==
    /\ at = stage
    /\ IF Found(guards) # {} THEN Answered(Objection(guards))
       ELSE at' = next /\ UNCHANGED reply
    /\ UNCHANGED <<flaws, resent, compared, entry, alerted, verdict>>

\* One call of the AI service that reports its first objection as an error.
Ask(stage, guards, next, Told(_)) ==
    /\ at = stage
    /\ IF Found(guards) # {} THEN Answered(Told(Envelope(Objection(guards))))
       ELSE at' = next /\ UNCHANGED reply
    /\ UNCHANGED <<flaws, resent, entry, verdict>>

AskLiveness ==
    Ask("liveness", LivenessGuards, "standing", ServerError) /\ UNCHANGED <<compared, alerted>>

\* A locked employee's PIN is not compared.
AskPin ==
    /\ Ask("pin", PinGuards, "place", PinError)
    /\ compared' = compared + (IF Found(PinGuards) = {} THEN 1 ELSE 0)
    /\ UNCHANGED alerted

\* Mutation: the alert is left to the caller.
AskVerifyQuietly ==
    Ask("verify", VerifyGuards, "score", VerifyError) /\ UNCHANGED <<compared, alerted>>

\* The SpoofAlert is written before the answer.
AskVerify ==
    /\ Ask("verify", VerifyGuards, "score", VerifyError)
    /\ alerted' = (alerted \/ (Found(VerifyGuards) # {}
                               /\ Objection(VerifyGuards) \in SecurityEvents))
    /\ UNCHANGED compared

\* The comparison is completed: an entry, unless it was rejected, and the answer.
Decide ==
    /\ at = "score"
    /\ LET code == IF Found(Score) = {} THEN "OK_MATCH" ELSE Objection(Score)
           decision == IF code = "OK_MATCH" THEN "approved" ELSE "flagged"
       IN IF code = "NO_MATCH"
          THEN Answered(Reply(HttpStatus(code), "low_face_match")) /\ UNCHANGED entry
          ELSE entry' = decision /\ Answered(Accepted(decision))
    /\ UNCHANGED <<flaws, resent, compared, alerted, verdict>>

\* A call of the AI service, or the database, fails for reasons of its own.
ServiceOutage ==
    /\ \/ /\ at \in {"liveness", "pin", "verify", "score"}
          /\ \E err \in {Bare, Unanswered, Envelope("INTERNAL")} :
                Answered(IF at = "pin" THEN PinError(err)
                       ELSE IF at = "liveness" THEN ServerError(err) ELSE VerifyError(err))
       \/ at \in {"standing", "place"} /\ Answered(Reply(500, "server_error"))
    /\ flaws' = flaws \cup {"outage"}
    /\ UNCHANGED <<resent, compared, entry, alerted, verdict>>

\* The answer does not arrive; or what follows the entry's insertion fails.
AnswerLost ==
    /\ at = "answered" /\ reply # NoReply
    /\ \/ reply' = NoReply
       \/ entry # "none" /\ reply' = Reply(500, "server_error")
    /\ flaws' = flaws \cup {"outage"}
    /\ UNCHANGED <<at, resent, compared, entry, alerted, verdict>>

-----------------------------------------------------------------------------
\* Mutation: any 401 ends the session, as it once did.
SessionEndedAny == reply.http = 401 /\ ~resent

\* http.js: a 401 means "sign in" only by its reason, and only once.
SessionEnded == reply.http = 401 /\ reply.reason = "unauthenticated" /\ ~resent

\* The refresh succeeds, and the request is sent again.
Resend ==
    /\ at = "answered" /\ SessionEnded
    /\ "inactive" \notin flaws
    /\ resent' = TRUE /\ at' = "front" /\ reply' = NoReply
    /\ flaws' = flaws \ {"expired"}
    /\ UNCHANGED <<compared, entry, alerted, verdict>>

\* The refresh fails: its error is what submitCheckin catches.
RefreshRefused ==
    /\ at = "answered" /\ SessionEnded
    /\ resent' = TRUE
    /\ \/ reply' = Reply(401, "unauthenticated") /\ UNCHANGED flaws
       \/ /\ reply' \in {Reply(500, "server_error"), NoReply}
          /\ flaws' = flaws \cup {"outage"}
    /\ UNCHANGED <<at, compared, entry, alerted, verdict>>

Rejected(title) == [kind |-> "rejected", title |-> title]
Failed(title) == [kind |-> "error", title |-> title]

\* submitCheckin and interpretCheckinResponse.
RejectionTitle(reason) ==
    CASE reason = "outside_geofence" -> "Outside office geofence"
      [] reason = "mock_location_detected" -> "Mock location detected"
      [] reason = "liveness_failed" -> "Liveness check failed"
      [] reason = "pin_mismatch" -> "Incorrect PIN"
      [] reason = "pin_locked" -> "PIN temporarily locked"
      [] reason \in {"no_reference_embedding", "profile_needs_attention"} -> "Profile incomplete"
      [] OTHER -> "Check-in rejected"

Interpretation(answer) ==
    IF answer = NoReply THEN Failed("Couldn't reach the server")
    ELSE CASE answer.status = "approved" -> [kind |-> "success", title |-> "Checked in"]
           [] answer.status = "flagged"  -> [kind |-> "review", title |-> "Sent for HR review"]
           [] answer.status = "rejected" -> Rejected(RejectionTitle(answer.reason))
           [] answer.status = "error"    -> Failed("Server error")
           [] answer.status = "none"     ->
                 Failed(IF answer.http >= 500 THEN "Server error"
                        ELSE "Request couldn't be processed")

ShowVerdict ==
    /\ at = "answered" /\ ~SessionEnded
    /\ verdict' = Interpretation(reply) /\ at' = "shown"
    /\ UNCHANGED <<flaws, resent, compared, entry, alerted, reply>>

VerdictNext ==
    \/ Send
    \/ Check("front", Gate, "liveness")
    \/ AskLiveness
    \/ Check("standing", Standing, "pin")
    \/ AskPin
    \/ Check("place", Place, "verify")
    \/ AskVerify \/ Decide
    \/ ServiceOutage \/ AnswerLost
    \/ Resend \/ RefreshRefused \/ ShowVerdict

VerdictSpec == VerdictInit /\ [][VerdictNext]_verdictVars

-----------------------------------------------------------------------------
\* What is shown as "Your face didn't match" although it is something else: the
\* reasons interpretCheckinResponse has no words for.
Misworded ==
    {"ip_blocked", "crowded", "expired", "role", "malformed", "clocks_apart",
     "frame_unreadable", "inactive", "no_pin", "odd_coordinates", "emulator", "stale",
     "foreign_key", "same_photo"}

\* The titles that tell a flaw.
TitlesFor(flaw) ==
    CASE flaw \in Misworded \cup {"other_face"} -> {"Check-in rejected"}
      [] flaw = "outside"                      -> {"Outside office geofence"}
      [] flaw = "mock_location"                -> {"Mock location detected"}
      [] flaw \in {"few_frames", "no_flash"}   -> {"Liveness check failed"}
      [] flaw = "wrong_pin"                    -> {"Incorrect PIN"}
      [] flaw = "pin_locked"                   -> {"PIN temporarily locked"}
      [] flaw \in {"not_enrolled", "model_changed"} -> {"Profile incomplete"}
      [] flaw = "half_match"                   -> {"Sent for HR review"}
      [] flaw = "too_large"                    -> {"Request couldn't be processed"}
      [] flaw = "outage"                       -> {"Server error", "Couldn't reach the server"}
      [] OTHER                                 -> {"Server error"}

\* What the employee is told is wrong is one of the things that are, whichever
\* of the services failed, refused or repeated the request.
ToldWhatIsWrong ==
    verdict.kind \notin {"none", "success"} =>
        \E flaw \in flaws : verdict.title \in TitlesFor(flaw)

\* Checked in, or under review, is said of an entry with that decision, and a
\* rejection of none.
ToldWhatIsRecorded ==
    /\ verdict.kind = "success" => entry = "approved"
    /\ verdict.kind = "review" => entry = "flagged"
    /\ verdict.kind = "rejected" => entry = "none"

\* "HR has been notified" is so.
NotifiedIsSo == verdict.title = "Mock location detected" => alerted

\* One submission costs at most one of the employee's PIN attempts.
ComparedOnce == compared <= 1

VerdictsFair == ToldWhatIsWrong /\ ToldWhatIsRecorded /\ NotifiedIsSo /\ ComparedOnce
=============================================================================
