---------------------------- MODULE PhoneEvidence ----------------------------
(***************************************************************************)
(* What a check-in tells the backend of the phone it comes from: the mock- *)
(* location check (mockLocation.js), the device (deviceInfo.js), the       *)
(* selfie (hardware.js) and its compression in a worker or, where there is *)
(* none, on the main thread (compression.js, compression.worker.js), put   *)
(* together by checkinService.js and submitted by api.js - or, in a build  *)
(* without a backend, answered by it.  Qualities are in hundredths.        *)
(***************************************************************************)
EXTENDS Integers, Sequences, FiniteSets

CONSTANTS
    Originals, \* sizes of photos, <<width, height>>
    Budgets    \* the pixels times quality that fit into MAX_SELFIE_BYTES

ASSUME EvidenceAssumption == Originals \subseteq Nat \X Nat /\ Budgets \subseteq Nat

MaxEdge == 900
MinEdge == 240
MinQuality == 35
QualityStep == 12
MaxEncodings == 8

VARIABLES
    platform,  \* "web", "android" or "ios"
    device,    \* what is true of the phone, and which of its parts work
    photo,     \* the photo's size, and the budget it meets
    answersItself, \* MOCK_BACKEND
    part,      \* what the sequence does next
    spoof,     \* the answer of checkMockLocation
    info,      \* the answer of getDeviceInfo
    reports,   \* what became of the anomaly report
    selfie,    \* the compressed photo
    sent,      \* the payload submitted, if any
    replied      \* the outcome

evidenceVars ==
    <<platform, device, photo, answersItself, part, spoof, info, reports, selfie, sent, replied>>
phoneFacts == <<platform, device, photo, answersItself>>

ReportFates == {"none", "lost", "refused", "kept"}
Untaken == [small |-> FALSE, edge |-> 0, passes |-> 0]
Unsent == <<>>
Unchecked == [isMock |-> FALSE, confidence |-> "unchecked"]
Unread == [emulator |-> FALSE, read |-> FALSE]

EvidenceTypeOK ==
    /\ platform \in {"web", "android", "ios"}
    /\ device \in [spoofed : BOOLEAN, virtual : BOOLEAN, checker : BOOLEAN, reader : BOOLEAN,
                   worker : {"none", "fails", "works"}, frames : {0, 2}]
    /\ photo \in Originals \X Budgets /\ answersItself \in BOOLEAN
    /\ part \in {"antispoof", "device", "capture", "compress", "gate", "submit", "done"}
    /\ spoof.confidence \in {"reliable", "weak", "unavailable", "unchecked"}
    /\ info.emulator \in BOOLEAN /\ reports \in ReportFates
    /\ selfie.passes \in 0..MaxEncodings
    /\ sent = Unsent \/ DOMAIN sent = {"mock", "emulator", "rooted", "frames", "bytesOk", "edge", "pinRight"}
    /\ replied \in {"none", "mock location", "cancelled", "error", "approved", "flagged", "rejected"}

EvidenceInit ==
    /\ platform \in {"web", "android", "ios"}
    /\ device \in [spoofed : BOOLEAN, virtual : BOOLEAN, checker : BOOLEAN, reader : BOOLEAN,
                   worker : {"none", "fails", "works"}, frames : {0, 2}]
    /\ photo \in Originals \X Budgets /\ answersItself \in BOOLEAN
    /\ part = "antispoof" /\ spoof = Unchecked /\ info = Unread /\ reports = "none"
    /\ selfie = Untaken /\ sent = Unsent /\ replied = "none"

Ends(outcome) == part' = "done" /\ replied' = outcome

\* What the checker can say: on Android what is true, on iOS a simulation it
\* does not know of passes for a real position.
CheckerSays == IF platform = "android" \/ ~device.spoofed THEN {device.spoofed} ELSE BOOLEAN

\* Mutation: a check that could not run passes.
MockAnswersOpen ==
    IF platform = "web" \/ ~device.checker THEN {[isMock |-> FALSE, confidence |-> "unavailable"]}
    ELSE {[isMock |-> says, confidence |-> IF platform = "android" THEN "reliable" ELSE "weak"] :
             says \in CheckerSays}

\* checkMockLocation: open in the browser, closed where the check fails.
MockAnswers ==
    IF platform = "web" THEN {[isMock |-> FALSE, confidence |-> "unavailable"]}
    ELSE IF ~device.checker THEN {[isMock |-> TRUE, confidence |-> "unavailable"]}
    ELSE {[isMock |-> says, confidence |-> IF platform = "android" THEN "reliable" ELSE "weak"] :
             says \in CheckerSays}

CheckMock ==
    /\ part = "antispoof"
    /\ spoof' \in MockAnswers
    /\ part' = "device"
    /\ UNCHANGED <<phoneFacts, info, reports, selfie, sent, replied>>

\* getDeviceInfo: no emulator in the browser; one where the call fails.
DeviceInfo ==
    [emulator |-> platform # "web" /\ (device.virtual \/ ~device.reader), read |-> platform # "web"]

\* The types in which a report may say how sure the check is, as the schema of
\* the backend has them, and the type it says it in: spoof.confidence is a word.
ConfidenceTypes == {"absent", "number"}
ConfidenceType == "string"

\* POST /anomaly keeps the reports its schema accepts and answers others 422.
AnomalyFate == IF ConfidenceType \in ConfidenceTypes THEN "kept" ELSE "refused"

\* reportSpoofingAnomaly never fails its caller, whatever becomes of the report.
Report == reports' \in (IF answersItself THEN {"none"} ELSE {"lost", AnomalyFate})

\* The device is read; a mock location is reported and ends the sequence.
ReadDevice ==
    /\ part = "device"
    /\ info' = DeviceInfo
    /\ IF spoof.isMock THEN Report /\ Ends("mock location")
                       ELSE part' = "capture" /\ UNCHANGED <<reports, replied>>
    /\ UNCHANGED <<phoneFacts, spoof, selfie, sent>>

\* The camera's sheet is cancelled, or gives a photo.
CaptureSelfie ==
    /\ part = "capture"
    /\ (part' = "compress" /\ UNCHANGED replied) \/ Ends("cancelled")
    /\ UNCHANGED <<phoneFacts, spoof, info, reports, selfie, sent>>

Rounded(n, d) == (2 * n + d) \div (2 * d)
Larger(a, b) == IF a > b THEN a ELSE b
Smaller(a, b) == IF a < b THEN a ELSE b

\* The longer edge is brought to MaxEdge; an empty picture stays empty.
FitDimensions(w, h) ==
    IF w <= 0 \/ h <= 0 THEN <<0, 0>>
    ELSE IF w <= MaxEdge /\ h <= MaxEdge THEN <<w, h>>
    ELSE <<Rounded(w * MaxEdge, Larger(w, h)), Rounded(h * MaxEdge, Larger(w, h))>>

\* The state of the loop before its first pass, at a budget.
Unencoded(original) ==
    LET fit == FitDimensions(original[1], original[2])
    IN  [w |-> fit[1], h |-> fit[2], quality |-> 82, passes |-> 0, small |-> FALSE, edge |-> 0, stop |-> FALSE]

\* Mutation: the loop goes on however narrow the picture.
EncodeNarrow(s, budget) ==
    LET fits == s.w * s.h * s.quality <= budget
        lower == s.quality > MinQuality
        shrunk == [s EXCEPT !.w = Rounded(82 * @, 100), !.h = Rounded(82 * @, 100)]
    IN  [(IF fits THEN s ELSE IF lower THEN [s EXCEPT !.quality = Larger(MinQuality, @ - QualityStep)]
          ELSE shrunk)
         EXCEPT !.passes = s.passes + 1, !.small = fits, !.edge = Smaller(s.w, s.h), !.stop = fits]

\* One pass: it fits, or the quality is lowered, or at its lowest the size,
\* until an edge would be too short.
Encode(s, budget) ==
    LET fits == s.w * s.h * s.quality <= budget
        lower == s.quality > MinQuality
        shrunk == [s EXCEPT !.w = Rounded(82 * @, 100), !.h = Rounded(82 * @, 100)]
    IN  [(IF fits THEN s ELSE IF lower THEN [s EXCEPT !.quality = Larger(MinQuality, @ - QualityStep)]
          ELSE shrunk)
         EXCEPT !.passes = s.passes + 1, !.small = fits, !.edge = Smaller(s.w, s.h),
                !.stop = fits \/ (~lower /\ Smaller(shrunk.w, shrunk.h) < MinEdge)]

\* The loop, which is the worker's and the main thread's alike.
EncodedPhoto(original, budget) ==
    LET loop[n \in 0..MaxEncodings] ==
            IF n = 0 THEN Unencoded(original)
            ELSE IF loop[n - 1].stop THEN loop[n - 1] ELSE Encode(loop[n - 1], budget)
        result == loop[MaxEncodings]
    IN  [small |-> result.small, edge |-> result.edge, passes |-> result.passes]

\* The worker answers once: with the photo, or with an error.
WorkerAnswers ==
    IF device.worker = "works" THEN {<<EncodedPhoto(photo[1], photo[2])>>} ELSE {Unsent}

\* compressSelfie: whatever goes wrong with the worker, the main thread does
\* it from the beginning; a photo it cannot decode ends the sequence.
CompressSelfie ==
    /\ part = "compress"
    /\ \/ /\ device.worker # "none"
          /\ \E answer \in WorkerAnswers : answer # Unsent /\ selfie' = answer[1]
          /\ part' = "gate" /\ UNCHANGED replied
       \/ /\ device.worker = "none" \/ Unsent \in WorkerAnswers
          /\ \/ selfie' = EncodedPhoto(photo[1], photo[2]) /\ part' = "gate" /\ UNCHANGED replied
             \/ UNCHANGED selfie /\ Ends("error")
    /\ UNCHANGED <<phoneFacts, spoof, info, reports, sent>>

\* isUnderSizeLimit, and the upload, which may fail.
PassGate ==
    /\ part = "gate"
    /\ (selfie.small /\ part' = "submit" /\ UNCHANGED replied) \/ Ends("error")
    /\ UNCHANGED <<phoneFacts, spoof, info, reports, selfie, sent>>

\* The payload: whether the phone is rooted nobody looked at.
Payload(pinRight) ==
    [mock |-> spoof.isMock, emulator |-> info.emulator, rooted |-> FALSE, frames |-> device.frames,
     bytesOk |-> selfie.small, edge |-> selfie.edge, pinRight |-> pinRight]

\* The build without a backend answers like one: PIN, position, frames, and
\* then by chance.
MockSubmitCheckin(p) ==
    IF ~p.pinRight \/ p.mock \/ p.frames < 2 THEN {"rejected"} ELSE {"approved", "flagged", "rejected"}

\* The backend, external here: it refuses a mock location and too few frames;
\* or it is not reached.
BackendReplies(p) ==
    {"rejected", "error"} \cup (IF p.mock \/ p.frames < 2 THEN {} ELSE {"approved", "flagged"})

SubmitEvidence ==
    /\ part = "submit"
    /\ \E pinRight \in BOOLEAN : sent' = Payload(pinRight)
    /\ \E outcome \in (IF answersItself THEN MockSubmitCheckin(sent') ELSE BackendReplies(sent')) :
          Ends(outcome)
    /\ UNCHANGED <<phoneFacts, spoof, info, reports, selfie>>

EvidenceNext ==
    \/ CheckMock \/ ReadDevice \/ CaptureSelfie \/ CompressSelfie \/ PassGate \/ SubmitEvidence

EvidenceSpec == EvidenceInit /\ [][EvidenceNext]_evidenceVars

-----------------------------------------------------------------------------
\* On a phone, a check that could not run is never told as harmless: a position
\* passes for real only if the checker said so, and a device for none that is
\* emulated only if it was read.  (Nothing checks whether it is rooted: that is
\* always denied.)
UnknownIsSuspect ==
    (sent # Unsent /\ platform # "web") =>
        /\ ~sent.mock => device.checker /\ (platform = "android" => ~device.spoofed)
        /\ ~sent.emulator => device.reader /\ ~device.virtual

\* A photo that is sent fits, and was made no narrower for it than a face can
\* be recognised in - whichever thread encoded it.
PhotoIsLegible ==
    sent # Unsent =>
        /\ sent.bytesOk
        /\ LET fit == FitDimensions(photo[1][1], photo[1][2])
           IN  sent.edge >= Smaller(MinEdge, Smaller(fit[1], fit[2]))

\* Only mocked positions are reported, and nobody is accused: what is meant
\* "for administrative review" (lib/api.js) never passes the API's schema.
ReportsAreOfMocks ==
    /\ reports # "none" => replied = "mock location" /\ spoof.isMock
    /\ reports # "kept"

EvidenceHonest == UnknownIsSuspect /\ PhotoIsLegible /\ ReportsAreOfMocks
=============================================================================
