------------------------------- MODULE MCParts -------------------------------
(***************************************************************************)
(* The parts of the system that keep a state of their own and share none   *)
(* with each other: of the AI service the stores behind /v1/verify, the    *)
(* cache of data keys, the envelopes and their migration, the calibration; *)
(* of the backend and the console leave, review, onboarding, offices, the  *)
(* geofence editor, the perimeter, the shift days, the dashboard's days,   *)
(* the live board, the photos, who may call what and the exported reports; *)
(* of the phone its session, its heartbeat, the check-in screen with its   *)
(* form and its evidence and what it says of an answer; of both servers    *)
(* how they start.  A behaviour exercises one of them, chosen at the       *)
(* start, so that their states add up instead of multiplying.              *)
(***************************************************************************)
EXTENDS NonceStore, RateMeter, PhotoHistory, DekCache, KeyMigration, AiRuntime,
        LeaveDesk, ReviewDesk, Onboarding, Offices, Perimeter, ShiftWeek,
        MobileSession, Telemetry, CheckInPhone, Access, ReportExport, PhotoPick,
        Verdicts, Startup, CheckInForm, PhoneEvidence, LiveBoard,
        FenceCircle, DhakaDays

VARIABLE focus

Parts == {"nonces", "rate", "photos", "cache", "migration", "runtime",
          "leave", "queue", "feed", "onboarding", "pin", "address", "tabs", "perimeter", "week",
          "session", "telemetry", "checkin", "access", "export",
          "photo", "verdict", "boot", "form", "evidence", "socket", "map",
          "tile", "circle", "days"}

MCBodies == {[id |-> "i1", captured |-> 1], [id |-> "i2", captured |-> 3],
             [id |-> "i3", captured |-> 2]}

MCCalibrations ==
    {[sound |-> TRUE, model |-> "m1", fingerprint |-> "p1"],
     [sound |-> TRUE, model |-> "m1", fingerprint |-> "none"],
     [sound |-> TRUE, model |-> "m1", fingerprint |-> "p2"],
     [sound |-> TRUE, model |-> "m2", fingerprint |-> "p1"],
     [sound |-> FALSE, model |-> "m1", fingerprint |-> "p1"]}

\* A leave of two days, and one whose end precedes its start.
MCRequests == {[id |-> "r1", key |-> "b1", days |-> 2], [id |-> "r2", key |-> "b1", days |-> -1]}

\* Every range, every list of one, two or all days.
MCLabels ==
    {label \in WeekLabels :
        label[1] = "list" => Cardinality(label[2]) \in {1, 2, 7}}

SomePhoto == <<<<200, 100>>, 40000000>>
SomeDevice ==
    [spoofed |-> FALSE, virtual |-> FALSE, checker |-> TRUE, reader |-> TRUE, worker |-> "works",
     frames |-> 2]

\* Photos of either shape, and budgets that are met at once, or only by
\* shrinking the larger.
MCOriginals == {<<1200, 500>>, <<200, 100>>}

\* Two positions in Dhaka 200 m apart, one of Rajshahi with latitude and
\* longitude swapped, and Dhaka on a map that was panned once round the globe.
MCSpots ==
    {[lat |-> 23780, lng |-> 90407], [lat |-> 23782, lng |-> 90407],
     [lat |-> 88600, lng |-> 24400], [lat |-> 23780, lng |-> 450407]}
MCCentre == [lat |-> 23780, lng |-> 90407]

\* The review queue and the feed hear of the same logs and share nothing else:
\* the one without fetches of the other, which does without answered decisions.
QueueStep == ReviewNext /\ UNCHANGED feedFetch
FeedStep == ReviewNext /\ UNCHANGED <<decided, failed>>

\* Slots and ids that differ in nothing but their names are taken in order:
\* the second is taken only when the first is not free.
FirstFree(before, after, one, two, free) ==
    before[two] = free /\ after[two] # free => before[one] # free

OnboardingStep ==
    /\ OnboardingNext
    /\ FirstFree(staff, staff', "a1", "a2", NoAccount)
    /\ FirstFree(hiring, hiring', "f1", "f2", NoForm)
    /\ FirstFree(rephoto, rephoto', "j1", "j2", NoForm)

CheckInStep == CheckInPhoneNext /\ FirstFree(runs, runs', "r1", "r2", NoRun)

\* One tab moves the pin, or types the address, with requests that fail or
\* are forgotten; two tabs save, remove and load an office that is there.
LoneTab == UNCHANGED <<listing["t2"], drafts["t2"]>>
PinStep == OfficesNext /\ LoneTab /\ \A a \in Addresses : ~TypeAddress("t1", a)
AddressStep == OfficesNext /\ LoneTab /\ \A p \in Pins : ~MovePin("t1", p)
TabsStep ==
    /\ OfficesNext
    /\ \A i \in 1..MaxSaves : ~SaveFails(i)
    /\ \A e \in Editors :
        /\ listing[e] # NoFence => listing'[e] = NoFence
        /\ ~UntickPin(e)
        /\ \A p \in Pins : ~OpenNew(e, p) /\ (e = "t1" \/ ~MovePin(e, p))
        /\ \A a \in Addresses : ~TypeAddress(e, a)

MCInit ==
    /\ focus \in Parts
    /\ NonceInit /\ RateInit /\ PhotoInit /\ DekInit /\ RuntimeInit /\ KeyInit
    \* Keys, models, vectors and employees are alike at the start.
    /\ setting = <<"static", "k1">> /\ model = "m1"
    /\ enrolled["u1"] = <<"x", "m1">> /\ enrolled["u2"] \in {<<"x", "m1">>, NoEnvelope}
    /\ focus # "migration" => enrolled["u2"] = NoEnvelope
    /\ focus # "runtime" => disk.fingerprint = "none"
    /\ LeaveInit /\ ReviewInit /\ OnboardingInit /\ PerimeterInit
    /\ OfficesInit
    /\ focus \notin {"pin", "address", "tabs"} => typed = {}
    /\ focus = "tabs" => typed # {}
    /\ WeekInit /\ MobileInit /\ TelemetryInit /\ CheckInPhoneInit
    /\ AccessInit /\ roleOf["u1"] = "super_admin"
    /\ focus # "access" => algorithm = "HS256" /\ roleOf["u2"] = "employee"
    /\ ExportInit
    /\ focus # "export" => recorded = <<>>
    /\ PickInit /\ VerdictInit
    /\ focus # "photo" => parent = "form" /\ publicBase
    /\ focus # "verdict" => flaws = {}
    /\ StartupInit
    /\ focus # "boot" => env = "test" /\ off = {}
    /\ env = "test" => Cardinality(off) <= 1
    /\ focus # "form" => locPerm = "prompt"
    /\ FormInit
    /\ focus # "evidence" => platform = "web" /\ device = SomeDevice
                             /\ photo = SomePhoto /\ answersItself = FALSE
    /\ EvidenceInit
    /\ BoardInit
    /\ FenceInit
    /\ DayInit
    /\ focus # "days" => cutoff = 0

\* The part in focus takes a step, the others stay.
MCNext ==
    /\ UNCHANGED focus
    /\ IF focus = "nonces"     THEN NonceNext        ELSE UNCHANGED nonceVars
    /\ IF focus = "rate"       THEN RateNext         ELSE UNCHANGED rateVars
    /\ IF focus = "photos"     THEN PhotoNext        ELSE UNCHANGED photoVars
    /\ IF focus = "cache"      THEN DekNext          ELSE UNCHANGED dekVars
    /\ IF focus = "migration"  THEN KeyNext          ELSE UNCHANGED keyVars
    /\ IF focus = "runtime"    THEN RuntimeNext      ELSE UNCHANGED runtimeVars
    /\ IF focus = "leave"      THEN LeaveNext        ELSE UNCHANGED leaveVars
    /\ CASE focus = "queue"   -> QueueStep
         [] focus = "feed"    -> FeedStep
         [] OTHER             -> UNCHANGED reviewVars
    /\ IF focus = "onboarding" THEN OnboardingStep   ELSE UNCHANGED onboardingVars
    /\ CASE focus = "pin"     -> PinStep
         [] focus = "address" -> AddressStep
         [] focus = "tabs"    -> TabsStep
         [] OTHER             -> UNCHANGED officeVars
    /\ IF focus = "perimeter"  THEN PerimeterNext    ELSE UNCHANGED perimeterVars
    /\ IF focus = "week"       THEN WeekNext         ELSE UNCHANGED shift
    /\ IF focus = "session"    THEN MobileNext       ELSE UNCHANGED mobileVars
    /\ IF focus = "telemetry"  THEN TelemetryNext    ELSE UNCHANGED telemetryVars
    /\ IF focus = "checkin"    THEN CheckInStep      ELSE UNCHANGED phoneVars
    /\ IF focus = "access"     THEN AccessNext       ELSE UNCHANGED accessVars
    /\ IF focus = "photo"      THEN PickNext         ELSE UNCHANGED pickVars
    /\ IF focus = "verdict"    THEN VerdictNext      ELSE UNCHANGED verdictVars
    /\ IF focus = "boot"       THEN StartupNext      ELSE UNCHANGED startupVars
    /\ IF focus = "form"       THEN FormNext         ELSE UNCHANGED formVars
    /\ IF focus = "evidence"   THEN EvidenceNext     ELSE UNCHANGED evidenceVars
    /\ IF focus = "socket"     THEN SocketNext       ELSE UNCHANGED socketVars
    /\ IF focus = "map"        THEN MapNext          ELSE UNCHANGED mapVars
    /\ IF focus = "tile"       THEN TileNext         ELSE UNCHANGED tileVars
    /\ IF focus = "circle"     THEN FenceNext        ELSE UNCHANGED fenceVars
    /\ IF focus = "days"       THEN DayNext          ELSE UNCHANGED dayVars
    /\ IF focus = "export"     THEN ExportNext       ELSE UNCHANGED exportVars

MCVars ==
    <<focus, nonceVars, rateVars, photoVars, dekVars, keyVars, runtimeVars, leaveVars,
      reviewVars, onboardingVars, officeVars, perimeterVars, shift, mobileVars,
      telemetryVars, phoneVars, accessVars, exportVars, pickVars, verdictVars, startupVars,
      formVars, evidenceVars, socketVars, mapVars, tileVars, fenceVars, dayVars>>

MCSpec == MCInit /\ [][MCNext]_MCVars

\* Every part keeps values of its types; the parts out of focus stay as they
\* began, which is as they begin when they are in focus.
TypeOK ==
    CASE focus = "nonces"     -> NonceTypeOK
      [] focus = "rate"       -> RateTypeOK
      [] focus = "photos"     -> PhotoTypeOK
      [] focus = "cache"      -> DekTypeOK
      [] focus = "migration"  -> KeyTypeOK
      [] focus = "runtime"    -> RuntimeTypeOK
      [] focus = "leave"      -> LeaveTypeOK
      [] focus \in {"queue", "feed"} -> ReviewTypeOK
      [] focus = "onboarding" -> OnboardingTypeOK
      [] focus \in {"pin", "address", "tabs"} -> OfficesTypeOK
      [] focus = "perimeter"  -> PerimeterTypeOK
      [] focus = "week"       -> WeekTypeOK
      [] focus = "session"    -> MobileTypeOK
      [] focus = "telemetry"  -> TelemetryTypeOK
      [] focus = "checkin"    -> CheckInPhoneTypeOK
      [] focus = "access"     -> AccessTypeOK
      [] focus = "export"     -> ExportTypeOK
      [] focus = "photo"      -> PickTypeOK
      [] focus = "verdict"    -> VerdictTypeOK
      [] focus = "boot"       -> StartupTypeOK
      [] focus = "form"       -> FormTypeOK
      [] focus = "evidence"   -> EvidenceTypeOK
      [] focus \in {"socket", "map", "tile"} -> BoardTypeOK
      [] focus = "circle"     -> FenceTypeOK
      [] focus = "days"       -> DayTypeOK

\* What the guards of /v1/verify keep between requests: the rate's window, each
\* face's photos, and no more nonces than max_entries and the one coming in.
GuardStoresHold ==
    CASE focus = "rate"   -> RateHeld
      [] focus = "photos" -> PhotoServedOnce
      [] focus = "nonces" -> NoncesBounded
      [] OTHER            -> TRUE

\* The phone: the sequence of a check-in, its form, and what it tells of itself.
PhoneSound ==
    CASE focus = "checkin"  -> PhoneCheckinSound
      [] focus = "form"     -> FormSound
      [] focus = "evidence" -> EvidenceHonest
      [] OTHER              -> TRUE

\* The console's live views: the caches of queue and feed, the board, and the
\* geofence on the editor's map.
ScreensAgree ==
    CASE focus \in {"queue", "feed"}         -> QueuesAgree
      [] focus \in {"socket", "map", "tile"} -> BoardSound
      [] focus = "circle"                    -> FenceSound
      [] OTHER                               -> TRUE

\* The days of a shift, and the days the dashboard counts by.
DaysHold ==
    CASE focus = "week" -> DaysRoundTrip
      [] focus = "days" -> DaysCounted
      [] OTHER          -> TRUE

\* The data keys: not used for longer than the cache may, and not too many.
KeyCacheHolds == focus = "cache" => RevocationTakesEffect /\ DeksBounded
=============================================================================
