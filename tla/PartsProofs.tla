----------------------------- MODULE PartsProofs -----------------------------
(***************************************************************************)
(* A behaviour of MCParts is, for each part, a behaviour of that part      *)
(* alone: it starts as the part does, and each of its steps is one of the  *)
(* part's or leaves the part as it was.  So what is proved of the parts,   *)
(* for every value of their constants, holds of the composition too, and   *)
(* what the runs check of a part while it is in focus.                     *)
(***************************************************************************)
EXTENDS MCParts, AiServiceProofs, PhoneProofs, BackOfficeProofs

-----------------------------------------------------------------------------
LEMMA NonceFollows == MCSpec => NonceSpec
  <1>1. MCInit => NonceInit
    BY DEF MCInit
  <1>2. [MCNext]_MCVars => [NonceNext]_nonceVars
    BY DEF MCNext, MCVars
  <1> QED
    BY <1>1, <1>2, PTL DEF MCSpec, NonceSpec

LEMMA RateFollows == MCSpec => RateSpec
  <1>1. MCInit => RateInit
    BY DEF MCInit
  <1>2. [MCNext]_MCVars => [RateNext]_rateVars
    BY DEF MCNext, MCVars
  <1> QED
    BY <1>1, <1>2, PTL DEF MCSpec, RateSpec

LEMMA PhotoFollows == MCSpec => PhotoSpec
  <1>1. MCInit => PhotoInit
    BY DEF MCInit
  <1>2. [MCNext]_MCVars => [PhotoNext]_photoVars
    BY DEF MCNext, MCVars
  <1> QED
    BY <1>1, <1>2, PTL DEF MCSpec, PhotoSpec

LEMMA DekFollows == MCSpec => DekSpec
  <1>1. MCInit => DekInit
    BY DEF MCInit
  <1>2. [MCNext]_MCVars => [DekNext]_dekVars
    BY DEF MCNext, MCVars
  <1> QED
    BY <1>1, <1>2, PTL DEF MCSpec, DekSpec

LEMMA KeyFollows == MCSpec => KeySpec
  <1>1. MCInit => KeyInit
    BY DEF MCInit
  <1>2. [MCNext]_MCVars => [KeyNext]_keyVars
    BY DEF MCNext, MCVars
  <1> QED
    BY <1>1, <1>2, PTL DEF MCSpec, KeySpec

LEMMA RuntimeFollows == MCSpec => RuntimeSpec
  <1>1. MCInit => RuntimeInit
    BY DEF MCInit
  <1>2. [MCNext]_MCVars => [RuntimeNext]_runtimeVars
    BY DEF MCNext, MCVars
  <1> QED
    BY <1>1, <1>2, PTL DEF MCSpec, RuntimeSpec

LEMMA ReviewFollows == MCSpec => ReviewSpec
  <1>1. MCInit => ReviewInit
    BY DEF MCInit
  <1>2. [MCNext]_MCVars => [ReviewNext]_reviewVars
    BY DEF MCNext, MCVars, QueueStep, FeedStep
  <1> QED
    BY <1>1, <1>2, PTL DEF MCSpec, ReviewSpec

LEMMA OnboardingFollows == MCSpec => OnboardingSpec
  <1>1. MCInit => OnboardingInit
    BY DEF MCInit
  <1>2. [MCNext]_MCVars => [OnboardingNext]_onboardingVars
    BY DEF MCNext, MCVars, OnboardingStep
  <1> QED
    BY <1>1, <1>2, PTL DEF MCSpec, OnboardingSpec

LEMMA OfficesFollows == MCSpec => OfficesSpec
  <1>1. MCInit => OfficesInit
    BY DEF MCInit
  <1>2. [MCNext]_MCVars => [OfficesNext]_officeVars
    BY DEF MCNext, MCVars, PinStep, AddressStep, TabsStep
  <1> QED
    BY <1>1, <1>2, PTL DEF MCSpec, OfficesSpec

LEMMA PerimeterFollows == MCSpec => PerimeterSpec
  <1>1. MCInit => PerimeterInit
    BY DEF MCInit
  <1>2. [MCNext]_MCVars => [PerimeterNext]_perimeterVars
    BY DEF MCNext, MCVars
  <1> QED
    BY <1>1, <1>2, PTL DEF MCSpec, PerimeterSpec

LEMMA WeekFollows == MCSpec => WeekSpec
  <1>1. MCInit => WeekInit
    BY DEF MCInit
  <1>2. [MCNext]_MCVars => [WeekNext]_shift
    BY DEF MCNext, MCVars
  <1> QED
    BY <1>1, <1>2, PTL DEF MCSpec, WeekSpec

LEMMA SessionFollows == MCSpec => MobileSpec
  <1>1. MCInit => MobileInit
    BY DEF MCInit
  <1>2. [MCNext]_MCVars => [MobileNext]_mobileVars
    BY DEF MCNext, MCVars
  <1> QED
    BY <1>1, <1>2, PTL DEF MCSpec, MobileSpec

LEMMA BeatsFollows == MCSpec => TelemetrySpec
  <1>1. MCInit => TelemetryInit
    BY DEF MCInit
  <1>2. [MCNext]_MCVars => [TelemetryNext]_telemetryVars
    BY DEF MCNext, MCVars
  <1> QED
    BY <1>1, <1>2, PTL DEF MCSpec, TelemetrySpec

LEMMA PhoneCheckinFollows == MCSpec => CheckInPhoneSpec
  <1>1. MCInit => CheckInPhoneInit
    BY DEF MCInit
  <1>2. [MCNext]_MCVars => [CheckInPhoneNext]_phoneVars
    BY DEF MCNext, MCVars, CheckInStep
  <1> QED
    BY <1>1, <1>2, PTL DEF MCSpec, CheckInPhoneSpec

LEMMA AccessFollows == MCSpec => AccessSpec
  <1>1. MCInit => AccessInit
    BY DEF MCInit
  <1>2. [MCNext]_MCVars => [AccessNext]_accessVars
    BY DEF MCNext, MCVars
  <1> QED
    BY <1>1, <1>2, PTL DEF MCSpec, AccessSpec

LEMMA PickFollows == MCSpec => PickSpec
  <1>1. MCInit => PickInit
    BY DEF MCInit
  <1>2. [MCNext]_MCVars => [PickNext]_pickVars
    BY DEF MCNext, MCVars
  <1> QED
    BY <1>1, <1>2, PTL DEF MCSpec, PickSpec

LEMMA VerdictFollows == MCSpec => VerdictSpec
  <1>1. MCInit => VerdictInit
    BY DEF MCInit
  <1>2. [MCNext]_MCVars => [VerdictNext]_verdictVars
    BY DEF MCNext, MCVars
  <1> QED
    BY <1>1, <1>2, PTL DEF MCSpec, VerdictSpec

LEMMA LeaveFollows == MCSpec => LeaveSpec
  <1>1. MCInit => LeaveInit
    BY DEF MCInit
  <1>2. [MCNext]_MCVars => [LeaveNext]_leaveVars
    BY DEF MCNext, MCVars
  <1> QED
    BY <1>1, <1>2, PTL DEF MCSpec, LeaveSpec

LEMMA ExportFollows == MCSpec => ExportSpec
  <1>1. MCInit => ExportInit
    BY DEF MCInit
  <1>2. [MCNext]_MCVars => [ExportNext]_exportVars
    BY DEF MCNext, MCVars
  <1> QED
    BY <1>1, <1>2, PTL DEF MCSpec, ExportSpec

LEMMA FormFollows == MCSpec => FormSpec
  <1>1. MCInit => FormInit
    BY DEF MCInit
  <1>2. [MCNext]_MCVars => [FormNext]_formVars
    BY DEF MCNext, MCVars
  <1> QED
    BY <1>1, <1>2, PTL DEF MCSpec, FormSpec

LEMMA EvidenceFollows == MCSpec => EvidenceSpec
  <1>1. MCInit => EvidenceInit
    BY DEF MCInit
  <1>2. [MCNext]_MCVars => [EvidenceNext]_evidenceVars
    BY DEF MCNext, MCVars
  <1> QED
    BY <1>1, <1>2, PTL DEF MCSpec, EvidenceSpec

LEMMA CircleFollows == MCSpec => FenceSpec
  <1>1. MCInit => FenceInit
    BY DEF MCInit
  <1>2. [MCNext]_MCVars => [FenceNext]_fenceVars
    BY DEF MCNext, MCVars
  <1> QED
    BY <1>1, <1>2, PTL DEF MCSpec, FenceSpec

LEMMA DayFollows == MCSpec => DaySpec
  <1>1. MCInit => DayInit
    BY DEF MCInit
  <1>2. [MCNext]_MCVars => [DayNext]_dayVars
    BY DEF MCNext, MCVars
  <1> QED
    BY <1>1, <1>2, PTL DEF MCSpec, DaySpec

LEMMA BoardFollows == MCSpec => BoardSpec
  <1>1. MCInit => BoardInit
    BY DEF MCInit
  <1>2. [MCNext]_MCVars => [SocketNext]_socketVars
    BY DEF MCNext, MCVars
  <1>3. [MCNext]_MCVars => [MapNext]_mapVars
    BY DEF MCNext, MCVars
  <1>4. [MCNext]_MCVars => [TileNext]_tileVars
    BY DEF MCNext, MCVars
  <1> QED
    BY <1>1, <1>2, <1>3, <1>4, PTL DEF MCSpec, BoardSpec

LEMMA StartupFollows == MCSpec => StartupSpec
  <1>1. MCInit => Configured
    BY DEF MCInit, StartupInit
  <1>2. [MCNext]_MCVars => [StartupNext]_startupVars
    BY DEF MCNext, MCVars
  <1> QED
    BY <1>1, <1>2, PTL DEF MCSpec, StartupSpec

-----------------------------------------------------------------------------
\* The nonces, the rate and the photos behind /v1/verify, for any numbers of
\* bodies, users, digests and workers: stores.py and guards.py.
THEOREM GuardStoresDoHold == MCSpec => []GuardStoresHold
  <1>1. RateHeld /\ PhotoServedOnce /\ NoncesBounded => GuardStoresHold
    BY DEF GuardStoresHold
  <1> QED
    BY RateFollows, PhotoFollows, NonceFollows, RateIsHeld, PhotosServedOnce, NoncesStayBounded,
       <1>1, PTL

\* The cache of data keys, for any number of keys and callers: keyproviders.py.
THEOREM KeyCacheDoesHold == MCSpec => []KeyCacheHolds
  <1>1. RevocationTakesEffect /\ DeksBounded => KeyCacheHolds
    BY DEF KeyCacheHolds
  <1> QED
    BY DekFollows, RevocationsTakeEffect, DeksStayBounded, <1>1, PTL

\* The phone's check-in, its form and what it tells of itself, for any number
\* of runs, screens, PIN digits and photos: CheckInScreen.jsx, compression.js.
THEOREM PhonesAreSound == MCSpec => []PhoneSound
  <1>1. PhoneCheckinSound /\ FormSound /\ EvidenceHonest => PhoneSound
    BY DEF PhoneSound
  <1> QED
    BY PhoneCheckinFollows, FormFollows, EvidenceFollows, PhoneCheckinsAreSound, FormsAreSound,
       EvidenceIsHonest, <1>1, PTL

\* The console's queue and feed, board and map, for any number of logs, people,
\* zones and edits, in whatever order answers and events come: the screens
\* agree with what was answered and heard.
THEOREM ScreensDoAgree == MCSpec => []ScreensAgree
  <1>1. QueuesAgree /\ BoardSound /\ FenceSound => ScreensAgree
    BY DEF ScreensAgree
  <1> QED
    BY ReviewFollows, BoardFollows, CircleFollows, QueuesDoAgree, BoardsAreSound, FencesAreSound,
       <1>1, PTL

\* The days of a shift and the days of Dhaka, for any labels, days and
\* arrivals: employee-form.tsx and dashboardService.ts.
THEOREM DaysDoHold == MCSpec => []DaysHold
  <1>1. DaysRoundTrip /\ DaysCounted => DaysHold
    BY DEF DaysHold
  <1> QED
    BY WeekFollows, DayFollows, DaysAreReadBack, DaysAreCounted, <1>1, PTL

-----------------------------------------------------------------------------
\* Every step of a part keeps values of its types.
LEMMA NoncesTyped == NonceSpec => []NonceTypeOK
  <1>1. NonceInv => NonceTypeOK
    BY DEF NonceInv
  <1> QED
    BY <1>1, NonceStarts, NonceStep, PTL DEF NonceSpec

LEMMA RatesTyped == RateSpec => []RateTypeOK
  <1>1. RateInv => RateTypeOK
    BY DEF RateInv
  <1> QED
    BY <1>1, RateStarts, RateStep, PTL DEF RateSpec

LEMMA PhotosTyped == PhotoSpec => []PhotoTypeOK
  <1>1. PhotoInv => PhotoTypeOK
    BY DEF PhotoInv
  <1> QED
    BY <1>1, PhotosStart, PhotoStep, PTL DEF PhotoSpec

LEMMA DeksTyped == DekSpec => []DekTypeOK
  <1>1. DekInv => DekTypeOK
    BY DEF DekInv
  <1> QED
    BY <1>1, DeksStart, DekStep, PTL DEF DekSpec

LEMMA RuntimesTyped == RuntimeSpec => []RuntimeTypeOK
  <1>1. RuntimeInit => RuntimeInv
    BY DEF RuntimeInit, RuntimeTypeOK, RuntimeInv, Vetted
  <1>2. RuntimeInv => RuntimeTypeOK
    BY DEF RuntimeInv
  <1> QED
    BY <1>1, <1>2, RuntimeStep, PTL DEF RuntimeSpec

LEMMA SessionsTyped == MobileSpec => []MobileTypeOK
  <1>1. SessionInv /\ [MobileNext]_mobileVars => SessionInv'
    BY SessionTyped, NobodyStranded, FormKeptInOrder, TokensStayOwned DEF SessionInv
  <1>2. SessionInv => MobileTypeOK
    BY DEF SessionInv
  <1> QED
    BY <1>1, <1>2, SessionStarts, PTL DEF MobileSpec

LEMMA BeatsTyped == TelemetrySpec => []TelemetryTypeOK
  <1>1. BeatInv => TelemetryTypeOK
    BY DEF BeatInv
  <1> QED
    BY <1>1, BeatStarts, BeatStep, PTL DEF TelemetrySpec

LEMMA PhoneCheckinsTyped == CheckInPhoneSpec => []CheckInPhoneTypeOK
  <1>1. PhoneInv => CheckInPhoneTypeOK
    BY DEF PhoneInv
  <1> QED
    BY <1>1, PhoneStarts, PhoneStep, PTL DEF CheckInPhoneSpec

LEMMA FormsTyped == FormSpec => []FormTypeOK
  <1>1. FormInv => FormTypeOK
    BY DEF FormInv
  <1> QED
    BY <1>1, FormStarts, FormStep, PTL DEF FormSpec

LEMMA EvidenceTyped == EvidenceSpec => []EvidenceTypeOK
  <1>1. EvidenceInv => EvidenceTypeOK
    BY DEF EvidenceInv
  <1> QED
    BY <1>1, EvidenceStarts, EvidenceStep, PTL DEF EvidenceSpec

LEMMA StaffIsTyped == OnboardingSpec => []OnboardingTypeOK
  <1>1. OnboardingInv => OnboardingTypeOK
    BY DEF OnboardingInv
  <1> QED
    BY <1>1, OnboardingStarts, OnboardingStays, PTL DEF OnboardingSpec

LEMMA OfficesTyped == OfficesSpec => []OfficesTypeOK
  <1>1. OfficesInv => OfficesTypeOK
    BY DEF OfficesInv
  <1> QED
    BY <1>1, OfficesStart, OfficesStep, PTL DEF OfficesSpec

\* Points and rejections stay within their bounds, whichever server is up.
LimitsHeld ==
    /\ used \in [LimiterKeys -> 0..Points] /\ rejections \in [LimiterKeys -> 0..MaxRejections]
    /\ redisUp \in BOOLEAN /\ mongoUp \in BOOLEAN

LEMMA PerimeterIsTyped == PerimeterSpec => []PerimeterTypeOK
  <1>1. PerimeterInit => LimitsHeld
    BY PerimeterAssumption DEF PerimeterInit, LimitsHeld
  <1>2. LimitsHeld /\ [PerimeterNext]_perimeterVars => LimitsHeld'
    <2> SUFFICES ASSUME LimitsHeld, [PerimeterNext]_perimeterVars PROVE LimitsHeld'
      OBVIOUS
    <2>0. Points \in Nat /\ MaxRejections \in Nat
      BY PerimeterAssumption
    <2>1. ASSUME NEW s \in PerimeterSlots, Consume(s) PROVE LimitsHeld'
      <3> DEFINE k == KeyOf(s)
      <3>1. redisUp' = redisUp /\ mongoUp' = mongoUp
        BY <2>1 DEF Consume
      <3>2. \/ used[k] < Points /\ used' = [used EXCEPT ![k] = @ + 1] /\ rejections' = rejections
            \/ /\ rejections[k] < MaxRejections
               /\ rejections' = [rejections EXCEPT ![k] = @ + 1] /\ used' = used
            \/ used' = used /\ rejections' = rejections
        BY <2>1 DEF Consume
      <3> HIDE DEF k
      <3>3. used' \in [LimiterKeys -> 0..Points]
        BY <2>0, <3>2 DEF LimitsHeld
      <3>4. rejections' \in [LimiterKeys -> 0..MaxRejections]
        BY <2>0, <3>2 DEF LimitsHeld
      <3> QED
        BY <3>1, <3>3, <3>4 DEF LimitsHeld
    <2>2. ASSUME UNCHANGED <<used, rejections, redisUp, mongoUp>> PROVE LimitsHeld'
      BY <2>2 DEF LimitsHeld
    <2>3. CASE Lapse
      <3>1. used' = used \/ \E k \in LimiterKeys : used' = [used EXCEPT ![k] = 0]
        BY <2>3 DEF Lapse
      <3>2. used' \in [LimiterKeys -> 0..Points]
        BY <2>0, <3>1 DEF LimitsHeld
      <3> QED
        BY <2>3, <3>2 DEF Lapse, LimitsHeld
    <2>4. CASE Outage
      BY <2>4 DEF Outage, LimitsHeld
    <2> QED
      BY <2>1, <2>2, <2>3, <2>4
         DEF PerimeterNext, Strike, PassGuard, RecordIncident, PerimeterCrash, perimeterVars
  <1>3. LimitsHeld /\ PerimeterInv => PerimeterTypeOK
    BY DEF LimitsHeld, PerimeterInv, PerimeterTyped, PerimeterTypeOK, Visits
  <1> QED
    BY <1>1, <1>2, <1>3, PerimeterStarts, PerimeterStep, PTL DEF PerimeterSpec

\* One part is in focus from the start on.
LEMMA FocusStays == MCSpec => [](focus \in Parts)
  <1>1. MCInit => focus \in Parts
    BY DEF MCInit
  <1>2. focus \in Parts /\ [MCNext]_MCVars => (focus \in Parts)'
    BY DEF MCNext, MCVars
  <1> QED
    BY <1>1, <1>2, PTL DEF MCSpec

AllTyped ==
    /\ NonceTypeOK
    /\ RateTypeOK
    /\ PhotoTypeOK
    /\ DekTypeOK
    /\ KeyTypeOK
    /\ RuntimeTypeOK
    /\ LeaveTypeOK
    /\ ReviewTypeOK
    /\ OnboardingTypeOK
    /\ OfficesTypeOK
    /\ PerimeterTypeOK
    /\ WeekTypeOK
    /\ MobileTypeOK
    /\ TelemetryTypeOK
    /\ CheckInPhoneTypeOK
    /\ AccessTypeOK
    /\ ExportTypeOK
    /\ PickTypeOK
    /\ VerdictTypeOK
    /\ StartupTypeOK
    /\ FormTypeOK
    /\ EvidenceTypeOK
    /\ BoardTypeOK
    /\ FenceTypeOK
    /\ DayTypeOK

LEMMA AllPartsTyped == MCSpec => []AllTyped
  <1>1. MCSpec => []NonceTypeOK
    BY NonceFollows, NoncesTyped, PTL
  <1>2. MCSpec => []RateTypeOK
    BY RateFollows, RatesTyped, PTL
  <1>3. MCSpec => []PhotoTypeOK
    BY PhotoFollows, PhotosTyped, PTL
  <1>4. MCSpec => []DekTypeOK
    BY DekFollows, DeksTyped, PTL
  <1>5. MCSpec => []KeyTypeOK
    BY KeyFollows, KeysTyped, PTL
  <1>6. MCSpec => []RuntimeTypeOK
    BY RuntimeFollows, RuntimesTyped, PTL
  <1>7. MCSpec => []LeaveTypeOK
    BY LeaveFollows, LeavesTyped, PTL
  <1>8. MCSpec => []ReviewTypeOK
    BY ReviewFollows, DesksTyped, PTL
  <1>9. MCSpec => []OnboardingTypeOK
    BY OnboardingFollows, StaffIsTyped, PTL
  <1>10. MCSpec => []OfficesTypeOK
    BY OfficesFollows, OfficesTyped, PTL
  <1>11. MCSpec => []PerimeterTypeOK
    BY PerimeterFollows, PerimeterIsTyped, PTL
  <1>12. MCSpec => []WeekTypeOK
    BY WeekFollows, WeeksTyped, PTL
  <1>13. MCSpec => []MobileTypeOK
    BY SessionFollows, SessionsTyped, PTL
  <1>14. MCSpec => []TelemetryTypeOK
    BY BeatsFollows, BeatsTyped, PTL
  <1>15. MCSpec => []CheckInPhoneTypeOK
    BY PhoneCheckinFollows, PhoneCheckinsTyped, PTL
  <1>16. MCSpec => []AccessTypeOK
    BY AccessFollows, AccessIsTyped, PTL
  <1>17. MCSpec => []ExportTypeOK
    BY ExportFollows, ExportsTyped, PTL
  <1>18. MCSpec => []PickTypeOK
    BY PickFollows, UploadsAreTyped, PTL
  <1>19. MCSpec => []VerdictTypeOK
    BY VerdictFollows, VerdictsTyped, PTL
  <1>20. MCSpec => []StartupTypeOK
    BY StartupFollows, StartsTyped, PTL
  <1>21. MCSpec => []FormTypeOK
    BY FormFollows, FormsTyped, PTL
  <1>22. MCSpec => []EvidenceTypeOK
    BY EvidenceFollows, EvidenceTyped, PTL
  <1>23. MCSpec => []BoardTypeOK
    BY BoardFollows, BoardsTyped, PTL
  <1>24. MCSpec => []FenceTypeOK
    BY CircleFollows, FencesTyped, PTL
  <1>25. MCSpec => []DayTypeOK
    BY DayFollows, FiguresTyped, PTL
  <1> QED
    BY <1>1, <1>2, <1>3, <1>4, <1>5, <1>6, <1>7, <1>8, <1>9, <1>10, <1>11, <1>12, <1>13,
       <1>14, <1>15, <1>16, <1>17, <1>18, <1>19, <1>20, <1>21, <1>22, <1>23, <1>24, <1>25, PTL DEF AllTyped

\* Every part keeps values of its types, whichever is in focus.
THEOREM PartsAreTyped == MCSpec => []TypeOK
  <1>1. focus \in Parts /\ AllTyped => TypeOK
    BY DEF Parts, AllTyped, TypeOK
  <1> QED
    BY FocusStays, AllPartsTyped, <1>1, PTL

=============================================================================
