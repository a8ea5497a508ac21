----------------------------- MODULE CheckInForm -----------------------------
(***************************************************************************)
(* The form of the check-in screen (CheckInScreen.jsx): the location       *)
(* permission and the GNSS watch behind its badge (hardware.js), the PIN   *)
(* pad, the button that starts and names the sequence's steps, the flashes *)
(* of the liveness challenge (liveness.js), and the result that covers it  *)
(* all.  The sequence itself is CheckInPhone's; here it emits steps and    *)
(* ends.  Every opening of the screen is an instance, by number.           *)
(***************************************************************************)
EXTENDS Naturals, Sequences, FiniteSets

CONSTANTS
    MaxForms,  \* bound on the openings of the screen
    PinLength, \* digits of a PIN: 4 in the code
    Colours    \* LIVENESS_COLORS

ASSUME FormAssumption == MaxForms \in Nat /\ PinLength \in Nat

\* CHECKIN_STEPS, in order, and STEP_LABELS, in whose terms a missing label
\* leaves the button blank.
CheckInSteps ==
    <<"permissions", "locating", "geofence", "antispoof", "capture", "liveness", "compressing",
      "uploading", "submitting">>
StepLabels == {CheckInSteps[i] : i \in DOMAIN CheckInSteps}

VARIABLES
    form,        \* the instance that is mounted, 0 for none
    formsOpened,
    locPerm,     \* the permission as the system has it
    asking,      \* instances whose effect awaits the permission
    watchAsked,  \* instances whose effect awaits watchPosition
    watches,     \* watches that run
    watchRef,    \* watchIdRef of the mounted instance is set
    locDenied,   \* locationDenied
    seen,        \* where the last position puts the phone
    pin,         \* digits typed
    formBusy,    \* a sequence of this instance is under way
    formStep,    \* the number of the step shown, 0 for none
    flash,       \* colours of the challenge still to be shown
    ended,       \* the outcome whose transition has not been rendered
    formResult,  \* the outcome shown
    pinSent,     \* ghost: how often the PIN was sent since it was typed, 2 for more than once
    orphaned,    \* ghost: watches that began after their screen was left
    grantedHere, \* ghost: permission came through the button of this instance
    hurried,     \* ghost: a start slipped in before a result was rendered
    deaf         \* ghost: a call of this instance's effect was rejected

formVars ==
    <<form, formsOpened, locPerm, asking, watchAsked, watches, watchRef, locDenied, seen, pin,
      formBusy, formStep, flash, ended, formResult, pinSent, orphaned, grantedHere, hurried, deaf>>
watchVars == <<locPerm, asking, watchAsked, watches, watchRef, orphaned, deaf>>
sequenceVars == <<formBusy, formStep, flash, ended>>
openedVars == <<form, formsOpened>>

Outcomes == {"success", "review", "rejected", "error", "blocked", "cancelled"}

FormTypeOK ==
    /\ form \in 0..MaxForms /\ formsOpened \in 0..MaxForms
    /\ locPerm \in {"prompt", "granted", "denied"}
    /\ asking \cup watchAsked \cup watches \cup orphaned \subseteq 1..MaxForms
    /\ watchRef \in BOOLEAN /\ locDenied \in BOOLEAN /\ seen \in {"nowhere", "inside", "outside"}
    /\ pin \in 0..PinLength /\ formBusy \in BOOLEAN /\ formStep \in 0..Len(CheckInSteps)
    /\ \A i \in DOMAIN flash : flash[i] \in Colours
    /\ ended \in Outcomes \cup {"none"} /\ formResult \in Outcomes \cup {"none"}
    /\ pinSent \in 0..2 /\ grantedHere \in BOOLEAN /\ hurried \in BOOLEAN /\ deaf \in BOOLEAN

\* The state of an instance when it is mounted.
FreshForm ==
    /\ watchRef' = FALSE /\ locDenied' = FALSE /\ seen' = "nowhere" /\ pin' = 0
    /\ formBusy' = FALSE /\ formStep' = 0 /\ flash' = <<>>
    /\ ended' = "none" /\ formResult' = "none"
    /\ pinSent' = 0 /\ grantedHere' = FALSE /\ hurried' = FALSE /\ deaf' = FALSE

FormInit ==
    /\ form = 0 /\ formsOpened = 0
    /\ locPerm \in {"prompt", "granted"}
    /\ asking = {} /\ watchAsked = {} /\ watches = {} /\ watchRef = FALSE /\ orphaned = {}
    /\ locDenied = FALSE /\ seen = "nowhere" /\ pin = 0
    /\ formBusy = FALSE /\ formStep = 0 /\ flash = <<>>
    /\ ended = "none" /\ formResult = "none"
    /\ pinSent = 0 /\ grantedHere = FALSE /\ hurried = FALSE /\ deaf = FALSE

OpenForm ==
    /\ form = 0 /\ formsOpened < MaxForms
    /\ formsOpened' = formsOpened + 1 /\ form' = formsOpened'
    /\ asking' = asking \cup {form'}
    /\ FreshForm
    /\ UNCHANGED <<locPerm, watchAsked, watches, orphaned>>

\* Mutation: the watch is not cleared.
CloseWatching ==
    /\ form' = 0
    /\ FreshForm
    /\ UNCHANGED <<formsOpened, locPerm, asking, watchAsked, watches, orphaned>>

\* The clean-up of the effect: the watch whose id is known is cleared.
Close ==
    /\ form' = 0
    /\ watches' = IF watchRef THEN watches \ {form} ELSE watches
    /\ FreshForm
    /\ UNCHANGED <<formsOpened, locPerm, asking, watchAsked, orphaned>>

LeaveForm == form # 0 /\ formResult = "none" /\ Close

\* ensureLocationPermission: what is granted stays so; otherwise the system
\* asks, or after a denial may refuse without asking.
EnsureLocationPermission == locPerm' \in IF locPerm = "granted" THEN {"granted"} ELSE {"granted", "denied"}

\* The effect goes on; that of an instance no longer mounted returns.
PermissionAnswered(n) ==
    /\ n \in asking
    /\ EnsureLocationPermission
    /\ asking' = asking \ {n}
    /\ watchAsked' = IF n = form /\ locPerm' = "granted" THEN watchAsked \cup {n} ELSE watchAsked
    /\ locDenied' = (locDenied \/ (n = form /\ locPerm' = "denied"))
    /\ UNCHANGED <<openedVars, watches, watchRef, orphaned, seen, pin, sequenceVars, formResult, pinSent,
                   grantedHere, hurried, deaf>>

\* The effect has no catch: one whose permission check or watch is rejected
\* goes no further, and says nothing.
EffectRejected(n) ==
    /\ n \in asking \cup watchAsked
    /\ asking' = asking \ {n} /\ watchAsked' = watchAsked \ {n}
    /\ deaf' = (deaf \/ n = form)
    /\ UNCHANGED <<openedVars, locPerm, watches, watchRef, orphaned, locDenied, seen, pin,
                   sequenceVars, formResult, pinSent, grantedHere, hurried>>

\* watchPosition has answered; nobody asks again whether n is still mounted.
WatchBegins(n) ==
    /\ n \in watchAsked
    /\ watchAsked' = watchAsked \ {n}
    /\ watches' = watches \cup {n}
    /\ watchRef' = (watchRef \/ n = form)
    /\ orphaned' = IF n = form THEN orphaned ELSE orphaned \cup {n}
    /\ UNCHANGED <<openedVars, locPerm, asking, locDenied, seen, pin, sequenceVars, formResult,
                   pinSent, grantedHere, hurried, deaf>>

\* A position; errors of the watch are dropped, and the last position stays.
PositionSeen ==
    /\ form \in watches
    /\ seen' \in {"inside", "outside"}
    /\ UNCHANGED <<openedVars, watchVars, locDenied, pin, sequenceVars, formResult, pinSent, grantedHere,
                   hurried>>

\* What is rendered: one page without the permission, the form otherwise,
\* and over it the flash and the result.
DeniedShown == form # 0 /\ locDenied
FormShown == form # 0 /\ ~locDenied
Reachable == FormShown /\ flash = <<>> /\ formResult = "none"

\* "Grant location permission" takes the page away and nothing else: the
\* effect that starts the watch does not run again.  (A rejected call changes
\* nothing here.)
GrantLocation ==
    /\ DeniedShown
    /\ EnsureLocationPermission
    /\ locDenied' = (locPerm' = "denied")
    /\ grantedHere' = (grantedHere \/ locPerm' = "granted")
    /\ UNCHANGED <<openedVars, asking, watchAsked, watches, watchRef, orphaned, seen, pin, sequenceVars,
                   formResult, pinSent, hurried, deaf>>

\* A key of the pad: a digit, or the last one taken back.
Press ==
    /\ Reachable /\ ~formBusy
    /\ \/ pin < PinLength /\ pin' = pin + 1
       \/ pin > 0 /\ pin' = pin - 1
    /\ pinSent' = 0
    /\ UNCHANGED <<openedVars, watchVars, locDenied, seen, sequenceVars, formResult, grantedHere, hurried>>

CanSubmit == seen = "inside" /\ pin = PinLength /\ ~formBusy

\* A result not yet rendered is taken back with the one shown before.
StartCheckIn ==
    /\ Reachable /\ CanSubmit
    /\ formBusy' = TRUE
    /\ hurried' = (hurried \/ ended # "none")
    /\ ended' = "none"
    /\ pinSent' = IF pinSent = 0 THEN 1 ELSE 2
    /\ UNCHANGED <<openedVars, watchVars, locDenied, seen, pin, formStep, flash, formResult, grantedHere>>

\* onStep: the sequence goes one step on.
StepEmitted ==
    /\ form # 0 /\ formBusy /\ flash = <<>> /\ formStep < Len(CheckInSteps)
    /\ formStep' = formStep + 1
    /\ UNCHANGED <<openedVars, watchVars, locDenied, seen, pin, formBusy, flash, ended, formResult,
                   pinSent, grantedHere, hurried>>

\* pickChallengeColors: two distinct colours, in any order.
ChallengeBegins ==
    /\ formBusy /\ formStep > 0 /\ CheckInSteps[formStep] = "liveness" /\ flash = <<>>
    /\ \E c, d \in Colours : c # d /\ flash' = <<c, d>>
    /\ UNCHANGED <<openedVars, watchVars, locDenied, seen, pin, formBusy, formStep, ended, formResult,
                   pinSent, grantedHere, hurried>>

\* A frame is taken under its colour, and the next colour shown, or none.
FrameTaken ==
    /\ flash # <<>>
    /\ flash' = IF Len(flash) = 2 THEN <<flash[2]>> ELSE <<>>
    /\ formStep' = IF flash' = <<>> THEN formStep + 1 ELSE formStep
    /\ UNCHANGED <<openedVars, watchVars, locDenied, seen, pin, formBusy, ended, formResult, pinSent,
                   grantedHere, hurried>>

\* The sequence ends at any step: the button is free at once, the result is
\* left to a transition.
SequenceEnds(kind) ==
    /\ form # 0 /\ formBusy
    /\ kind \in {"success", "review"} => formStep = Len(CheckInSteps)
    /\ formBusy' = FALSE /\ formStep' = 0 /\ flash' = <<>>
    /\ ended' = kind
    /\ UNCHANGED <<openedVars, watchVars, locDenied, seen, pin, formResult, pinSent, grantedHere, hurried>>

ResultRendered ==
    /\ ended # "none"
    /\ formResult' = ended /\ ended' = "none"
    /\ UNCHANGED <<openedVars, watchVars, locDenied, seen, pin, formBusy, formStep, flash, pinSent,
                   grantedHere, hurried>>

\* What the result offers: trying again only where that may help.
ResultOffers ==
    IF formResult = "none" THEN {}
    ELSE {"done"} \cup (IF formResult \in {"rejected", "error"} THEN {"again"} ELSE {})

\* Mutation: the PIN is kept.
ResetKeepingPin == formResult' = "none" /\ UNCHANGED <<pin, pinSent>>

Reset == formResult' = "none" /\ pin' = 0 /\ pinSent' = 0

AgainTapped ==
    /\ "again" \in ResultOffers
    /\ Reset
    /\ UNCHANGED <<openedVars, watchVars, locDenied, seen, sequenceVars, grantedHere, hurried>>

\* "Done" goes to the home page.
DoneTapped == "done" \in ResultOffers /\ Close

FormNext ==
    \/ OpenForm \/ LeaveForm \/ PositionSeen \/ GrantLocation \/ Press \/ StartCheckIn
    \/ StepEmitted \/ ChallengeBegins \/ FrameTaken \/ ResultRendered \/ AgainTapped \/ DoneTapped
    \/ \E n \in 1..MaxForms : PermissionAnswered(n) \/ EffectRejected(n) \/ WatchBegins(n)
    \/ \E kind \in Outcomes : SequenceEnds(kind)

FormSpec == FormInit /\ [][FormNext]_formVars

-----------------------------------------------------------------------------
\* The chip is watched for the mounted screen alone.  (A watch that answers
\* after its screen was left is never cleared: it has no reference.)
WatchFollowsForm == watches \ orphaned \subseteq {form}

\* A form that waits for no call of its effect sees positions, unless the
\* permission came by the button or a call was rejected: no other order of
\* openings, denials and grants leaves its badge on "Locating".
BadgeAlive ==
    (FormShown /\ form \notin asking \cup watchAsked) => form \in watches \/ grantedHere \/ deaf

\* A PIN that was sent is typed again before it is sent once more - unless
\* the result had not been rendered - so that one tap spends one attempt.
PinSpentByTap == pinSent <= 1 \/ hurried

\* Whatever covers the form, there is a way on: a result can be left, a flash
\* belongs to the step that shows it, and the button always says something.
WayOn ==
    /\ formResult # "none" => ResultOffers # {}
    /\ flash # <<>> => formBusy /\ CheckInSteps[formStep] = "liveness"
    /\ formStep > 0 => formBusy /\ CheckInSteps[formStep] \in StepLabels

FormSound == WatchFollowsForm /\ BadgeAlive /\ PinSpentByTap /\ WayOn
=============================================================================
