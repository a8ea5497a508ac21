----------------------------- MODULE CheckInPhone -----------------------------
(***************************************************************************)
(* A check-in on the phone: the screen (CheckInScreen.jsx), which may be   *)
(* left and opened again while the sequence it started (checkinService.js) *)
(* goes on, with what that calls: permissions, position and camera         *)
(* (hardware.js), mock location, compression, upload and submission.  The  *)
(* backend's verdict is external here: it refuses fewer than two frames.   *)
(***************************************************************************)
EXTENDS Naturals, FiniteSets

CONSTANTS
    Runs,       \* check-in sequences
    MaxScreens, \* bound on how often the screen is opened
    MaxPasses,  \* MAX_PASSES: 8 in the code
    QualitySteps \* passes until the quality is lowest: 5 in the code, .82 .70 .58 .46 .35

ASSUME PhoneAssumption ==
    MaxScreens \in Nat /\ MaxPasses \in Nat /\ QualitySteps \in 1..MaxPasses

RunStages == {"permissions", "locating", "antispoof", "capture", "liveness", "compressing",
           "uploading", "submitting", "done"}
NoRun == <<>>

VARIABLES
    screen,      \* the screen that is mounted, by number, 0 for none
    screens,     \* screens opened so far
    inFlight,    \* screens whose inFlightRef is set
    shownBusy,   \* screens whose button is rendered as busy
    runs,        \* [screen, stage, frames, passes, small] of each sequence
    entries,     \* check-ins the backend has recorded, with what it was sent
    checkHistory,     \* those the app lists
    resultKind   \* what the mounted screen shows of its last run

phoneVars == <<screen, screens, inFlight, shownBusy, runs, entries, checkHistory, resultKind>>

Kinds == {"none", "success", "rejected", "error", "blocked", "cancelled"}

CheckInPhoneTypeOK ==
    /\ screen \in 0..MaxScreens /\ screens \in 0..MaxScreens
    /\ inFlight \subseteq 1..MaxScreens /\ shownBusy \subseteq 1..MaxScreens
    /\ \A r \in Runs : runs[r] = NoRun
          \/ runs[r] \in [screen : 1..MaxScreens, stage : RunStages, frames : {0, 2},
                          passes : 0..MaxPasses, small : BOOLEAN]
    /\ entries \subseteq Runs /\ checkHistory \subseteq Runs
    /\ resultKind \in Kinds

CheckInPhoneInit ==
    /\ screen = 0 /\ screens = 0
    /\ inFlight = {} /\ shownBusy = {}
    /\ runs = [r \in Runs |-> NoRun]
    /\ entries = {} /\ checkHistory = {}
    /\ resultKind = "none"

\* The tab is opened: a new screen, with references of its own.
OpenScreen ==
    /\ screen = 0 /\ screens < MaxScreens
    /\ screens' = screens + 1 /\ screen' = screens'
    /\ resultKind' = "none"
    /\ UNCHANGED <<inFlight, shownBusy, runs, entries, checkHistory>>

\* Another tab, or the end of the session; the sequence goes on.
LeaveScreen ==
    /\ screen # 0
    /\ screen' = 0
    /\ UNCHANGED <<screens, inFlight, shownBusy, runs, entries, checkHistory, resultKind>>

Starting(r) ==
    /\ runs[r] = NoRun
    /\ runs' = [runs EXCEPT ![r] = [screen |-> screen, stage |-> "permissions", frames |-> 0,
                                    passes |-> 0, small |-> FALSE]]
    /\ inFlight' = inFlight \cup {screen}
    /\ UNCHANGED <<screen, screens, shownBusy, entries, checkHistory, resultKind>>

\* Mutation: only the rendered button keeps a second tap from starting.
StartByButton(r) ==
    /\ screen # 0 /\ resultKind = "none"
    /\ screen \notin shownBusy
    /\ Starting(r)

\* start: the button as rendered, and the double-tap guard.
Start(r) ==
    /\ screen # 0 /\ resultKind = "none"
    /\ screen \notin shownBusy
    /\ screen \notin inFlight
    /\ Starting(r)

\* React renders what setBusy has set.
Render ==
    /\ screen # 0
    /\ (screen \in shownBusy) # (screen \in inFlight)
    /\ shownBusy' = (shownBusy \ {screen}) \cup (inFlight \cap {screen})
    /\ UNCHANGED <<screen, screens, inFlight, runs, entries, checkHistory, resultKind>>

\* "Try again" takes the result away; "Done" leaves the screen.
TryAgain ==
    /\ screen # 0 /\ resultKind \in {"rejected", "error"}
    /\ resultKind' = "none"
    /\ UNCHANGED <<screen, screens, inFlight, shownBusy, runs, entries, checkHistory>>

In(r, stage) == runs[r] # NoRun /\ runs[r].stage = stage
Mounted(r) == screen = runs[r].screen
ToStage(r, stage) ==
    /\ runs' = [runs EXCEPT ![r].stage = stage]
    /\ UNCHANGED <<screen, screens, inFlight, shownBusy, entries, checkHistory, resultKind>>

\* Mutation: nothing asks whether the screen is still mounted.
FinishAnywhere(r, kind) ==
    /\ runs' = [runs EXCEPT ![r].stage = "done"]
    /\ inFlight' = inFlight \ {runs[r].screen}
    /\ resultKind' = kind
    /\ checkHistory' = IF kind = "success" THEN checkHistory \cup {r} ELSE checkHistory
    /\ UNCHANGED <<screen, screens, shownBusy>>

\* The end of start: outcome and list only if the screen is still mounted.
Finish(r, kind) ==
    /\ runs' = [runs EXCEPT ![r].stage = "done"]
    /\ inFlight' = inFlight \ {runs[r].screen}
    /\ resultKind' = IF Mounted(r) THEN kind ELSE resultKind
    /\ checkHistory' = IF Mounted(r) /\ kind = "success" THEN checkHistory \cup {r} ELSE checkHistory
    /\ UNCHANGED <<screen, screens, shownBusy>>

NextStage == [permissions |-> "locating", locating |-> "antispoof", antispoof |-> "capture",
              capture |-> "liveness"]
Refusals == [permissions |-> {"blocked", "error"}, locating |-> {"rejected", "error"},
             antispoof |-> {"rejected"}, capture |-> {"cancelled"}]

\* Permissions, the position and the fence, the check for a mock location
\* (reported, if the report gets through, and refused) and the camera: each
\* ends the sequence or leads to the next; an exception ends it with an error.
LocalChecks(r) ==
    \E from \in DOMAIN NextStage :
        /\ In(r, from)
        /\ \/ ToStage(r, NextStage[from])
           \/ \E kind \in Refusals[from] : Finish(r, kind) /\ UNCHANGED entries

\* runLiveness: no frames without a camera, or when the screen was left
\* before the stream was there; a stream that does not play is an error.
RunLiveness(r) ==
    /\ In(r, "liveness")
    /\ \/ \E frames \in {0, 2} :
             /\ frames = 2 => Mounted(r)
             /\ runs' = [runs EXCEPT ![r].stage = "compressing", ![r].frames = frames]
             /\ UNCHANGED <<screen, screens, inFlight, shownBusy, entries, checkHistory, resultKind>>
       \/ Finish(r, "error") /\ UNCHANGED entries

\* One pass: it fits, or the quality is lowered and then the size, until the
\* passes are used up or an edge falls below 240 pixels.  If the worker cannot
\* do it, the main thread begins afresh.
CompressPass(r) ==
    /\ In(r, "compressing")
    /\ runs[r].passes < MaxPasses /\ ~runs[r].small
    /\ \E fits, narrow \in BOOLEAN :
          /\ narrow => ~fits /\ runs[r].passes + 1 >= QualitySteps
          /\ runs' = [runs EXCEPT
                ![r].passes = IF narrow THEN MaxPasses ELSE @ + 1,
                ![r].small = fits]
    /\ UNCHANGED <<screen, screens, inFlight, shownBusy, entries, checkHistory, resultKind>>

\* Mutation: the size is not looked at again.
SizeGateOpen(r) ==
    /\ In(r, "compressing")
    /\ runs[r].small \/ runs[r].passes = MaxPasses
    /\ ToStage(r, "uploading")

\* isUnderSizeLimit: "never transmit an oversized payload"; an image that
\* cannot be decoded ends the sequence like one that stays too large.
SizeGate(r) ==
    /\ In(r, "compressing")
    /\ \/ runs[r].small /\ ToStage(r, "uploading")
       \/ ~runs[r].small /\ Finish(r, "error") /\ UNCHANGED entries

Upload(r) ==
    /\ In(r, "uploading")
    /\ \/ ToStage(r, "submitting")
       \/ Finish(r, "error") /\ UNCHANGED entries

\* submitCheckin: recorded or refused; or recorded and the answer lost.
SubmitCheckIn(r) ==
    /\ In(r, "submitting")
    /\ \/ /\ runs[r].frames = 2
          /\ entries' = entries \cup {r}
          /\ \E kind \in {"success", "error"} : Finish(r, kind)
       \/ \E kind \in {"rejected", "error"} : Finish(r, kind) /\ UNCHANGED entries

CheckInPhoneNext ==
    \/ OpenScreen \/ LeaveScreen \/ Render \/ TryAgain
    \/ \E r \in Runs :
          \/ Start(r) \/ LocalChecks(r) \/ RunLiveness(r) \/ CompressPass(r) \/ SizeGate(r)
          \/ Upload(r) \/ SubmitCheckIn(r)

CheckInPhoneSpec == CheckInPhoneInit /\ [][CheckInPhoneNext]_phoneVars

-----------------------------------------------------------------------------
\* Two taps before the button is rendered as busy start one sequence.  (A
\* screen left and opened again may start a second beside the first.)
OneRunPerScreen ==
    \A n \in inFlight :
        Cardinality({r \in Runs : runs[r] # NoRun /\ runs[r].screen = n
                                  /\ runs[r].stage # "done"}) = 1

\* What is recorded was sent with both frames and a photo under the size
\* limit, wherever the employee went meanwhile.
EvidenceComplete ==
    \A r \in entries : runs[r].frames = 2 /\ runs[r].small

\* A screen never shows what became of a sequence another screen started.
ResultIsOwn ==
    (screen # 0 /\ resultKind = "success") =>
        \E r \in entries : runs[r].screen = screen /\ runs[r].stage = "done"

PhoneCheckinSound == OneRunPerScreen /\ EvidenceComplete /\ ResultIsOwn /\ checkHistory \subseteq entries
=============================================================================
