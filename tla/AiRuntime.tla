------------------------------ MODULE AiRuntime ------------------------------
(***************************************************************************)
(* The AI service's composition root (app/runtime.py): boot with its       *)
(* checks, warmup, and the calibration of app/ai/calibration.py, which     *)
(* operators edit on disk and reload (routers/admin.py) while check-ins    *)
(* are being scored with it (services/verify.py step 10).                  *)
(*                                                                         *)
(* A calibration file is abstracted to what its checks look at: whether    *)
(* its numbers are in range, and the model and the preprocessing           *)
(* fingerprint it was fitted for.                                          *)
(***************************************************************************)
EXTENDS Naturals

CONSTANTS
    Calibrations,  \* contents the file may have
    ModelVersion,  \* settings.model_version
    Pipeline,      \* this build's preprocessing fingerprint
    Operators,     \* concurrent /v1/admin requests
    Checks         \* concurrent verifications

ASSUME CalibrationsAssumption ==
    \A c \in Calibrations : c # [sound |-> FALSE]

NoCalibration == [sound |-> FALSE]

VARIABLES
    disk,       \* calibration.json
    running,    \* Runtime._calibration; NoCalibration while down
    warm,       \* Runtime.warm, which /ready reports
    reloading,  \* what each operator's reload has read and checked
    scoring     \* the calibration each verification is decided by

runtimeVars == <<disk, running, warm, reloading, scoring>>

RuntimeTypeOK ==
    /\ disk \in Calibrations
    /\ running \in Calibrations \cup {NoCalibration}
    /\ warm \in BOOLEAN
    /\ reloading \in [Operators -> Calibrations \cup {NoCalibration}]
    /\ scoring \in [Checks -> Calibrations \cup {NoCalibration}]

RuntimeInit ==
    /\ disk \in Calibrations
    /\ running = NoCalibration
    /\ warm = FALSE
    /\ reloading = [o \in Operators |-> NoCalibration]
    /\ scoring = [c \in Checks |-> NoCalibration]

\* load_calibration: numbers in range, fitted for the configured model.
Loads(c) == c.sound /\ c.model = ModelVersion

\* _check_preprocess_fingerprint: a missing one is only warned about.
Fits(c) == c.fingerprint \in {"none", Pipeline}

\* Runtime.__init__ and the lifespan: a bad calibration stops the boot, a
\* failed warmup does not.
Boot ==
    /\ running = NoCalibration
    /\ Loads(disk) /\ Fits(disk)
    /\ running' = disk
    /\ warm' \in BOOLEAN
    /\ UNCHANGED <<disk, reloading, scoring>>

\* The process ends, with whatever it was doing.
Crash ==
    /\ running # NoCalibration
    /\ running' = NoCalibration
    /\ warm' = FALSE
    /\ reloading' = [o \in Operators |-> NoCalibration]
    /\ scoring' = [c \in Checks |-> NoCalibration]
    /\ UNCHANGED <<disk>>

\* Somebody edits or refits calibration.json.
Edit(c) ==
    /\ disk' = c
    /\ UNCHANGED <<running, warm, reloading, scoring>>

\* /v1/admin/warmup.
Warmup ==
    /\ running # NoCalibration
    /\ warm' \in BOOLEAN
    /\ UNCHANGED <<disk, running, reloading, scoring>>

\* Mutation: a reload trusts that the file was fitted on this pipeline.
ReadFileTrusting(o) ==
    /\ running # NoCalibration
    /\ reloading[o] = NoCalibration
    /\ Loads(disk)
    /\ reloading' = [reloading EXCEPT ![o] = disk]
    /\ UNCHANGED <<disk, running, warm, scoring>>

\* reload_calibration reads and checks the file; a bad one changes nothing.
ReadFile(o) ==
    /\ running # NoCalibration
    /\ reloading[o] = NoCalibration
    /\ Loads(disk) /\ Fits(disk)
    /\ reloading' = [reloading EXCEPT ![o] = disk]
    /\ UNCHANGED <<disk, running, warm, scoring>>

\* ... and swaps it in under the lock.
Swap(o) ==
    /\ reloading[o] # NoCalibration
    /\ running' = reloading[o]
    /\ reloading' = [reloading EXCEPT ![o] = NoCalibration]
    /\ UNCHANGED <<disk, warm, scoring>>

\* verify, step 10: the calibration is asked for once ...
TakeCalibration(c) ==
    /\ running # NoCalibration
    /\ scoring[c] = NoCalibration
    /\ scoring' = [scoring EXCEPT ![c] = running]
    /\ UNCHANGED <<disk, running, warm, reloading>>

\* ... and both the decision and the thresholds reported come from it.
Answer(c) ==
    /\ scoring[c] # NoCalibration
    /\ scoring' = [scoring EXCEPT ![c] = NoCalibration]
    /\ UNCHANGED <<disk, running, warm, reloading>>

RuntimeNext ==
    \/ Boot \/ Crash \/ Warmup
    \/ \E c \in Calibrations : Edit(c)
    \/ \E o \in Operators : ReadFile(o) \/ Swap(o)
    \/ \E c \in Checks : TakeCalibration(c) \/ Answer(c)

RuntimeSpec == RuntimeInit /\ [][RuntimeNext]_runtimeVars

-----------------------------------------------------------------------------
\* No order of edits, boots and overlapping reloads ever scores a check-in
\* with a calibration fitted for another model or, as far as it is recorded,
\* on another preprocessing pipeline.
ScoredByFittedCalibration ==
    \A c \in {running} \cup {scoring[k] : k \in Checks} :
        c # NoCalibration => Loads(c) /\ Fits(c)
=============================================================================
