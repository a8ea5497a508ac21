------------------------------- MODULE Startup -------------------------------
(***************************************************************************)
(* From the environment to the first answer.  Both servers read their      *)
(* settings once: the AI service (config.py, runtime.py) examines them     *)
(* before it serves, and says of what it lets pass on /ready; the backend  *)
(* (env.ts, server.ts) requires three and leaves the others to their first *)
(* use.                                                                    *)
(*                                                                         *)
(* A configuration is the set of what it deviates in from a good local one *)
(* (static keys, signed requests, real models, calibration fitted here).   *)
(***************************************************************************)
EXTENDS Naturals, FiniteSets

Envs == {"local", "test", "production"}

-----------------------------------------------------------------------------
\* What may be set otherwise.  "kms" names a usable master key, "kms_broken"
\* one that no policy lets this service use.
KeySettings ==
    {"kms", "kms_broken", "kms_unnamed", "other_provider",
     "keys_unset", "keys_malformed", "active_key_missing"}
PinSettings == {"pepper_unset", "pepper_malformed", "slow_bcrypt", "short_pins", "pins_crossed"}
AuthSettings == {"secret_unset", "secret_malformed", "auth_off"}
StorageSettings == {"plain_endpoint", "sse_kms", "static_credentials", "large_uploads"}
ModelSettings ==
    {"recognition_absent", "recognition_malformed", "recognition_other", "detector_absent",
     "detector_malformed", "stubs_allowed", "warmup_off"}
CalibrationSettings ==
    {"calibration_absent", "calibration_malformed", "calibration_of_other_model",
     "calibration_of_other_pipeline", "calibration_unmeasured", "bands_unknown", "bands_crossed"}
GateSettings == {"brightness_crossed"}
AdminSettings == {"admin_token"}
\* Of the backend, env.ts.
BackendSettings ==
    {"uri_unset", "jwt_secret_unset", "rs256_unsigned", "rs256_unverified",
     "geo_keys_bad", "shared_secret_default", "shared_secret_malformed"}

BootSettings ==
    KeySettings \cup PinSettings \cup AuthSettings \cup StorageSettings \cup ModelSettings
        \cup CalibrationSettings \cup GateSettings \cup AdminSettings \cup BackendSettings

VARIABLES
    env,       \* PNSM_APP_ENV and NODE_ENV
    off,       \* the settings that deviate
    service,   \* how far the AI service is
    backend,   \* and the backend
    warnings,  \* Runtime.warnings
    engine,    \* the detector and the embedder in use
    inferred,      \* Runtime.warm
    answer     \* the last call and what came of it

startupVars == <<env, off, service, backend, warnings, engine, inferred, answer>>

Services == {"down", "imported", "validated", "calibrated", "built", "assembled", "up", "refused"}
Paths == {"health", "ready", "metrics", "warmup", "pin_hash", "pin_verify", "enrol", "verify",
          "liveness", "login", "board", "checkin"}
Results == {"served", "starting", "unauthorized", "too_large", "refused", "unreachable", "failed", "config_error"}
NoAnswer == [path |-> "none", signed |-> FALSE, admin |-> FALSE, result |-> "none"]
Answers == [path : Paths, signed : BOOLEAN, admin : BOOLEAN, result : Results]

StartupTypeOK ==
    /\ env \in Envs /\ off \subseteq BootSettings
    /\ service \in Services /\ backend \in {"down", "configured", "up", "refused"}
    /\ warnings \subseteq
         {"static_keys", "auth_off", "stub_models", "plain_endpoint", "sse_s3",
          "static_credentials", "slow_bcrypt", "unmeasured"}
    /\ engine \in [detector : {"none", "stub", "yunet"}, embedder : {"none", "stub", "onnx"}]
    /\ inferred \in BOOLEAN /\ answer \in Answers \cup {NoAnswer}

\* Any configuration; one provider of keys is set at most.
Configured ==
    /\ env \in Envs /\ off \subseteq BootSettings
    /\ Cardinality(off \cap {"kms", "kms_broken", "kms_unnamed", "other_provider"}) <= 1
    /\ service = "down" /\ backend = "down" /\ warnings = {}
    /\ engine = [detector |-> "none", embedder |-> "none"]
    /\ inferred = FALSE /\ answer = NoAnswer

\* Bound: two deviations at a time.
StartupInit ==
    /\ env \in Envs /\ off \in {{}} \cup {{s, t} : s, t \in BootSettings}
    /\ Configured

-----------------------------------------------------------------------------
\* The lazy settings: reading one that is bad raises ConfigError.
Deployed == env \notin {"local", "test"}
Kms == off \cap {"kms", "kms_broken"} # {}
Unreadable(setting) ==
    CASE setting = "fle_keys" ->
           off \cap {"keys_unset", "keys_malformed", "active_key_missing"} # {}
      [] setting = "pin_pepper"  -> off \cap {"pepper_unset", "pepper_malformed"} # {}
      [] setting = "hmac_secret" -> off \cap {"secret_unset", "secret_malformed"} # {}

When(condition, warning) == IF condition THEN {warning} ELSE {}

\* Settings' validators, on import of main.py.
ImportMain ==
    /\ service = "down"
    /\ service' = IF off \cap {"bands_unknown", "bands_crossed", "pins_crossed", "brightness_crossed"} = {}
                  THEN "imported" ELSE "refused"
    /\ UNCHANGED <<env, off, backend, warnings, engine, inferred, answer>>

\* Mutation: the pepper is left to its first use.
StartableLazily ==
    /\ off \cap {"kms_unnamed", "other_provider"} = {}
    /\ ~Kms => ~Unreadable("fle_keys")
    /\ "auth_off" \notin off => ~Unreadable("hmac_secret")
    /\ "calibration_absent" \notin off
    /\ "recognition_absent" \in off => "stubs_allowed" \in off

Startable ==
    /\ off \cap {"kms_unnamed", "other_provider"} = {}
    /\ ~Kms => ~Unreadable("fle_keys")
    /\ ~Unreadable("pin_pepper")
    /\ "auth_off" \notin off => ~Unreadable("hmac_secret")
    /\ "calibration_absent" \notin off
    /\ "recognition_absent" \in off => "stubs_allowed" \in off

\* Settings.validate_startup.
ValidateStartup ==
    /\ service = "imported"
    /\ service' = IF Startable THEN "validated" ELSE "refused"
    /\ warnings' =
         IF Startable
         THEN When(Deployed /\ ~Kms, "static_keys")
                \cup When("auth_off" \in off, "auth_off")
                \cup When("stubs_allowed" \in off, "stub_models")
                \cup When(Deployed /\ "plain_endpoint" \in off, "plain_endpoint")
                \cup When(Deployed /\ "sse_kms" \notin off, "sse_s3")
                \cup When(Deployed /\ "static_credentials" \in off, "static_credentials")
                \cup When("slow_bcrypt" \in off, "slow_bcrypt")
         ELSE warnings
    /\ UNCHANGED <<env, off, backend, engine, inferred, answer>>

\* Runtime._load_calibration; with stubs the model is not compared.
LoadCalibration ==
    /\ service = "validated"
    /\ IF \/ "calibration_malformed" \in off
          \/ "calibration_of_other_model" \in off /\ "stubs_allowed" \notin off
       THEN service' = "refused" /\ UNCHANGED warnings
       ELSE /\ service' = "calibrated"
            /\ warnings' = warnings \cup When("calibration_unmeasured" \in off, "unmeasured")
    /\ UNCHANGED <<env, off, backend, engine, inferred, answer>>

\* build_detector and build_embedder: a stub is allowed only in place of a
\* file that is not there.
BuildEngine ==
    LET stub(file) == "stubs_allowed" \in off /\ file \in off IN
    /\ service = "calibrated"
    /\ IF \/ off \cap {"detector_malformed", "recognition_malformed"} # {}
          \/ "detector_absent" \in off /\ ~stub("detector_absent")
       THEN service' = "refused" /\ UNCHANGED engine
       ELSE /\ service' = "built"
            /\ engine' = [detector |-> IF stub("detector_absent") THEN "stub" ELSE "yunet",
                          embedder |-> IF stub("recognition_absent") THEN "stub" ELSE "onnx"]
    /\ UNCHANGED <<env, off, backend, warnings, inferred, answer>>

\* The fingerprint, then the key provider: the KMS client is only built, no
\* key is asked for.
Assemble ==
    /\ service = "built"
    /\ service' = IF "calibration_of_other_pipeline" \in off THEN "refused" ELSE "assembled"
    /\ UNCHANGED <<env, off, backend, warnings, engine, inferred, answer>>

\* A model of another shape loads, and fails at each inference.
Infers == engine.embedder = "stub" \/ "recognition_other" \notin off
Warmed == "warmup_off" \in off \/ Infers

\* Runtime.warmup, still before the first request; failing does not stop it.
WarmUp ==
    /\ service = "assembled"
    /\ service' = "up" /\ inferred' = Warmed
    /\ UNCHANGED <<env, off, backend, warnings, engine, answer>>

-----------------------------------------------------------------------------
\* The AI service's answers.  HmacAuthMiddleware comes first: the size, then
\* the signature; then require_admin.
Exempt == {"health", "ready"}
AdminPaths == {"metrics", "warmup"}

\* Four frames of the size the service would take do not fit in the body
\* that max_upload_bytes allows for one photo.
TooLarge(path) == path = "liveness" /\ "large_uploads" \notin off

\* validate_pin_policy: a PIN of four digits, as onboarding makes them, is
\* too short by default.
HashAnswer == IF "short_pins" \notin off THEN "refused"
           ELSE IF Unreadable("pin_pepper") THEN "config_error" ELSE "served"
PinAnswer == IF Unreadable("pin_pepper") THEN "config_error" ELSE "served"

\* fle.seal and fle.open_envelope with the key of the provider.
DataKey == IF Kms THEN (IF "kms_broken" \in off THEN "failed" ELSE "served")
           ELSE IF Unreadable("fle_keys") THEN "config_error" ELSE "served"
EnrolAnswer == IF Infers THEN DataKey ELSE "failed"
VerifyAnswer == IF DataKey # "served" THEN DataKey ELSE IF Infers THEN "served" ELSE "failed"

Handler(path) ==
    CASE path \in {"health", "metrics"} -> "served"
      [] path = "ready"      -> IF inferred THEN "served" ELSE "starting"
      [] path = "warmup"     -> IF Warmed THEN "served" ELSE "starting"
      [] path = "pin_hash"   -> HashAnswer
      [] path = "pin_verify" -> PinAnswer
      [] path = "enrol"      -> EnrolAnswer
      [] path = "verify"     -> VerifyAnswer
      [] path = "liveness"   -> "served"

Served(path, signed, admin) ==
    IF path \in Exempt THEN Handler(path)
    ELSE IF TooLarge(path) THEN "too_large"
    ELSE IF "auth_off" \notin off /\ Unreadable("hmac_secret") THEN "config_error"
    ELSE IF "auth_off" \notin off /\ ~signed THEN "unauthorized"
    ELSE IF path \in AdminPaths /\ ("admin_token" \notin off \/ ~admin) THEN "unauthorized"
    ELSE Handler(path)

\* Bound: no call but one to warm up leaves a trace, so a call after another
\* one is as the first and not followed.
Untouched == answer.path \in {"none", "warmup"}

Call ==
    /\ service = "up" /\ Untouched
    /\ \E path \in Paths \ {"login", "board", "checkin"}, signed, admin \in BOOLEAN :
         /\ path \notin AdminPaths => ~admin
         /\ path \in Exempt => ~signed
         /\ LET result == Served(path, signed, admin) IN
            /\ answer' = [path |-> path, signed |-> signed, admin |-> admin, result |-> result]
            /\ inferred' = IF path = "warmup" /\ result \in {"served", "starting"}
                           THEN Warmed ELSE inferred
    /\ UNCHANGED <<env, off, service, backend, warnings, engine>>

-----------------------------------------------------------------------------
\* env.ts on import: three settings are required, except under test.
ReadEnv ==
    /\ backend = "down"
    /\ backend' = IF env # "test" /\ off \cap {"uri_unset", "jwt_secret_unset"} # {}
                  THEN "refused" ELSE "configured"
    /\ UNCHANGED <<env, off, service, warnings, engine, inferred, answer>>

\* main: the database first, then the sockets and the port.
Listen ==
    /\ backend = "configured"
    /\ backend' \in {"up", "refused"}
    /\ UNCHANGED <<env, off, service, warnings, engine, inferred, answer>>

\* jwt.ts reads its keys at each call.  A failed check of a token is
\* "invalid", whatever failed; the shared secret is looked at on first use,
\* the keys for coordinates once the face has been verified.
Login == IF "rs256_unsigned" \in off THEN "failed" ELSE "served"
Board == IF off \cap {"rs256_unsigned", "rs256_unverified"} # {} THEN "unauthorized" ELSE "served"
SharedSecret == off \cap {"shared_secret_default", "shared_secret_malformed"} = {}
CheckIn ==
    IF Board # "served" THEN Board
    ELSE IF "shared_secret_malformed" \in off THEN "failed"
    ELSE IF service # "up" THEN "unreachable"
    ELSE LET reply == Served("verify", SharedSecret, FALSE) IN
         IF reply = "unauthorized" THEN reply
         ELSE IF reply # "served" \/ "geo_keys_bad" \in off THEN "failed" ELSE "served"

BackendCall ==
    /\ backend = "up" /\ Untouched
    /\ \E path \in {"login", "board", "checkin"} :
         answer' = [path |-> path, signed |-> SharedSecret, admin |-> FALSE,
                    result |-> CASE path = "login" -> Login
                                 [] path = "board" -> Board
                                 [] path = "checkin" -> CheckIn]
    /\ UNCHANGED <<env, off, service, backend, warnings, engine, inferred>>

StartupNext ==
    \/ ImportMain \/ ValidateStartup \/ LoadCalibration \/ BuildEngine \/ Assemble \/ WarmUp
    \/ Call \/ ReadEnv \/ Listen \/ BackendCall

\* Of every configuration, whatever number of deviations it has.
StartupSpec == Configured /\ [][StartupNext]_startupVars

-----------------------------------------------------------------------------
\* What may still fail once both are up: what no boot looks at.
FoundLate ==
    {"kms_broken", "recognition_other", "rs256_unsigned", "shared_secret_malformed", "geo_keys_bad"}
FailuresExplained ==
    /\ answer.result # "config_error"
    /\ answer.result = "failed" => off \cap FoundLate # {}

\* Nothing is served unsigned, or to no operator, that /ready does not tell of.
ServedToItsCaller ==
    answer.result = "served" =>
        /\ answer.path \in Exempt \cup {"login", "board"} \/ answer.signed \/ "auth_off" \in warnings
        /\ answer.path \in AdminPaths => answer.admin

\* A face was compared by a model that runs and a calibration fitted to it and
\* to this pipeline, with keys from the master key, or /ready tells.
ComparedAsConfigured ==
    answer.path \in {"verify", "checkin"} /\ answer.result = "served" =>
        /\ "calibration_of_other_pipeline" \notin off
        /\ \/ engine.embedder = "onnx" /\ "calibration_of_other_model" \notin off
           \/ "stub_models" \in warnings
        /\ env = "production" => Kms \/ "static_keys" \in warnings
        /\ "calibration_unmeasured" \in off => "unmeasured" \in warnings
        /\ "recognition_other" \in off => engine.embedder = "stub"

\* Ready means that an inference has run, unless none was asked for.
ReadyHasRun ==
    answer.path = "ready" /\ answer.result = "served" => Infers \/ "warmup_off" \in off

\* config.py's promise, "so boot fails loudly, not lazily", and what /ready is
\* for: once the service is up no request finds a setting unreadable, and what
\* boot lets pass is either harmless or among the warnings.
StartIsSound == FailuresExplained /\ ServedToItsCaller /\ ComparedAsConfigured /\ ReadyHasRun
=============================================================================
