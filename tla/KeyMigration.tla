----------------------------- MODULE KeyMigration -----------------------------
(***************************************************************************)
(* Face envelopes and the keys that open them: seal, open_envelope and     *)
(* rewrap (app/crypto/fle.py), the key providers (app/crypto/              *)
(* keyproviders.py), and scripts/rotate_keys.py, which moves the           *)
(* FaceEmbeddings collection to another key or provider: mongoexport,      *)
(* re-wrap everything in memory, write the file, mongoimport --upsert.     *)
(* The service goes on enrolling employees meanwhile, and the operator     *)
(* restarts it with other settings.                                        *)
(*                                                                         *)
(* An envelope's ciphertext is the vector with the additional data it was  *)
(* sealed under; AES-GCM opens it under the same key and data only.        *)
(***************************************************************************)
EXTENDS Naturals, FiniteSets

CONSTANTS
    Employees,   \* user_ref
    Vectors,     \* face embeddings
    StaticKeys,  \* key versions in PNSM_FLE_KEYS
    MasterKeys,  \* CMK ARNs
    Models,      \* model versions
    MaxDeeds,    \* bound on enrolments, restarts and exports
    NoEnvelope   \* no record in the collection, nothing enrolled

\* A key setting: PNSM_KEY_PROVIDER with the key that seals under it.
Settings == {"static"} \X StaticKeys \cup {"kms"} \X MasterKeys

\* kp is "none" in a version 1 envelope, which predates the field.
Envelopes ==
    [kp : {"none", "static", "kms"}, kv : StaticKeys \cup MasterKeys,
     model : Models, owner : Employees, vector : Vectors]

ASSUME KeysAssumption ==
    /\ StaticKeys # {} /\ Models # {}
    /\ StaticKeys \cap MasterKeys = {}
    /\ NoEnvelope \notin Envelopes
    /\ MaxDeeds \in Nat

Refused == "DECRYPT_FAILED"
ASSUME VectorsAssumption == Refused \notin Vectors
Collections == [Employees -> Envelopes \cup {NoEnvelope}]

VARIABLES
    setting,   \* the running service's key setting
    model,     \* the model it runs
    stored,    \* FaceEmbeddings
    script,    \* "idle", "exported" or "written"
    target,    \* the script's target setting
    file,      \* the exported records, and then the re-wrapped ones
    imported,  \* the records mongoimport has written so far
    enrolled,  \* ghost: the vector each employee last enrolled, and its model
    meanwhile, \* ghost: who enrolled since the export
    outdated,  \* ghost: whose newest enrolment an import has overwritten
    deeds      \* enrolments, restarts and exports so far

keyVars == <<setting, model, stored, script, target, file, imported, enrolled, meanwhile,
             outdated, deeds>>

KeyTypeOK ==
    /\ setting \in Settings /\ target \in Settings
    /\ model \in Models
    /\ stored \in Collections /\ file \in Collections
    /\ script \in {"idle", "exported", "written"}
    /\ imported \subseteq Employees
    /\ meanwhile \subseteq Employees /\ outdated \subseteq Employees
    /\ enrolled \in [Employees -> (Vectors \X Models) \cup {NoEnvelope}]
    /\ deeds \in 0..MaxDeeds

-----------------------------------------------------------------------------
\* seal: a version 2 envelope under a provider's active key.
Seal(vector, u, version, s) ==
    [kp |-> s[1], kv |-> s[2], model |-> version, owner |-> u, vector |-> vector]

\* envelope.get("kp") or "static".
SealedBy(e) == IF e.kp = "none" THEN "static" ELSE e.kp

\* open_envelope, without the model version check.  Every static key is
\* loaded; KMS unwraps the data key for the owner's context only.
Opened(e, u, s) ==
    IF SealedBy(e) = s[1] /\ e.owner = u THEN e.vector ELSE Refused

\* open_envelope as verify calls it: another model's vector is told apart
\* from an envelope that cannot be read.
OpenEnvelope(e, u, s, version) ==
    IF e.model # version THEN "MODEL_VERSION_MISMATCH" ELSE Opened(e, u, s)

\* Mutation: a record under the right provider counts as current.
AlreadyCurrentByProvider(e, s) == e.kp \in {"none", s[1]}

\* Already sealed by the target's active key: kept as it is.
AlreadyCurrent(e, s) ==
    (IF e.kp = "none" THEN "static" ELSE e.kp) = s[1] /\ e.kv = s[2]

\* Mutation: the re-wrapped envelope is sealed for the running model.
RewrapRecordForModel(e, u, from, to) ==
    IF AlreadyCurrent(e, to) THEN e ELSE Seal(Opened(e, u, from), u, model, to)

\* rewrap_record, for an envelope that `from` opens.
RewrapRecord(e, u, from, to) ==
    IF AlreadyCurrent(e, to) THEN e ELSE Seal(Opened(e, u, from), u, e.model, to)

-----------------------------------------------------------------------------
KeyInit ==
    /\ setting \in {"static"} \X StaticKeys
    /\ model \in Models
    /\ enrolled \in [Employees -> (Vectors \X {model}) \cup {NoEnvelope}]
    /\ stored = [u \in Employees |->
                    IF enrolled[u] = NoEnvelope THEN NoEnvelope
                    ELSE [Seal(enrolled[u][1], u, model, setting) EXCEPT !.kp = "none"]]
    /\ script = "idle"
    /\ target = setting
    /\ file = [u \in Employees |-> NoEnvelope]
    /\ imported = {}
    /\ meanwhile = {}
    /\ outdated = {}
    /\ deeds = 0

\* One of the deeds that MaxDeeds bounds.
Deed == deeds < MaxDeeds /\ deeds' = deeds + 1

\* EnrollService.execute, and the backend's upsert of what it returns.
Enrol(u, v) ==
    /\ Deed
    /\ stored' = [stored EXCEPT ![u] = Seal(v, u, model, setting)]
    /\ enrolled' = [enrolled EXCEPT ![u] = <<v, model>>]
    /\ meanwhile' = meanwhile \cup {u}
    /\ outdated' = outdated \ {u}
    /\ UNCHANGED <<setting, model, script, target, file, imported>>

\* A restart with other keys or another model.
Restart(s, version) ==
    /\ Deed
    /\ setting' = s
    /\ model' = version
    /\ UNCHANGED <<stored, script, target, file, imported, enrolled, meanwhile, outdated>>

\* mongoexport.  A leftover file of an earlier migration is given up.
Export(s) ==
    /\ Deed
    /\ script' = "exported"
    /\ target' = s
    /\ file' = stored
    /\ imported' = {}
    /\ meanwhile' = {}
    /\ UNCHANGED <<setting, model, stored, enrolled, outdated>>

\* Mutation: a record is sealed again whether or not it could be opened.
RewrapUnchecked ==
    /\ script = "exported"
    /\ script' = "written"
    /\ file' = [u \in Employees |->
                  IF file[u] = NoEnvelope THEN NoEnvelope
                  ELSE RewrapRecord(file[u], u, setting, target)]
    /\ UNCHANGED <<setting, model, stored, target, imported, enrolled, meanwhile,
                   outdated, deeds>>

\* rotate_keys.main: every record is re-wrapped, and read back, before
\* anything is written; one that cannot be opened ends the script.
Rewrap ==
    LET present == {u \in Employees : file[u] # NoEnvelope}
        stuck   == {u \in present : /\ ~AlreadyCurrent(file[u], target)
                                    /\ Opened(file[u], u, setting) = Refused}
    IN
    /\ script = "exported"
    /\ \/ /\ stuck # {}
          /\ script' = "idle"
          /\ UNCHANGED file
       \/ /\ stuck = {}
          /\ script' = "written"
          /\ file' = [u \in Employees |->
                        IF u \in present THEN RewrapRecord(file[u], u, setting, target)
                        ELSE NoEnvelope]
    /\ UNCHANGED <<setting, model, stored, target, imported, enrolled, meanwhile,
                   outdated, deeds>>

\* mongoimport --mode=upsert, one record.
Import(u) ==
    /\ script = "written"
    /\ u \notin imported
    /\ imported' = imported \cup {u}
    /\ stored' = IF file[u] = NoEnvelope THEN stored ELSE [stored EXCEPT ![u] = file[u]]
    /\ outdated' = IF u \in meanwhile /\ file[u] # NoEnvelope
                   THEN outdated \cup {u} ELSE outdated
    /\ UNCHANGED <<setting, model, script, target, file, enrolled, meanwhile, deeds>>

KeyNext ==
    \/ \E u \in Employees, v \in Vectors : Enrol(u, v)
    \/ \E s \in Settings, version \in Models : Restart(s, version)
    \/ \E s \in Settings : Export(s)
    \/ Rewrap
    \/ \E u \in Employees : Import(u)

KeySpec == KeyInit /\ [][KeyNext]_keyVars

-----------------------------------------------------------------------------
\* No enrolment is lost: at every moment of any number of migrations, broken
\* off or not, some key setting opens every stored envelope to the vector
\* last enrolled, still marked with the model that made it, unless an import
\* overwrote an enrolment newer than its export.
Recoverable(u) ==
    \E s \in Settings : <<Opened(stored[u], u, s), stored[u].model>> = enrolled[u]

NothingLost ==
    \A u \in Employees \ outdated : stored[u] # NoEnvelope => Recoverable(u)

\* A finished import has moved everyone enrolled before the export to the
\* target's active key: the service restarted with the target's settings
\* opens them all, and the old keys can go.
MigrationComplete ==
    (script = "written" /\ imported = Employees) =>
        \A u \in Employees \ meanwhile :
            stored[u] # NoEnvelope =>
                /\ Opened(stored[u], u, target) # Refused
                /\ stored[u].kv = target[2]

\* A change of keys costs nobody their face: not on the way, not at its end.
MigrationSafe == NothingLost /\ MigrationComplete
=============================================================================
