----------------------------- MODULE Onboarding -----------------------------
(***************************************************************************)
(* Employee accounts: employeeService.ts of the backend, with the form     *)
(* that creates them (employee-form.tsx).  Creating one is a chain of      *)
(* awaited steps without a transaction: duplicate check, User, Shift, the  *)
(* PIN and the face embedding, both made by the AI service, then the       *)
(* answer, which alone carries the PIN and the initial password.           *)
(***************************************************************************)
EXTENDS Naturals, FiniteSets

CONSTANTS
    Codes,     \* employee codes; the email, unique as well, goes with the code
    Photos,    \* reference photos
    Accounts,  \* document ids
    Forms,     \* submissions of the form under way
    PhotoJobs, \* handlers of PATCH /employees/:id/photo
    NoAccount, \* no document under this id
    NoForm     \* nothing submitted

Documents == [code : Codes, photo : Photos, active : BOOLEAN,
              shift : BOOLEAN, pin : BOOLEAN, face : Photos \cup {"none"}]
Stages == {"check", "insert", "shift", "pin", "face", "answer"}
Submissions == [stage : Stages, code : Codes, photo : Photos,
                id : Accounts \cup {NoAccount}, pin : BOOLEAN, face : BOOLEAN]

ASSUME OnboardingAssumption ==
    /\ NoAccount \notin Accounts \cup Documents
    /\ NoForm \notin Submissions \cup (Accounts \X Photos)
    /\ "none" \notin Photos

VARIABLES
    staff,     \* User with its Shift, PIN and FaceEmbedding, by id
    hiring,    \* the submissions and how far their handlers are
    rephoto,   \* the photo updates under way: <<id, photo>>
    answers,   \* ghost: what HR was shown: [id, pin, face]
    uneven     \* ghost: accounts whose photo updates overlapped or failed

onboardingVars == <<staff, hiring, rephoto, answers, uneven>>

OnboardingTypeOK ==
    /\ staff \in [Accounts -> Documents \cup {NoAccount}]
    /\ hiring \in [Forms -> Submissions \cup {NoForm}]
    /\ rephoto \in [PhotoJobs -> (Accounts \X Photos) \cup {NoForm}]
    /\ answers \subseteq [id : Accounts, pin : BOOLEAN, face : BOOLEAN]
    /\ uneven \subseteq Accounts

OnboardingInit ==
    /\ staff = [a \in Accounts |-> NoAccount]
    /\ hiring = [f \in Forms |-> NoForm]
    /\ rephoto = [p \in PhotoJobs |-> NoForm]
    /\ answers = {} /\ uneven = {}

Holders(c) == {a \in Accounts : staff[a] # NoAccount /\ staff[a].code = c}
Employed == {a \in Accounts : staff[a] # NoAccount}
At(f, stage) == hiring[f] # NoForm /\ hiring[f].stage = stage
Step(f, stage) == hiring' = [hiring EXCEPT ![f].stage = stage]

\* HR submits the form.
SubmitForm(f, c, ph) ==
    /\ hiring[f] = NoForm
    /\ hiring' = [hiring EXCEPT ![f] =
            [stage |-> "check", code |-> c, photo |-> ph, id |-> NoAccount,
             pin |-> FALSE, face |-> FALSE]]
    /\ UNCHANGED <<staff, rephoto, answers, uneven>>

\* The handler ends with an error, and the form with "Profile not created".
HiringFails(f) == hiring' = [hiring EXCEPT ![f] = NoForm]

\* The duplicate check.
CheckDuplicate(f) ==
    /\ At(f, "check")
    /\ \/ Holders(hiring[f].code) # {} /\ HiringFails(f)
       \/ Holders(hiring[f].code) = {} /\ Step(f, "insert")
    /\ UNCHANGED <<staff, rephoto, answers, uneven>>

NewDocument(j) == [code |-> j.code, photo |-> j.photo, active |-> TRUE,
                   shift |-> FALSE, pin |-> FALSE, face |-> "none"]

\* Mutation: no unique index on employee_code.
InsertUnindexed(f, a) ==
    /\ At(f, "insert")
    /\ staff[a] = NoAccount
    /\ staff' = [staff EXCEPT ![a] = NewDocument(hiring[f])]
    /\ hiring' = [hiring EXCEPT ![f].id = a, ![f].stage = "shift"]
    /\ UNCHANGED <<rephoto, answers, uneven>>

\* User.create, under the unique indexes; office or role missing, or a
\* duplicate key, ends the handler.
Insert(f, a) ==
    /\ At(f, "insert")
    /\ staff[a] = NoAccount
    /\ \/ /\ Holders(hiring[f].code) = {}
          /\ staff' = [staff EXCEPT ![a] = NewDocument(hiring[f])]
          /\ hiring' = [hiring EXCEPT ![f].id = a, ![f].stage = "shift"]
       \/ HiringFails(f) /\ UNCHANGED staff
    /\ UNCHANGED <<rephoto, answers, uneven>>

\* Shift.create; an error leaves the account as it is.
CreateShift(f) ==
    /\ At(f, "shift")
    /\ \/ /\ staff' = [staff EXCEPT ![hiring[f].id].shift = TRUE]
          /\ Step(f, "pin")
       \/ HiringFails(f) /\ UNCHANGED staff
    /\ UNCHANGED <<rephoto, answers, uneven>>

\* Mutation: the PIN is reported whether or not it could be stored.
TryIssuePinHiding(f) ==
    /\ At(f, "pin")
    /\ staff' \in {staff, [staff EXCEPT ![hiring[f].id].pin = TRUE]}
    /\ hiring' = [hiring EXCEPT ![f].pin = TRUE, ![f].stage = "face"]
    /\ UNCHANGED <<rephoto, answers, uneven>>

\* tryIssuePin: hashed by the AI service, stored, or not issued at all.
TryIssuePin(f) ==
    /\ At(f, "pin")
    /\ \/ /\ staff' = [staff EXCEPT ![hiring[f].id].pin = TRUE]
          /\ hiring' = [hiring EXCEPT ![f].pin = TRUE, ![f].stage = "face"]
       \/ Step(f, "face") /\ UNCHANGED staff
    /\ UNCHANGED <<rephoto, answers, uneven>>

\* tryGenerateEmbedding in createEmployee.  A photo update may have come
\* before it.
TryGenerateEmbedding(f) ==
    LET j == hiring[f]
    IN
    /\ At(f, "face")
    /\ \/ /\ staff' = [staff EXCEPT ![j.id].face = j.photo]
          /\ hiring' = [hiring EXCEPT ![f].face = TRUE, ![f].stage = "answer"]
          /\ uneven' = IF staff[j.id].photo = j.photo THEN uneven ELSE uneven \cup {j.id}
       \/ /\ Step(f, "answer")
          /\ uneven' = uneven \cup {j.id}
          /\ UNCHANGED staff
    /\ UNCHANGED <<rephoto, answers>>

\* The answer reaches the form and the radius, if HR changed it, is saved:
\* PIN, password and problems are shown.  If the answer is lost or the
\* radius is refused, the form reports that nothing was created.
AnswerForm(f) ==
    /\ At(f, "answer")
    /\ \/ /\ answers' = answers \cup
                {[id |-> hiring[f].id, pin |-> hiring[f].pin, face |-> hiring[f].face]}
          /\ hiring' = [hiring EXCEPT ![f] = NoForm]
       \/ HiringFails(f) /\ UNCHANGED answers
    /\ UNCHANGED <<staff, rephoto, uneven>>

Updating(a) == \/ \E p \in PhotoJobs : rephoto[p] # NoForm /\ rephoto[p][1] = a
               \/ \E f \in Forms : At(f, "face") /\ hiring[f].id = a

\* updateEmployeePhoto: the photo's address first ...
SetPhoto(p, a, ph) ==
    /\ rephoto[p] = NoForm /\ a \in Employed
    /\ staff' = [staff EXCEPT ![a].photo = ph]
    /\ rephoto' = [rephoto EXCEPT ![p] = <<a, ph>>]
    /\ uneven' = IF Updating(a) THEN uneven \cup {a} ELSE uneven
    /\ UNCHANGED <<hiring, answers>>

\* Mutation: a face already there is not made again.
EmbedPhotoOnce(p) ==
    LET a == rephoto[p][1]
    IN
    /\ rephoto[p] # NoForm
    /\ staff' = IF staff[a].face = "none" THEN [staff EXCEPT ![a].face = rephoto[p][2]]
                ELSE staff
    /\ rephoto' = [rephoto EXCEPT ![p] = NoForm]
    /\ UNCHANGED <<hiring, answers, uneven>>

\* ... then its embedding; on a failure the old one stays.
EmbedPhoto(p) ==
    LET a == rephoto[p][1]
    IN
    /\ rephoto[p] # NoForm
    /\ \/ staff' = [staff EXCEPT ![a].face = rephoto[p][2]] /\ UNCHANGED uneven
       \/ uneven' = uneven \cup {a} /\ UNCHANGED staff
    /\ rephoto' = [rephoto EXCEPT ![p] = NoForm]
    /\ UNCHANGED <<hiring, answers>>

\* updateEmployee: fields of the User and, if asked, an upsert of the Shift.
UpdateEmployee(a, on, reshift) ==
    /\ a \in Employed
    /\ staff' = [staff EXCEPT ![a].active = on, ![a].shift = @ \/ reshift]
    /\ UNCHANGED <<hiring, rephoto, answers, uneven>>

\* deactivateEmployee.
Deactivate(a) ==
    /\ a \in Employed
    /\ staff' = [staff EXCEPT ![a].active = FALSE]
    /\ UNCHANGED <<hiring, rephoto, answers, uneven>>

OnboardingNext ==
    \/ \E f \in Forms, c \in Codes, ph \in Photos : SubmitForm(f, c, ph)
    \/ \E f \in Forms :
          \/ CheckDuplicate(f) \/ CreateShift(f) \/ TryIssuePin(f)
          \/ TryGenerateEmbedding(f) \/ AnswerForm(f)
          \/ \E a \in Accounts : Insert(f, a)
    \/ \E p \in PhotoJobs :
          \/ EmbedPhoto(p)
          \/ \E a \in Accounts, ph \in Photos : SetPhoto(p, a, ph)
    \/ \E a \in Accounts : Deactivate(a) \/ \E on, reshift \in BOOLEAN : UpdateEmployee(a, on, reshift)

OnboardingSpec == OnboardingInit /\ [][OnboardingNext]_onboardingVars

-----------------------------------------------------------------------------
\* "An employee with this email or employee code already exists": however
\* submissions race past the duplicate check, a code is given once.
OneAccountPerCode == \A c \in Codes : Cardinality(Holders(c)) <= 1

\* What HR is shown is so: a PIN shown was stored and goes on working, and a
\* face reported was embedded, whatever failed on the way.
ReportsTrue ==
    \A r \in answers :
        /\ r.pin => staff[r.id].pin
        /\ r.face => staff[r.id].face # "none"

\* Once its updates have ended, none of them failed or overlapping, the face
\* an account is compared with is that of its reference photo.
FaceMatchesPhoto ==
    \A a \in Employed \ uneven :
        (~Updating(a) /\ staff[a].face # "none") => staff[a].face = staff[a].photo

\* The accounts are what HR was told they are: one for a code, with the PIN and
\* the face that were reported, and the face that of the photo.
AccountsSound == OneAccountPerCode /\ ReportsTrue /\ FaceMatchesPhoto
=============================================================================
