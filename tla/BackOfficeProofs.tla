--------------------------- MODULE BackOfficeProofs ---------------------------
(***************************************************************************)
(* What backend and console keep true, for every value of the constants:   *)
(* accounts, their photos and offices (employeeService.ts,                 *)
(* officeGeofenceService.ts), tokens (jwt.ts and its callers), the rate    *)
(* and the blocklist (rateLimiter.ts, incidentBlocklist.ts), the shift's   *)
(* days and the dashboard's, the geofence's editor, the live board, queue  *)
(* and feed, photos on their way up, leave, and attendance in pages.       *)
(***************************************************************************)
EXTENDS Onboarding, Offices, Access, Perimeter, ShiftWeek, FenceCircle, LiveBoard, ReviewDesk,
        PhotoPick, DhakaDays, LeaveDesk, ReportExport, AttendanceTable, Functions,
        WellFoundedInduction, FiniteSetTheorems, SequenceTheorems, TLAPS

\* The stages of a submission that has created its account.
Later == {"shift", "pin", "face", "answer"}

\* A submission under way past the insertion has its account, and carries
\* the PIN and the face it will report only if the account has them.
SubmissionTrue(st, j) ==
    /\ j.stage \in Later => j.id \in Accounts /\ st[j.id] # NoAccount
    /\ j.stage \notin Later => j.pin = FALSE /\ j.face = FALSE
    /\ j.pin = TRUE => st[j.id].pin = TRUE
    /\ j.face = TRUE => st[j.id].face # "none"

SubmissionsTrue == \A f \in Forms : hiring[f] # NoForm => SubmissionTrue(staff, hiring[f])

\* No two accounts share a code.
CodesGivenOnce ==
    \A a, b \in Accounts :
        (staff[a] # NoAccount /\ staff[b] # NoAccount /\ staff[a].code = staff[b].code) => a = b

\* What was reported concerns an account there is, and is so.
AnswersTrue ==
    \A r \in answers :
        /\ staff[r.id] # NoAccount
        /\ r.pin = TRUE => staff[r.id].pin = TRUE
        /\ r.face = TRUE => staff[r.id].face # "none"

\* Photo updates are of accounts there are; as long as they neither overlap
\* nor fail, the one under way carries the photo of its account.
UpdatesTrue ==
    \A p \in PhotoJobs : rephoto[p] # NoForm =>
        /\ staff[rephoto[p][1]] # NoAccount
        /\ rephoto[p][1] \notin uneven => rephoto[p][2] = staff[rephoto[p][1]].photo

\* What no step takes away from an account.
StaffGrows ==
    \A a \in Accounts : staff[a] # NoAccount =>
        /\ staff'[a] # NoAccount
        /\ staff'[a].code = staff[a].code
        /\ staff[a].pin = TRUE => staff'[a].pin = TRUE
        /\ staff[a].face # "none" => staff'[a].face # "none"

\* The accounts and their fields stay of their types.
LEMMA StaffTyped ==
    ASSUME OnboardingTypeOK, SubmissionsTrue, UpdatesTrue, [OnboardingNext]_onboardingVars
    PROVE  staff' \in [Accounts -> Documents \cup {NoAccount}] /\ StaffGrows
  <1> USE OnboardingAssumption
  <1> DEFINE Goal == staff' \in [Accounts -> Documents \cup {NoAccount}] /\ StaffGrows
  <1>1. /\ staff \in [Accounts -> Documents \cup {NoAccount}]
        /\ hiring \in [Forms -> Submissions \cup {NoForm}]
        /\ rephoto \in [PhotoJobs -> (Accounts \X Photos) \cup {NoForm}]
    BY DEF OnboardingTypeOK
  <1>2. \A f \in Forms : hiring[f] # NoForm => hiring[f] \in Submissions
    BY <1>1
  <1>3. \A p \in PhotoJobs : rephoto[p] # NoForm => rephoto[p] \in Accounts \X Photos
    BY <1>1
  <1>4. CASE UNCHANGED staff
    BY <1>1, <1>4 DEF StaffGrows
  <1>5. ASSUME NEW a \in Accounts, NEW d \in Documents,
               staff' = [staff EXCEPT ![a] = d],
               staff[a] # NoAccount =>
                  /\ d.code = staff[a].code
                  /\ staff[a].pin = TRUE => d.pin = TRUE
                  /\ staff[a].face # "none" => d.face # "none"
        PROVE  Goal
    BY <1>1, <1>5 DEF StaffGrows
  <1>6. ASSUME NEW f \in Forms, NEW a \in Accounts, Insert(f, a) PROVE Goal
    <2>1. hiring[f] \in Submissions
      BY <1>2, <1>6 DEF Insert, At
    <2>2. NewDocument(hiring[f]) \in Documents
      BY <2>1 DEF NewDocument, Submissions, Documents
    <2> QED
      BY <1>4, <1>5, <1>6, <2>2 DEF Insert
  <1>7. ASSUME NEW f \in Forms, CreateShift(f) PROVE Goal
    <2> DEFINE a == hiring[f].id
    <2>1. a \in Accounts /\ staff[a] # NoAccount
      BY <1>7 DEF CreateShift, At, SubmissionsTrue, SubmissionTrue, Later
    <2>2. staff[a] \in Documents
      BY <1>1, <2>1
    <2>3. [staff[a] EXCEPT !.shift = TRUE] \in Documents
      BY <2>2 DEF Documents
    <2>4. staff' = [staff EXCEPT ![a] = [staff[a] EXCEPT !.shift = TRUE]] \/ UNCHANGED staff
      BY <1>7 DEF CreateShift
    <2> QED
      BY <1>4, <1>5, <2>1, <2>2, <2>3, <2>4 DEF Documents
  <1>8. ASSUME NEW f \in Forms, TryIssuePin(f) PROVE Goal
    <2> DEFINE a == hiring[f].id
    <2>1. a \in Accounts /\ staff[a] # NoAccount
      BY <1>8 DEF TryIssuePin, At, SubmissionsTrue, SubmissionTrue, Later
    <2>2. staff[a] \in Documents
      BY <1>1, <2>1
    <2>3. [staff[a] EXCEPT !.pin = TRUE] \in Documents
      BY <2>2 DEF Documents
    <2>4. staff' = [staff EXCEPT ![a] = [staff[a] EXCEPT !.pin = TRUE]] \/ UNCHANGED staff
      BY <1>8 DEF TryIssuePin
    <2> QED
      BY <1>4, <1>5, <2>1, <2>2, <2>3, <2>4 DEF Documents
  <1>9. ASSUME NEW f \in Forms, TryGenerateEmbedding(f) PROVE Goal
    <2> DEFINE a == hiring[f].id
    <2>1. a \in Accounts /\ staff[a] # NoAccount
      BY <1>9 DEF TryGenerateEmbedding, At, SubmissionsTrue, SubmissionTrue, Later
    <2>2. staff[a] \in Documents
      BY <1>1, <2>1
    <2>3. hiring[f].photo \in Photos
      BY <1>2, <1>9 DEF TryGenerateEmbedding, At, Submissions
    <2>4. [staff[a] EXCEPT !.face = hiring[f].photo] \in Documents
      BY <2>2, <2>3 DEF Documents
    <2>5. staff' = [staff EXCEPT ![a] = [staff[a] EXCEPT !.face = hiring[f].photo]]
          \/ UNCHANGED staff
      BY <1>9 DEF TryGenerateEmbedding
    <2> QED
      BY <1>4, <1>5, <2>1, <2>2, <2>3, <2>4, <2>5 DEF Documents
  <1>10. ASSUME NEW p \in PhotoJobs, NEW a \in Accounts, NEW ph \in Photos, SetPhoto(p, a, ph)
         PROVE  Goal
    <2>1. staff[a] \in Documents
      BY <1>1, <1>10 DEF SetPhoto, Employed
    <2>2. [staff[a] EXCEPT !.photo = ph] \in Documents
      BY <2>1 DEF Documents
    <2>3. staff' = [staff EXCEPT ![a] = [staff[a] EXCEPT !.photo = ph]]
      BY <1>10 DEF SetPhoto
    <2> QED
      BY <1>5, <2>1, <2>2, <2>3 DEF Documents
  <1>11. ASSUME NEW p \in PhotoJobs, EmbedPhoto(p) PROVE Goal
    <2> DEFINE a == rephoto[p][1]
    <2>1. a \in Accounts /\ rephoto[p][2] \in Photos /\ staff[a] # NoAccount
      BY <1>3, <1>11 DEF EmbedPhoto, UpdatesTrue
    <2>2. staff[a] \in Documents
      BY <1>1, <2>1
    <2>3. [staff[a] EXCEPT !.face = rephoto[p][2]] \in Documents
      BY <2>1, <2>2 DEF Documents
    <2>4. staff' = [staff EXCEPT ![a] = [staff[a] EXCEPT !.face = rephoto[p][2]]]
          \/ UNCHANGED staff
      BY <1>11 DEF EmbedPhoto
    <2> QED
      BY <1>4, <1>5, <2>1, <2>2, <2>3, <2>4 DEF Documents
  <1>12. ASSUME NEW a \in Accounts, NEW on \in BOOLEAN, NEW reshift \in BOOLEAN,
                Deactivate(a) \/ UpdateEmployee(a, on, reshift)
         PROVE  Goal
    <2>1. staff[a] \in Documents
      BY <1>1, <1>12 DEF Deactivate, UpdateEmployee, Employed
    <2>2. PICK d \in Documents :
             /\ staff' = [staff EXCEPT ![a] = d]
             /\ d.code = staff[a].code /\ d.pin = staff[a].pin /\ d.face = staff[a].face
      <3>1. CASE Deactivate(a)
        <4>1. [staff[a] EXCEPT !.active = FALSE] \in Documents
          BY <2>1 DEF Documents
        <4> QED
          BY <2>1, <3>1, <4>1 DEF Deactivate, Documents
      <3>2. CASE UpdateEmployee(a, on, reshift)
        <4> DEFINE s == staff[a].shift \/ reshift
                   d == [staff[a] EXCEPT !.active = on, !.shift = s]
        <4>1. d \in Documents
          <5>1. s \in BOOLEAN
            OBVIOUS
          <5> HIDE DEF s
          <5> QED
            BY <2>1, <5>1 DEF Documents
        <4>2. staff' = [staff EXCEPT ![a] = d]
          BY <2>1, <3>2 DEF UpdateEmployee, Documents
        <4>3. d.code = staff[a].code /\ d.pin = staff[a].pin /\ d.face = staff[a].face
          BY <2>1 DEF Documents
        <4> QED
          BY <4>1, <4>2, <4>3
      <3> QED
        BY <1>12, <3>1, <3>2
    <2> QED
      BY <1>5, <2>2
  <1>13. CASE \E f \in Forms : \/ \E c \in Codes, ph \in Photos : SubmitForm(f, c, ph)
                               \/ CheckDuplicate(f) \/ AnswerForm(f)
    BY <1>4, <1>13 DEF SubmitForm, CheckDuplicate, AnswerForm
  <1>14. CASE UNCHANGED onboardingVars
    BY <1>4, <1>14 DEF onboardingVars
  <1> QED
    BY <1>6, <1>7, <1>8, <1>9, <1>10, <1>11, <1>12, <1>13, <1>14 DEF OnboardingNext

\* Submissions, photo updates and reports stay of their types.
LEMMA HiringTyped ==
    ASSUME OnboardingTypeOK, SubmissionsTrue, UpdatesTrue, [OnboardingNext]_onboardingVars
    PROVE  OnboardingTypeOK'
  <1> USE OnboardingAssumption
  <1>1. /\ staff \in [Accounts -> Documents \cup {NoAccount}]
        /\ hiring \in [Forms -> Submissions \cup {NoForm}]
        /\ rephoto \in [PhotoJobs -> (Accounts \X Photos) \cup {NoForm}]
        /\ answers \subseteq [id : Accounts, pin : BOOLEAN, face : BOOLEAN]
        /\ uneven \subseteq Accounts
    BY DEF OnboardingTypeOK
  <1>2. \A f \in Forms : hiring[f] # NoForm => hiring[f] \in Submissions
    BY <1>1
  <1>3. \A p \in PhotoJobs : rephoto[p] # NoForm => rephoto[p] \in Accounts \X Photos
    BY <1>1
  <1> DEFINE Rest == /\ hiring \in [Forms -> Submissions \cup {NoForm}]
                     /\ rephoto \in [PhotoJobs -> (Accounts \X Photos) \cup {NoForm}]
                     /\ answers \subseteq [id : Accounts, pin : BOOLEAN, face : BOOLEAN]
                     /\ uneven \subseteq Accounts
  <1> SUFFICES Rest'
    BY StaffTyped DEF OnboardingTypeOK
  <1>4. ASSUME NEW f \in Forms, NEW j \in Submissions \cup {NoForm},
               hiring' = [hiring EXCEPT ![f] = j]
        PROVE  hiring' \in [Forms -> Submissions \cup {NoForm}]
    BY <1>1, <1>4
  <1>5. ASSUME NEW f \in Forms, NEW c \in Codes, NEW ph \in Photos, SubmitForm(f, c, ph)
        PROVE  Rest'
    <2>1. [stage |-> "check", code |-> c, photo |-> ph, id |-> NoAccount,
           pin |-> FALSE, face |-> FALSE] \in Submissions
      BY DEF Submissions, Stages
    <2> QED
      BY <1>1, <1>5, <2>1 DEF SubmitForm
  <1>6. ASSUME NEW f \in Forms, NEW stage \in Stages, hiring[f] # NoForm,
               Step(f, stage) \/ HiringFails(f)
        PROVE  hiring' \in [Forms -> Submissions \cup {NoForm}]
    <2>1. [hiring[f] EXCEPT !.stage = stage] \in Submissions
      BY <1>2, <1>6 DEF Submissions
    <2> QED
      BY <1>1, <1>6, <2>1 DEF Step, HiringFails
  <1>7. ASSUME NEW f \in Forms, CheckDuplicate(f) PROVE Rest'
    <2>1. "insert" \in Stages /\ hiring[f] # NoForm
      BY <1>7 DEF Stages, CheckDuplicate, At
    <2> QED
      BY <1>1, <1>6, <1>7, <2>1 DEF CheckDuplicate
  <1>8. ASSUME NEW f \in Forms, NEW a \in Accounts, Insert(f, a) PROVE Rest'
    <2>1. hiring[f] \in Submissions
      BY <1>2, <1>8 DEF Insert, At
    <2>2. [[hiring[f] EXCEPT !.id = a] EXCEPT !.stage = "shift"] \in Submissions
      BY <2>1 DEF Submissions, Stages
    <2>3. \/ hiring' = [hiring EXCEPT ![f] = [[hiring[f] EXCEPT !.id = a] EXCEPT !.stage = "shift"]]
          \/ hiring' = [hiring EXCEPT ![f] = NoForm]
      BY <1>1, <1>8 DEF Insert, HiringFails
    <2> QED
      BY <1>1, <1>4, <1>8, <2>2, <2>3 DEF Insert
  <1>9. ASSUME NEW f \in Forms, CreateShift(f) PROVE Rest'
    <2>1. "pin" \in Stages /\ hiring[f] # NoForm
      BY <1>9 DEF Stages, CreateShift, At
    <2> QED
      BY <1>1, <1>6, <1>9, <2>1 DEF CreateShift
  <1>10. ASSUME NEW f \in Forms, TryIssuePin(f) PROVE Rest'
    <2>1. hiring[f] \in Submissions /\ hiring[f] # NoForm /\ "face" \in Stages
      BY <1>2, <1>10 DEF TryIssuePin, At, Stages
    <2>2. [[hiring[f] EXCEPT !.pin = TRUE] EXCEPT !.stage = "face"] \in Submissions
      BY <2>1 DEF Submissions
    <2>3. \/ hiring' = [hiring EXCEPT ![f] = [[hiring[f] EXCEPT !.pin = TRUE] EXCEPT !.stage = "face"]]
          \/ Step(f, "face")
      BY <1>1, <1>10 DEF TryIssuePin
    <2> QED
      BY <1>1, <1>4, <1>6, <1>10, <2>1, <2>2, <2>3 DEF TryIssuePin
  <1>11. ASSUME NEW f \in Forms, TryGenerateEmbedding(f) PROVE Rest'
    <2>1. hiring[f] \in Submissions /\ hiring[f] # NoForm /\ "answer" \in Stages
      BY <1>2, <1>11 DEF TryGenerateEmbedding, At, Stages
    <2>2. [[hiring[f] EXCEPT !.face = TRUE] EXCEPT !.stage = "answer"] \in Submissions
      BY <2>1 DEF Submissions
    <2>3. \/ hiring' = [hiring EXCEPT ![f] = [[hiring[f] EXCEPT !.face = TRUE] EXCEPT !.stage = "answer"]]
          \/ Step(f, "answer")
      BY <1>1, <1>11 DEF TryGenerateEmbedding
    <2>4. hiring' \in [Forms -> Submissions \cup {NoForm}]
      BY <1>4, <1>6, <2>1, <2>2, <2>3
    <2>5. hiring[f].id \in Accounts
      BY <2>1, <1>11 DEF TryGenerateEmbedding, At, SubmissionsTrue, SubmissionTrue, Later
    <2>6. uneven' \subseteq Accounts
      BY <1>1, <1>11, <2>5 DEF TryGenerateEmbedding
    <2> QED
      BY <1>1, <1>11, <2>4, <2>6 DEF TryGenerateEmbedding
  <1>12. ASSUME NEW f \in Forms, AnswerForm(f) PROVE Rest'
    <2>1. hiring[f] \in Submissions /\ hiring[f] # NoForm
      BY <1>2, <1>12 DEF AnswerForm, At
    <2>2. hiring[f].id \in Accounts
      BY <2>1, <1>12 DEF AnswerForm, At, SubmissionsTrue, SubmissionTrue, Later
    <2>3. [id |-> hiring[f].id, pin |-> hiring[f].pin, face |-> hiring[f].face]
             \in [id : Accounts, pin : BOOLEAN, face : BOOLEAN]
      BY <2>1, <2>2 DEF Submissions
    <2> QED
      BY <1>1, <1>12, <2>3 DEF AnswerForm, HiringFails
  <1>13. ASSUME NEW p \in PhotoJobs, NEW a \in Accounts, NEW ph \in Photos, SetPhoto(p, a, ph)
         PROVE  Rest'
    BY <1>1, <1>13 DEF SetPhoto
  <1>14. ASSUME NEW p \in PhotoJobs, EmbedPhoto(p) PROVE Rest'
    BY <1>1, <1>3, <1>14 DEF EmbedPhoto
  <1>15. ASSUME NEW a \in Accounts, NEW on \in BOOLEAN, NEW reshift \in BOOLEAN,
                Deactivate(a) \/ UpdateEmployee(a, on, reshift)
         PROVE  Rest'
    BY <1>1, <1>15 DEF Deactivate, UpdateEmployee
  <1>16. CASE UNCHANGED onboardingVars
    BY <1>1, <1>16 DEF onboardingVars
  <1> QED
    BY <1>5, <1>7, <1>8, <1>9, <1>10, <1>11, <1>12, <1>13, <1>14, <1>15, <1>16
       DEF OnboardingNext

\* Insertion is the only step that gives out a code, and the unique index
\* refuses one that is taken.
LEMMA CodesStayUnique ==
    ASSUME OnboardingTypeOK, SubmissionsTrue, UpdatesTrue, CodesGivenOnce,
           [OnboardingNext]_onboardingVars
    PROVE  CodesGivenOnce'
  <1> USE OnboardingAssumption
  <1>1. StaffGrows
    BY StaffTyped
  <1>2. staff \in [Accounts -> Documents \cup {NoAccount}]
    BY DEF OnboardingTypeOK
  <1>3. ASSUME \A a \in Accounts : staff'[a] # NoAccount => staff[a] # NoAccount
        PROVE  CodesGivenOnce'
    BY <1>1, <1>3 DEF CodesGivenOnce, StaffGrows
  <1>4. ASSUME NEW f \in Forms, NEW a \in Accounts, Insert(f, a),
               staff' # staff
        PROVE  CodesGivenOnce'
    <2>1. staff' = [staff EXCEPT ![a] = NewDocument(hiring[f])]
      BY <1>4 DEF Insert
    <2>2. staff'[a].code = hiring[f].code
      BY <1>2, <2>1 DEF NewDocument
    <2>3. \A b \in Accounts : staff[b] # NoAccount => staff[b].code # hiring[f].code
      BY <1>4 DEF Insert, Holders
    <2>4. \A b \in Accounts : b # a => staff'[b] = staff[b]
      BY <1>2, <2>1
    <2> QED
      BY <2>2, <2>3, <2>4 DEF CodesGivenOnce
  <1>5. ASSUME NEW a \in Accounts, staff[a] = NoAccount, staff'[a] # NoAccount
        PROVE  \E f \in Forms, b \in Accounts : Insert(f, b) /\ staff' # staff
    <2>1. \A f \in Forms : hiring[f] # NoForm /\ hiring[f].stage \in Later
             => hiring[f].id \in Accounts /\ staff[hiring[f].id] # NoAccount
      BY DEF SubmissionsTrue, SubmissionTrue
    <2>2. ~UNCHANGED staff
      BY <1>5
    <2>3. \A d : \A b \in Accounts : staff' = [staff EXCEPT ![b] = d] => b = a
      BY <1>2, <1>5
    <2>4. ASSUME NEW f \in Forms,
                 CheckDuplicate(f) \/ CreateShift(f) \/ TryIssuePin(f)
                   \/ TryGenerateEmbedding(f) \/ AnswerForm(f)
          PROVE  FALSE
      BY <2>1, <2>2, <2>3, <2>4, <1>5 DEF CheckDuplicate, CreateShift, TryIssuePin,
         TryGenerateEmbedding, AnswerForm, At, Later
    <2>5. ASSUME NEW p \in PhotoJobs, EmbedPhoto(p) PROVE FALSE
      <3>1. rephoto[p][1] \in Accounts /\ staff[rephoto[p][1]] # NoAccount
        BY <2>5 DEF EmbedPhoto, UpdatesTrue, OnboardingTypeOK
      <3> QED
        BY <1>5, <2>2, <2>3, <2>5, <3>1 DEF EmbedPhoto
    <2>6. ASSUME NEW p \in PhotoJobs, NEW b \in Accounts, NEW ph \in Photos, SetPhoto(p, b, ph)
          PROVE  FALSE
      BY <1>5, <2>3, <2>6 DEF SetPhoto, Employed
    <2>7. ASSUME NEW b \in Accounts, NEW on \in BOOLEAN, NEW reshift \in BOOLEAN,
                 Deactivate(b) \/ UpdateEmployee(b, on, reshift)
          PROVE  FALSE
      BY <1>2, <1>5, <2>7 DEF Deactivate, UpdateEmployee, Employed
    <2>8. \A f \in Forms, c \in Codes, ph \in Photos : ~SubmitForm(f, c, ph)
      BY <2>2 DEF SubmitForm
    <2>9. ~UNCHANGED onboardingVars
      BY <2>2 DEF onboardingVars
    <2> QED
      BY <2>2, <2>4, <2>5, <2>6, <2>7, <2>8, <2>9 DEF OnboardingNext
  <1> QED
    BY <1>3, <1>4, <1>5

\* A submission that a step leaves alone stays true: accounts only grow.
LEMMA TrueSubmissionStays ==
    ASSUME StaffGrows, NEW j \in Submissions, SubmissionTrue(staff, j)
    PROVE  SubmissionTrue(staff', j)
  <1>1. j.stage \in Later \/ (j.pin = FALSE /\ j.face = FALSE)
    BY DEF SubmissionTrue
  <1> QED
    BY <1>1 DEF SubmissionTrue, StaffGrows, Submissions

\* No submission reports what the steps it went through did not achieve.
LEMMA SubmissionsStayTrue ==
    ASSUME OnboardingTypeOK, SubmissionsTrue, UpdatesTrue, [OnboardingNext]_onboardingVars
    PROVE  SubmissionsTrue'
  <1> USE OnboardingAssumption
  <1>1. StaffGrows /\ staff \in [Accounts -> Documents \cup {NoAccount}]
    BY StaffTyped DEF OnboardingTypeOK
  <1>2. /\ hiring \in [Forms -> Submissions \cup {NoForm}]
        /\ \A f \in Forms : hiring[f] # NoForm => hiring[f] \in Submissions
    BY DEF OnboardingTypeOK
  <1>3. ASSUME NEW f \in Forms, NEW j \in Submissions \cup {NoForm},
               hiring' = [hiring EXCEPT ![f] = j],
               j # NoForm => SubmissionTrue(staff', j)
        PROVE  SubmissionsTrue'
    <2>1. \A g \in Forms : g # f => hiring'[g] = hiring[g]
      BY <1>2, <1>3
    <2>2. hiring'[f] = j
      BY <1>2, <1>3
    <2>3. \A g \in Forms : (g # f /\ hiring[g] # NoForm) => SubmissionTrue(staff', hiring[g])
      BY <1>1, <1>2, TrueSubmissionStays DEF SubmissionsTrue
    <2> QED
      BY <1>3, <2>1, <2>2, <2>3 DEF SubmissionsTrue, SubmissionTrue
  <1>4. CASE UNCHANGED hiring
    <2>1. \A g \in Forms : hiring[g] # NoForm => SubmissionTrue(staff', hiring[g])
      BY <1>1, <1>2, TrueSubmissionStays DEF SubmissionsTrue
    <2> QED
      BY <1>4, <2>1 DEF SubmissionsTrue, SubmissionTrue
  <1>5. ASSUME NEW f \in Forms, HiringFails(f) PROVE SubmissionsTrue'
    BY <1>3, <1>5 DEF HiringFails
  <1>6. ASSUME NEW f \in Forms, NEW c \in Codes, NEW ph \in Photos, SubmitForm(f, c, ph)
        PROVE  SubmissionsTrue'
    <2> DEFINE j == [stage |-> "check", code |-> c, photo |-> ph, id |-> NoAccount,
                     pin |-> FALSE, face |-> FALSE]
    <2>1. j \in Submissions
      BY DEF Submissions, Stages
    <2>2. SubmissionTrue(staff', j)
      BY DEF SubmissionTrue, Later
    <2>3. hiring' = [hiring EXCEPT ![f] = j]
      BY <1>6 DEF SubmitForm
    <2> QED
      BY <1>3, <2>1, <2>2, <2>3
  <1>7. ASSUME NEW f \in Forms, CheckDuplicate(f), Step(f, "insert") PROVE SubmissionsTrue'
    <2> DEFINE j == [hiring[f] EXCEPT !.stage = "insert"]
    <2>1. hiring[f] \in Submissions /\ hiring[f].stage = "check"
      BY <1>2, <1>7 DEF CheckDuplicate, At
    <2>2. j \in Submissions /\ j.stage = "insert" /\ j.pin = FALSE /\ j.face = FALSE
      BY <2>1, <1>7 DEF Submissions, Stages, SubmissionsTrue, SubmissionTrue, Later,
         CheckDuplicate, At
    <2>3. SubmissionTrue(staff', j)
      BY <2>2 DEF SubmissionTrue, Later
    <2> QED
      BY <1>3, <1>7, <2>2, <2>3 DEF Step
  <1>8. ASSUME NEW f \in Forms, NEW a \in Accounts, Insert(f, a), ~HiringFails(f)
        PROVE  SubmissionsTrue'
    <2> DEFINE j == [[hiring[f] EXCEPT !.id = a] EXCEPT !.stage = "shift"]
    <2>1. hiring[f] \in Submissions /\ hiring[f].stage = "insert"
      BY <1>2, <1>8 DEF Insert, At
    <2>2. /\ j \in Submissions /\ j.stage = "shift" /\ j.id = a
          /\ j.pin = FALSE /\ j.face = FALSE
      BY <2>1, <1>8 DEF Submissions, Stages, SubmissionsTrue, SubmissionTrue, Later, Insert, At
    <2>3. NewDocument(hiring[f]) \in Documents
      BY <2>1 DEF NewDocument, Submissions, Documents
    <2>4. staff'[a] # NoAccount
      BY <1>1, <1>8, <2>3 DEF Insert
    <2>5. SubmissionTrue(staff', j)
      BY <2>2, <2>4 DEF SubmissionTrue, Later
    <2>6. hiring' = [hiring EXCEPT ![f] = j]
      BY <1>2, <1>8 DEF Insert
    <2> QED
      BY <1>3, <2>2, <2>5, <2>6
  \* A submission that has its account takes its next step.
  <1>9. ASSUME NEW f \in Forms, hiring[f] # NoForm, hiring[f].stage \in Later,
               NEW k \in Submissions, k.stage \in Later, k.id = hiring[f].id,
               k.pin = TRUE => hiring[f].pin = TRUE \/ staff'[k.id].pin = TRUE,
               k.face = TRUE => hiring[f].face = TRUE \/ staff'[k.id].face # "none",
               hiring' = [hiring EXCEPT ![f] = k]
        PROVE  SubmissionsTrue'
    <2>1. SubmissionTrue(staff, hiring[f])
      BY <1>9 DEF SubmissionsTrue
    <2>2. SubmissionTrue(staff', k)
      BY <1>1, <1>9, <2>1 DEF SubmissionTrue, StaffGrows
    <2> QED
      BY <1>3, <1>9, <2>2
  <1>10. ASSUME NEW f \in Forms, hiring[f] # NoForm, hiring[f].stage \in Later,
                NEW next \in Later, Step(f, next)
         PROVE  SubmissionsTrue'
    <2> DEFINE k == [hiring[f] EXCEPT !.stage = next]
    <2>1. /\ k \in Submissions /\ k.stage = next /\ k.id = hiring[f].id
          /\ k.pin = hiring[f].pin /\ k.face = hiring[f].face
      BY <1>2, <1>10 DEF Submissions, Stages, Later
    <2>2. hiring' = [hiring EXCEPT ![f] = k]
      BY <1>10 DEF Step
    <2> HIDE DEF k
    <2> QED
      BY <1>9, <1>10, <2>1, <2>2
  <1>11. ASSUME NEW f \in Forms, CreateShift(f) PROVE SubmissionsTrue'
    BY <1>5, <1>10, <1>11 DEF CreateShift, At, Later
  <1>12. ASSUME NEW f \in Forms, TryIssuePin(f) PROVE SubmissionsTrue'
    <2>1. hiring[f] \in Submissions /\ hiring[f] # NoForm /\ hiring[f].stage = "pin"
      BY <1>2, <1>12 DEF TryIssuePin, At
    <2>2. CASE /\ staff' = [staff EXCEPT ![hiring[f].id].pin = TRUE]
               /\ hiring' = [hiring EXCEPT ![f].pin = TRUE, ![f].stage = "face"]
      <3> DEFINE k == [[hiring[f] EXCEPT !.pin = TRUE] EXCEPT !.stage = "face"]
      <3>1. k \in Submissions /\ k.stage = "face" /\ k.id = hiring[f].id
            /\ k.face = hiring[f].face
        BY <2>1 DEF Submissions, Stages
      <3>2. staff[hiring[f].id] \in Documents /\ hiring[f].id \in Accounts
        BY <1>1, <2>1 DEF SubmissionsTrue, SubmissionTrue, Later
      <3>3. staff'[k.id].pin = TRUE
        BY <1>1, <2>2, <3>1, <3>2 DEF Documents
      <3>4. hiring' = [hiring EXCEPT ![f] = k]
        BY <1>2, <2>2
      <3>5. hiring[f].stage \in Later /\ "face" \in Later
        BY <2>1 DEF Later
      <3> HIDE DEF k
      <3> QED
        BY <1>9, <2>1, <3>1, <3>3, <3>4, <3>5
    <2>3. CASE Step(f, "face")
      BY <1>10, <2>1, <2>3 DEF Later
    <2> QED
      BY <1>12, <2>2, <2>3 DEF TryIssuePin
  <1>13. ASSUME NEW f \in Forms, TryGenerateEmbedding(f) PROVE SubmissionsTrue'
    <2>1. hiring[f] \in Submissions /\ hiring[f] # NoForm /\ hiring[f].stage = "face"
      BY <1>2, <1>13 DEF TryGenerateEmbedding, At
    <2>2. CASE /\ staff' = [staff EXCEPT ![hiring[f].id].face = hiring[f].photo]
               /\ hiring' = [hiring EXCEPT ![f].face = TRUE, ![f].stage = "answer"]
      <3> DEFINE k == [[hiring[f] EXCEPT !.face = TRUE] EXCEPT !.stage = "answer"]
      <3>1. k \in Submissions /\ k.stage = "answer" /\ k.id = hiring[f].id
            /\ k.pin = hiring[f].pin
        BY <2>1 DEF Submissions, Stages
      <3>2. staff[hiring[f].id] \in Documents /\ hiring[f].id \in Accounts
        BY <1>1, <2>1 DEF SubmissionsTrue, SubmissionTrue, Later
      <3>3. staff'[k.id].face # "none"
        BY <1>1, <2>1, <2>2, <3>1, <3>2 DEF Documents, Submissions
      <3>4. hiring' = [hiring EXCEPT ![f] = k]
        BY <1>2, <2>2
      <3>5. hiring[f].stage \in Later /\ "answer" \in Later
        BY <2>1 DEF Later
      <3> HIDE DEF k
      <3> QED
        BY <1>9, <2>1, <3>1, <3>3, <3>4, <3>5
    <2>3. CASE Step(f, "answer")
      BY <1>10, <2>1, <2>3 DEF Later
    <2> QED
      BY <1>13, <2>2, <2>3 DEF TryGenerateEmbedding
  <1>14. ASSUME NEW f \in Forms, AnswerForm(f) PROVE SubmissionsTrue'
    <2>1. hiring' = [hiring EXCEPT ![f] = NoForm]
      BY <1>14 DEF AnswerForm, HiringFails
    <2> QED
      BY <1>3, <2>1
  <1>15. CASE \/ \E p \in PhotoJobs :
                    EmbedPhoto(p) \/ \E a \in Accounts, ph \in Photos : SetPhoto(p, a, ph)
              \/ \E a \in Accounts :
                    Deactivate(a) \/ \E on, reshift \in BOOLEAN : UpdateEmployee(a, on, reshift)
              \/ UNCHANGED onboardingVars
    BY <1>4, <1>15 DEF EmbedPhoto, SetPhoto, Deactivate, UpdateEmployee, onboardingVars
  <1>16. ASSUME NEW f \in Forms, CheckDuplicate(f) PROVE SubmissionsTrue'
    BY <1>5, <1>7, <1>16 DEF CheckDuplicate
  <1>17. ASSUME NEW f \in Forms, NEW a \in Accounts, Insert(f, a) PROVE SubmissionsTrue'
    BY <1>5, <1>8, <1>17
  <1> QED
    BY <1>6, <1>11, <1>12, <1>13, <1>14, <1>15, <1>16, <1>17 DEF OnboardingNext

\* What was reported stays so, and the only new report is that of a true
\* submission.
LEMMA AnswersStayTrue ==
    ASSUME OnboardingTypeOK, SubmissionsTrue, UpdatesTrue, AnswersTrue,
           [OnboardingNext]_onboardingVars
    PROVE  AnswersTrue'
  <1>1. StaffGrows
    BY StaffTyped
  <1>2. \A r \in answers : r.id \in Accounts
    BY DEF OnboardingTypeOK
  <1>3. CASE UNCHANGED answers
    BY <1>1, <1>2, <1>3 DEF AnswersTrue, StaffGrows
  <1>4. ASSUME NEW f \in Forms, AnswerForm(f), ~UNCHANGED answers PROVE AnswersTrue'
    <2>1. hiring[f] # NoForm /\ hiring[f].stage = "answer"
      BY <1>4 DEF AnswerForm, At
    <2>2. SubmissionTrue(staff, hiring[f]) /\ hiring[f].id \in Accounts
          /\ staff[hiring[f].id] # NoAccount
      BY <2>1 DEF SubmissionsTrue, SubmissionTrue, Later
    <2>3. staff' = staff
      BY <1>4 DEF AnswerForm
    <2>4. answers' = answers \cup
             {[id |-> hiring[f].id, pin |-> hiring[f].pin, face |-> hiring[f].face]}
      BY <1>4 DEF AnswerForm
    <2> QED
      BY <2>2, <2>3, <2>4 DEF AnswersTrue, SubmissionTrue
  <1>5. UNCHANGED answers \/ \E f \in Forms : AnswerForm(f)
    BY DEF OnboardingNext, onboardingVars, SubmitForm, CheckDuplicate, Insert, CreateShift,
       TryIssuePin, TryGenerateEmbedding, SetPhoto, EmbedPhoto, UpdateEmployee, Deactivate
  <1> QED
    BY <1>3, <1>4, <1>5

\* A step that keeps the photo and the face of every account there is, ends no
\* update and starts no other, keeps the photo updates true.
LEMMA PhotosKept ==
    ASSUME OnboardingTypeOK, UpdatesTrue, FaceMatchesPhoto, StaffGrows,
           \A a \in Accounts : staff[a] # NoAccount =>
              staff'[a].photo = staff[a].photo /\ staff'[a].face = staff[a].face,
           \A a \in Accounts : staff[a] = NoAccount /\ staff'[a] # NoAccount =>
              staff'[a].face = "none",
           UNCHANGED <<rephoto, uneven>>,
           \A f \in Forms : At(f, "face") => At(f, "face")' /\ hiring'[f].id = hiring[f].id
    PROVE  UpdatesTrue' /\ FaceMatchesPhoto'
  <1>1. \A p \in PhotoJobs : rephoto[p] # NoForm => rephoto[p][1] \in Accounts
    BY OnboardingAssumption DEF OnboardingTypeOK
  <1>2. UpdatesTrue'
    BY <1>1 DEF UpdatesTrue, StaffGrows
  <1>3. \A a \in Accounts : Updating(a) => Updating(a)'
    BY DEF Updating
  <1>4. FaceMatchesPhoto'
    BY <1>3 DEF FaceMatchesPhoto, Employed
  <1> QED
    BY <1>2, <1>4

\* The face of an account stays that of its photo.
LEMMA PhotosStayTrue ==
    ASSUME OnboardingTypeOK, SubmissionsTrue, UpdatesTrue, FaceMatchesPhoto,
           [OnboardingNext]_onboardingVars
    PROVE  UpdatesTrue' /\ FaceMatchesPhoto'
  <1> USE OnboardingAssumption
  <1>1. StaffGrows /\ staff \in [Accounts -> Documents \cup {NoAccount}]
    BY StaffTyped DEF OnboardingTypeOK
  <1>2. /\ hiring \in [Forms -> Submissions \cup {NoForm}]
        /\ rephoto \in [PhotoJobs -> (Accounts \X Photos) \cup {NoForm}]
        /\ \A p \in PhotoJobs : rephoto[p] # NoForm => rephoto[p] \in Accounts \X Photos
    BY DEF OnboardingTypeOK
  <1>3. \A a \in Accounts : staff[a] # NoAccount => staff[a] \in Documents
    BY <1>1
  <1>4. ASSUME NEW f \in Forms,
               \/ \E c \in Codes, ph \in Photos : SubmitForm(f, c, ph)
               \/ CheckDuplicate(f) \/ AnswerForm(f)
        PROVE  UpdatesTrue' /\ FaceMatchesPhoto'
    <2>1. UNCHANGED <<staff, rephoto, uneven>>
      BY <1>4 DEF SubmitForm, CheckDuplicate, AnswerForm
    <2>2. ~At(f, "face") /\ \A g \in Forms : g # f => hiring'[g] = hiring[g]
      BY <1>2, <1>4 DEF SubmitForm, CheckDuplicate, AnswerForm, At, Step, HiringFails
    <2> QED
      BY <1>1, <2>1, <2>2, PhotosKept DEF At
  <1>5. ASSUME NEW f \in Forms, NEW a \in Accounts, Insert(f, a)
        PROVE  UpdatesTrue' /\ FaceMatchesPhoto'
    <2>1. ~At(f, "face") /\ \A g \in Forms : g # f => hiring'[g] = hiring[g]
      BY <1>2, <1>5 DEF Insert, At, HiringFails
    <2>2. \A b \in Accounts : staff[b] # NoAccount => staff'[b] = staff[b]
      BY <1>1, <1>5 DEF Insert
    <2>3. \A b \in Accounts : staff[b] = NoAccount /\ staff'[b] # NoAccount => staff'[b].face = "none"
      BY <1>1, <1>5 DEF Insert, NewDocument
    <2> QED
      BY <1>1, <1>5, <2>1, <2>2, <2>3, PhotosKept DEF Insert, At
  <1>6. ASSUME NEW f \in Forms, CreateShift(f) \/ TryIssuePin(f)
        PROVE  UpdatesTrue' /\ FaceMatchesPhoto'
    <2>1. ~At(f, "face") /\ \A g \in Forms : g # f => hiring'[g] = hiring[g]
      BY <1>2, <1>6 DEF CreateShift, TryIssuePin, At, Step, HiringFails
    <2>2. hiring[f].id \in Accounts /\ staff[hiring[f].id] \in Documents
      BY <1>3, <1>6 DEF CreateShift, TryIssuePin, At, SubmissionsTrue, SubmissionTrue, Later
    <2>3. PICK d \in Documents : /\ staff' = [staff EXCEPT ![hiring[f].id] = d] \/ staff' = staff
                                 /\ d.photo = staff[hiring[f].id].photo
                                 /\ d.face = staff[hiring[f].id].face
      <3> DEFINE x == staff[hiring[f].id]
                 d == [x EXCEPT !.shift = TRUE]
                 e == [x EXCEPT !.pin = TRUE]
      <3>1. /\ d \in Documents /\ d.photo = x.photo /\ d.face = x.face
            /\ e \in Documents /\ e.photo = x.photo /\ e.face = x.face
        BY <2>2 DEF Documents
      <3>2. \/ staff' = [staff EXCEPT ![hiring[f].id] = d]
            \/ staff' = [staff EXCEPT ![hiring[f].id] = e]
            \/ staff' = staff
        BY <1>6 DEF CreateShift, TryIssuePin
      <3> QED
        BY <3>1, <3>2
    <2>4. \A b \in Accounts : staff[b] # NoAccount =>
             staff'[b].photo = staff[b].photo /\ staff'[b].face = staff[b].face
      BY <1>1, <2>3
    <2>5. \A b \in Accounts : staff[b] = NoAccount => staff'[b] = NoAccount
      BY <1>1, <2>2, <2>3
    <2> QED
      BY <1>1, <1>6, <2>1, <2>4, <2>5, PhotosKept DEF CreateShift, TryIssuePin, At
  <1>7. ASSUME NEW a \in Accounts, NEW on \in BOOLEAN, NEW reshift \in BOOLEAN,
               Deactivate(a) \/ UpdateEmployee(a, on, reshift)
        PROVE  UpdatesTrue' /\ FaceMatchesPhoto'
    <2>1. staff[a] \in Documents
      BY <1>3, <1>7 DEF Deactivate, UpdateEmployee, Employed
    <2>2. staff'[a].photo = staff[a].photo /\ staff'[a].face = staff[a].face
      BY <1>1, <1>7, <2>1 DEF Deactivate, UpdateEmployee, Documents
    <2>3. \A b \in Accounts : b # a => staff'[b] = staff[b]
      BY <1>1, <1>7 DEF Deactivate, UpdateEmployee
    <2> QED
      BY <1>1, <1>7, <2>1, <2>2, <2>3, PhotosKept DEF Deactivate, UpdateEmployee, At
  <1>8. CASE UNCHANGED onboardingVars
    BY <1>1, <1>8, PhotosKept DEF onboardingVars, At
  <1>9. ASSUME NEW f \in Forms, TryGenerateEmbedding(f)
        PROVE  UpdatesTrue' /\ FaceMatchesPhoto'
    <2> DEFINE a == hiring[f].id
    <2>1. /\ a \in Accounts /\ staff[a] # NoAccount /\ staff[a] \in Documents
          /\ hiring[f] \in Submissions /\ hiring[f].stage = "face"
      BY <1>2, <1>3, <1>9 DEF TryGenerateEmbedding, At, SubmissionsTrue, SubmissionTrue, Later
    <2>2. /\ \A b \in Accounts : b # a => staff'[b] = staff[b]
          /\ staff'[a].photo = staff[a].photo
          /\ uneven \subseteq uneven' /\ UNCHANGED rephoto
          /\ \A g \in Forms : g # f => hiring'[g] = hiring[g]
      BY <1>1, <1>2, <1>9, <2>1 DEF TryGenerateEmbedding, Documents, Step
    <2>3. a \notin uneven' => staff'[a].face = staff'[a].photo
      BY <1>1, <1>9, <2>1 DEF TryGenerateEmbedding, Documents
    <2>4. \A b \in Accounts : b # a /\ Updating(b) => Updating(b)'
      BY <2>2 DEF Updating, At
    <2>5. UpdatesTrue'
      BY <1>1, <1>2, <2>1, <2>2 DEF UpdatesTrue, StaffGrows
    <2>6. FaceMatchesPhoto'
      BY <2>2, <2>3, <2>4 DEF FaceMatchesPhoto, Employed
    <2> QED
      BY <2>5, <2>6
  <1>10. ASSUME NEW p \in PhotoJobs, NEW a \in Accounts, NEW ph \in Photos, SetPhoto(p, a, ph)
         PROVE  UpdatesTrue' /\ FaceMatchesPhoto'
    <2>1. /\ staff[a] \in Documents
          /\ staff'[a].photo = ph /\ \A b \in Accounts : b # a => staff'[b] = staff[b]
      BY <1>1, <1>3, <1>10 DEF SetPhoto, Employed, Documents
    <2>2. /\ rephoto'[p] = <<a, ph>>
          /\ \A q \in PhotoJobs : q # p => rephoto'[q] = rephoto[q]
          /\ UNCHANGED hiring /\ <<a, ph>> # NoForm
          /\ uneven' = IF Updating(a) THEN uneven \cup {a} ELSE uneven
      BY <1>2, <1>10 DEF SetPhoto
    <2>3. Updating(a)'
      <3>1. rephoto'[p] # NoForm /\ rephoto'[p][1] = a
        BY <2>2
      <3> QED
        BY <3>1 DEF Updating
    <2>4. \A b \in Accounts : b # a /\ Updating(b) => Updating(b)'
      BY <1>10, <2>2 DEF Updating, At, SetPhoto
    <2>5. \A q \in PhotoJobs : q # p /\ rephoto[q] # NoForm /\ rephoto[q][1] = a => a \in uneven'
      BY <2>2 DEF Updating
    <2>6. UpdatesTrue'
      BY <1>1, <1>2, <2>1, <2>2, <2>5 DEF UpdatesTrue, StaffGrows
    <2>7. FaceMatchesPhoto'
      BY <2>1, <2>2, <2>3, <2>4 DEF FaceMatchesPhoto, Employed
    <2> QED
      BY <2>6, <2>7
  <1>11. ASSUME NEW p \in PhotoJobs, EmbedPhoto(p)
         PROVE  UpdatesTrue' /\ FaceMatchesPhoto'
    <2> DEFINE a == rephoto[p][1]
    <2>1. /\ a \in Accounts /\ staff[a] # NoAccount /\ staff[a] \in Documents
          /\ a \notin uneven => rephoto[p][2] = staff[a].photo
      BY <1>2, <1>3, <1>11 DEF EmbedPhoto, UpdatesTrue
    <2>2. /\ \A b \in Accounts : b # a => staff'[b] = staff[b]
          /\ staff'[a].photo = staff[a].photo
          /\ uneven \subseteq uneven' /\ UNCHANGED hiring
          /\ rephoto'[p] = NoForm
          /\ \A q \in PhotoJobs : q # p => rephoto'[q] = rephoto[q]
      BY <1>1, <1>2, <1>11, <2>1 DEF EmbedPhoto, Documents
    <2>3. a \notin uneven' => staff'[a].face = staff'[a].photo
      BY <1>1, <1>11, <2>1 DEF EmbedPhoto, Documents
    <2>4. \A b \in Accounts : b # a /\ Updating(b) => Updating(b)'
      BY <2>2 DEF Updating, At
    <2>5. UpdatesTrue'
      BY <1>1, <1>2, <2>1, <2>2 DEF UpdatesTrue, StaffGrows
    <2>6. FaceMatchesPhoto'
      BY <2>2, <2>3, <2>4 DEF FaceMatchesPhoto, Employed
    <2> QED
      BY <2>5, <2>6
  <1> QED
    BY <1>4, <1>5, <1>6, <1>7, <1>8, <1>9, <1>10, <1>11 DEF OnboardingNext

OnboardingInv ==
    /\ OnboardingTypeOK /\ SubmissionsTrue /\ CodesGivenOnce /\ AnswersTrue
    /\ UpdatesTrue /\ FaceMatchesPhoto

\* Nobody employed, nothing submitted.
LEMMA OnboardingStarts == OnboardingInit => OnboardingInv
  BY DEF OnboardingInit, OnboardingInv, OnboardingTypeOK, SubmissionsTrue, CodesGivenOnce,
     AnswersTrue, UpdatesTrue, FaceMatchesPhoto, Employed

\* The invariant is inductive.
LEMMA OnboardingStays == OnboardingInv /\ [OnboardingNext]_onboardingVars => OnboardingInv'
  BY HiringTyped, SubmissionsStayTrue, CodesStayUnique, AnswersStayTrue, PhotosStayTrue
     DEF OnboardingInv

\* A code is given to one account at most, however many submissions race:
\* createEmployee.
THEOREM CodesAreUnique == OnboardingSpec => []OneAccountPerCode
  <1>1. OnboardingInv => OneAccountPerCode
    <2> SUFFICES ASSUME OnboardingInv, NEW c \in Codes PROVE Cardinality(Holders(c)) <= 1
      BY DEF OneAccountPerCode
    <2>1. \A a, b \in Holders(c) : a = b
      BY DEF OnboardingInv, CodesGivenOnce, Holders
    <2>2. CASE Holders(c) = {}
      BY <2>2, FS_EmptySet
    <2>3. CASE \E a : Holders(c) = {a}
      BY <2>3, FS_Singleton
    <2> QED
      BY <2>1, <2>2, <2>3
  <1> QED
    BY OnboardingStarts, OnboardingStays, <1>1, PTL DEF OnboardingSpec

\* The PIN and the face that HR was shown exist and stay, whatever failed or
\* was updated: createEmployee and its form.
THEOREM ReportsAreTrue == OnboardingSpec => []ReportsTrue
  <1>1. OnboardingInv => ReportsTrue
    <2> SUFFICES ASSUME OnboardingInv PROVE ReportsTrue
      OBVIOUS
    <2>1. \A r \in answers : /\ r.pin \in BOOLEAN /\ r.face \in BOOLEAN /\ r.id \in Accounts
                             /\ staff[r.id] \in Documents
      BY DEF OnboardingInv, OnboardingTypeOK, AnswersTrue
    <2> QED
      BY <2>1 DEF OnboardingInv, AnswersTrue, ReportsTrue, Documents
  <1> QED
    BY OnboardingStarts, OnboardingStays, <1>1, PTL DEF OnboardingSpec

\* Unless its updates overlapped or failed, an account is compared with the
\* face of its reference photo: updateEmployeePhoto.
THEOREM FacesMatch == OnboardingSpec => []FaceMatchesPhoto
  <1>1. OnboardingInv => FaceMatchesPhoto
    BY DEF OnboardingInv
  <1> QED
    BY OnboardingStarts, OnboardingStays, <1>1, PTL DEF OnboardingSpec

\* All three, for any number of accounts, forms and photo updates:
\* employeeService.ts with employee-form.tsx.
THEOREM AccountsAreSound == OnboardingSpec => []AccountsSound
  <1>1. OneAccountPerCode /\ ReportsTrue /\ FaceMatchesPhoto => AccountsSound
    BY DEF AccountsSound
  <1> QED
    BY CodesAreUnique, ReportsAreTrue, FacesMatch, <1>1, PTL

-----------------------------------------------------------------------------
\* The values of a record somebody confirmed on the map and typed.
Human(f) == f.pin \in confirmed /\ f.address \in typed

\* A geofence has its office, whose document is never removed.
HasOffice(g) == g \in Fences /\ addressOf[g] # NoFence

\* A form keeps the address of an existing office human, and its position once
\* that is confirmed.
DraftHuman(d) ==
    d # NoFence => /\ d.of # "new" => d.fields.address \in typed
                   /\ d.verified = TRUE => d.fields.pin \in confirmed

\* A save captured human values; one that creates has its office first.
RequestHuman(r) ==
    r # NoFence => /\ r.does # "delete" => Human(r.fields)
                   /\ r.does = "create" /\ r.stage = "office" => HasOffice(r.of)

\* What a tab is fetching, and what it has cached, was once stored.
ListsHuman ==
    /\ \A e \in Editors, g \in Fences :
          listing[e] # NoFence /\ listing[e][g] # NoFence =>
              listing[e][g] \in confirmed /\ HasOffice(g)
    /\ \A e \in Editors, g \in Fences : listed[e][g] # NoFence => Human(listed[e][g])

DocumentsHuman ==
    EditsAreHuman /\ \A g \in Fences : pinOf[g] # NoFence => HasOffice(g)

OfficesInv ==
    /\ OfficesTypeOK
    /\ DocumentsHuman
    /\ ListsHuman
    /\ \A e \in Editors : DraftHuman(drafts[e])
    /\ \A i \in 1..MaxSaves : RequestHuman(posted[i])

\* Offices saved earlier, nothing cached, no form, no request.
LEMMA OfficesStart == OfficesInit => OfficesInv
  <1> SUFFICES ASSUME OfficesInit PROVE OfficesInv
    OBVIOUS
  <1> USE OfficesAssumption
  <1>1. /\ pinOf \in [Fences -> (Pins \ Reversed) \cup {NoFence}]
        /\ addressOf \in [Fences -> Addresses \cup {NoFence}]
        /\ \A g \in Fences : pinOf[g] = NoFence <=> addressOf[g] = NoFence
        /\ confirmed = {pinOf[g] : g \in Fences} \ {NoFence}
        /\ typed = {addressOf[g] : g \in Fences} \ {NoFence}
    BY DEF OfficesInit
  <1>2. /\ listing = [e \in Editors |-> NoFence]
        /\ listed = [e \in Editors |-> [g \in Fences |-> NoFence]]
        /\ drafts = [e \in Editors |-> NoFence]
        /\ posted = [i \in 1..MaxSaves |-> NoFence]
        /\ saves = 0
    BY DEF OfficesInit
  <1>3. confirmed \subseteq Pins /\ typed \subseteq Addresses
    BY <1>1
  <1>4. OfficesTypeOK
    <2>1. pinOf \in PinLists
      BY <1>1 DEF PinLists
    <2>2. [g \in Fences |-> NoFence] \in Lists
      BY DEF Lists
    <2> QED
      BY <1>1, <1>2, <1>3, <2>1, <2>2 DEF OfficesTypeOK
  <1>5. DocumentsHuman
    BY <1>1 DEF DocumentsHuman, EditsAreHuman, HasOffice
  <1>6. ListsHuman
    BY <1>2 DEF ListsHuman
  <1>7. \A e \in Editors : DraftHuman(drafts[e])
    BY <1>2 DEF DraftHuman
  <1>8. \A i \in 1..MaxSaves : RequestHuman(posted[i])
    BY <1>2 DEF RequestHuman
  <1> QED
    BY <1>4, <1>5, <1>6, <1>7, <1>8 DEF OfficesInv

\* A step of a tab: its form changes, a request may leave or be answered, and
\* what was confirmed and typed stays so.
LEMMA OneForm ==
    ASSUME OfficesInv, NEW e \in Editors,
           NEW d \in Drafts \cup {NoFence}, drafts' = [drafts EXCEPT ![e] = d],
           DraftHuman(d)',
           posted' \in [1..MaxSaves -> FenceRequests \cup {NoFence}],
           \A i \in 1..MaxSaves : posted'[i] # posted[i] => RequestHuman(posted[i])',
           confirmed \subseteq confirmed' /\ confirmed' \subseteq Pins,
           typed \subseteq typed' /\ typed' \subseteq Addresses,
           UNCHANGED <<documents, lists>>, saves' \in 0..MaxSaves
    PROVE  OfficesInv'
  <1>1. /\ drafts \in [Editors -> Drafts \cup {NoFence}]
        /\ pinOf' = pinOf /\ addressOf' = addressOf
        /\ listing' = listing /\ listed' = listed
    BY DEF OfficesInv, OfficesTypeOK, documents, lists
  <1>2. drafts'[e] = d /\ \A t \in Editors : t # e => drafts'[t] = drafts[t]
    BY <1>1
  <1>3. \A t \in Editors : DraftHuman(drafts[t])'
    BY <1>2 DEF DraftHuman, OfficesInv
  <1>4. DocumentsHuman'
    BY <1>1 DEF DocumentsHuman, EditsAreHuman, HasOffice, OfficesInv
  <1>5. ListsHuman'
    BY <1>1 DEF ListsHuman, Human, HasOffice, OfficesInv
  <1>6. \A i \in 1..MaxSaves : RequestHuman(posted[i])'
    <2> SUFFICES ASSUME NEW i \in 1..MaxSaves, posted'[i] = posted[i]
                 PROVE  RequestHuman(posted[i])'
      OBVIOUS
    <2> QED
      BY <1>1 DEF RequestHuman, Human, HasOffice, OfficesInv
  <1>7. OfficesTypeOK'
    BY <1>1 DEF OfficesTypeOK, OfficesInv
  <1> QED
    BY <1>3, <1>4, <1>5, <1>6, <1>7 DEF OfficesInv

\* A step of the backend: one request moves on, and writes what it captured.
LEMMA OneRequest ==
    ASSUME OfficesInv, NEW i \in 1..MaxSaves,
           NEW r \in FenceRequests \cup {NoFence}, posted' = [posted EXCEPT ![i] = r],
           RequestHuman(r)',
           pinOf' \in PinLists, addressOf' \in [Fences -> Addresses \cup {NoFence}],
           DocumentsHuman',
           \A g \in Fences : addressOf[g] # NoFence => addressOf'[g] # NoFence,
           UNCHANGED <<lists, drafts, saves, confirmed, typed>>
    PROVE  OfficesInv'
  <1>1. /\ posted \in [1..MaxSaves -> FenceRequests \cup {NoFence}]
        /\ listing' = listing /\ listed' = listed
    BY DEF OfficesInv, OfficesTypeOK, lists
  <1>2. posted'[i] = r /\ \A j \in 1..MaxSaves : j # i => posted'[j] = posted[j]
    BY <1>1
  <1>3. \A j \in 1..MaxSaves : RequestHuman(posted[j])'
    <2> SUFFICES ASSUME NEW j \in 1..MaxSaves, j # i PROVE RequestHuman(posted[j])'
      BY <1>2
    <2>1. RequestHuman(posted[j]) /\ posted'[j] = posted[j]
      BY <1>2 DEF OfficesInv
    <2> QED
      BY <2>1 DEF RequestHuman, Human, HasOffice
  <1>4. ListsHuman'
    BY <1>1 DEF ListsHuman, Human, HasOffice, OfficesInv
  <1>5. \A e \in Editors : DraftHuman(drafts[e])'
    BY DEF DraftHuman, OfficesInv
  <1>6. OfficesTypeOK'
    BY <1>1 DEF OfficesTypeOK, OfficesInv
  <1> QED
    BY <1>3, <1>4, <1>5, <1>6 DEF OfficesInv

\* A fetched list was stored when it was read.
LEMMA ListStep ==
    ASSUME OfficesInv, NEW e \in Editors, ReadFences(e) \/ FetchFences(e)
    PROVE  OfficesInv'
  <1> USE OfficesAssumption
  <1>1. /\ pinOf \in PinLists /\ addressOf \in [Fences -> Addresses \cup {NoFence}]
        /\ listing \in [Editors -> PinLists \cup {NoFence}]
        /\ listed \in [Editors -> Lists] /\ drafts \in [Editors -> Drafts \cup {NoFence}]
        /\ posted \in [1..MaxSaves -> FenceRequests \cup {NoFence}]
        /\ saves \in 0..MaxSaves /\ confirmed \subseteq Pins /\ typed \subseteq Addresses
    BY DEF OfficesInv, OfficesTypeOK
  <1>2. UNCHANGED <<pinOf, addressOf, posted, saves, confirmed, typed>>
    BY DEF ReadFences, FetchFences, documents
  <1>3. DocumentsHuman' /\ \A i \in 1..MaxSaves : RequestHuman(posted[i])'
    <2>1. DocumentsHuman'
      BY <1>2 DEF OfficesInv, DocumentsHuman, EditsAreHuman, HasOffice
    <2>2. \A i \in 1..MaxSaves : RequestHuman(posted[i])'
      BY <1>2 DEF OfficesInv, RequestHuman, Human, HasOffice
    <2> QED
      BY <2>1, <2>2
  <1>4. CASE ReadFences(e)
    <2>1. /\ listing' = [listing EXCEPT ![e] = pinOf]
          /\ listed' = listed /\ drafts' = drafts
      BY <1>4 DEF ReadFences
    <2>2. listing'[e] = pinOf /\ \A t \in Editors : t # e => listing'[t] = listing[t]
      BY <1>1, <2>1
    <2>3. ListsHuman'
      BY <1>2, <2>1, <2>2 DEF OfficesInv, ListsHuman, Human, HasOffice, DocumentsHuman, EditsAreHuman
    <2>4. \A t \in Editors : DraftHuman(drafts[t])'
      BY <1>2, <2>1 DEF OfficesInv, DraftHuman
    <2>5. OfficesTypeOK'
      BY <1>1, <1>2, <2>1 DEF OfficesTypeOK
    <2> QED
      BY <1>3, <2>3, <2>4, <2>5 DEF OfficesInv
  <1>5. CASE FetchFences(e)
    <2> DEFINE read == [g \in Fences |-> IF listing[e][g] = NoFence THEN NoFence
                                         ELSE [pin |-> listing[e][g], address |-> addressOf[g]]]
               d == drafts[e]
    <2>1. /\ listing[e] # NoFence
          /\ listing' = [listing EXCEPT ![e] = NoFence]
          /\ listed' = [listed EXCEPT ![e] = read]
      BY <1>5 DEF FetchFences
    <2>2. ASSUME NEW g \in Fences, listing[e][g] # NoFence
          PROVE  read[g] \in Fields /\ Human(read[g])
      <3>1. listing[e][g] \in confirmed /\ addressOf[g] # NoFence
        BY <2>1, <2>2 DEF OfficesInv, ListsHuman, HasOffice
      <3>2. addressOf[g] \in typed /\ addressOf[g] \in Addresses
        BY <1>1, <3>1 DEF OfficesInv, DocumentsHuman, EditsAreHuman
      <3>3. read[g] = [pin |-> listing[e][g], address |-> addressOf[g]]
        BY <2>2
      <3> HIDE DEF read
      <3> QED
        BY <1>1, <3>1, <3>2, <3>3 DEF Human, Fields
    <2>3. \A g \in Fences : read[g] # NoFence => read[g] \in Fields /\ Human(read[g])
      BY <2>2
    <2>4. read \in Lists
      BY <2>2 DEF Lists
    <2> HIDE DEF read
    <2>5. ListsHuman' /\ listed' \in [Editors -> Lists]
                      /\ listing' \in [Editors -> PinLists \cup {NoFence}]
      <3>1. /\ listed'[e] = read /\ listing'[e] = NoFence
            /\ \A t \in Editors : t # e => listed'[t] = listed[t] /\ listing'[t] = listing[t]
        BY <1>1, <2>1
      <3>2. ListsHuman'
        BY <1>2, <2>3, <3>1 DEF OfficesInv, ListsHuman, Human, HasOffice
      <3> QED
        BY <1>1, <2>1, <2>4, <3>2
    <2>6. ASSUME NEW x \in Drafts \cup {NoFence}, drafts' = [drafts EXCEPT ![e] = x],
                 x # NoFence => Human(x.fields)
          PROVE  OfficesInv'
      <3>1. drafts'[e] = x /\ \A t \in Editors : t # e => drafts'[t] = drafts[t]
        BY <1>1, <2>6
      <3>2. \A t \in Editors : DraftHuman(drafts[t])'
        BY <1>2, <2>6, <3>1 DEF OfficesInv, DraftHuman, Human
      <3>3. OfficesTypeOK'
        BY <1>1, <1>2, <2>5, <2>6 DEF OfficesTypeOK
      <3> QED
        BY <1>3, <2>5, <3>2, <3>3 DEF OfficesInv
    <2>7. CASE UNCHANGED drafts
      <3>1. \A t \in Editors : DraftHuman(drafts[t])'
        BY <1>2, <2>7 DEF OfficesInv, DraftHuman
      <3>2. OfficesTypeOK'
        BY <1>1, <1>2, <2>5, <2>7 DEF OfficesTypeOK
      <3> QED
        BY <1>3, <2>5, <3>1, <3>2 DEF OfficesInv
    <2>8. CASE d # NoFence /\ d.of # "new" /\ listed[e][d.of] # read[d.of]
      <3>1. d \in Drafts /\ d.of \in Fences
        BY <1>1, <2>8 DEF Drafts
      <3>2. CASE read[d.of] = NoFence
        <4>1. drafts' = [drafts EXCEPT ![e] = NoFence]
          BY <1>5, <2>8, <3>2 DEF FetchFences, read
        <4> QED
          BY <2>6, <4>1
      <3>3. CASE read[d.of] # NoFence
        <4>0. PICK x : x = [DraftOf(d.of, read[d.of]) EXCEPT !.save = d.save, !.remove = d.remove]
          OBVIOUS
        <4>1. drafts' = [drafts EXCEPT ![e] = x]
          BY <4>0, <1>5, <2>8, <3>3 DEF FetchFences, read
        <4>2. read[d.of] \in Fields /\ Human(read[d.of])
          BY <4>0, <2>3, <3>1, <3>3
        <4>3. x \in Drafts /\ x.fields = read[d.of]
          BY <4>0, <3>1, <4>2 DEF DraftOf, Drafts
        <4> QED
          BY <2>6, <4>1, <4>2, <4>3
      <3> QED
        BY <3>2, <3>3
    <2>9. CASE ~(d # NoFence /\ d.of # "new" /\ listed[e][d.of] # read[d.of])
      BY <1>5, <2>7, <2>9 DEF FetchFences, read
    <2> QED
      BY <2>8, <2>9
  <1> QED
    BY <1>4, <1>5

\* The form is opened, edited, confirmed or closed; no request moves.
LEMMA EditStep ==
    ASSUME OfficesInv, NEW e \in Editors,
           \/ ConfirmPin(e) \/ UntickPin(e) \/ CancelForm(e)
           \/ \E g \in Fences : OpenFence(e, g)
           \/ \E p \in Pins : OpenNew(e, p) \/ MovePin(e, p)
           \/ \E x \in Addresses : TypeAddress(e, x)
    PROVE  OfficesInv'
  <1> USE OfficesAssumption
  <1>1. /\ listed \in [Editors -> Lists] /\ drafts \in [Editors -> Drafts \cup {NoFence}]
        /\ posted \in [1..MaxSaves -> FenceRequests \cup {NoFence}]
        /\ saves \in 0..MaxSaves /\ confirmed \subseteq Pins /\ typed \subseteq Addresses
        /\ DraftHuman(drafts[e])
    BY DEF OfficesInv, OfficesTypeOK
  <1>2. UNCHANGED <<documents, lists, posted, saves>>
    BY DEF ConfirmPin, UntickPin, CancelForm, OpenFence, OpenNew, MovePin, TypeAddress
  <1>3. ASSUME NEW d \in Drafts \cup {NoFence}, drafts' = [drafts EXCEPT ![e] = d], DraftHuman(d)',
               confirmed \subseteq confirmed' /\ confirmed' \subseteq Pins,
               typed \subseteq typed' /\ typed' \subseteq Addresses
        PROVE  OfficesInv'
    BY <1>1, <1>2, <1>3, OneForm
  <1>4. CASE CancelForm(e)
    <2>1. drafts' = [drafts EXCEPT ![e] = NoFence] /\ confirmed' = confirmed /\ typed' = typed
      BY <1>4 DEF CancelForm
    <2>2. DraftHuman(NoFence)'
      BY DEF DraftHuman
    <2> QED
      BY <1>1, <1>3, <2>1, <2>2
  <1>5. ASSUME NEW g \in Fences, OpenFence(e, g) PROVE OfficesInv'
    <2>0. PICK d : d = DraftOf(g, listed[e][g])
      OBVIOUS
    <2>1. /\ drafts' = [drafts EXCEPT ![e] = d] /\ confirmed' = confirmed /\ typed' = typed
          /\ listed[e][g] # NoFence
      BY <2>0, <1>5 DEF OpenFence
    <2>2. listed[e][g] \in Fields /\ Human(listed[e][g])
      BY <2>0, <1>1, <2>1 DEF OfficesInv, ListsHuman, Lists
    <2>3. d \in Drafts /\ d.fields = listed[e][g]
      BY <2>0, <2>2 DEF DraftOf, Drafts
    <2>4. DraftHuman(d)'
      BY <2>1, <2>2, <2>3 DEF DraftHuman, Human
    <2> QED
      BY <1>1, <1>3, <2>1, <2>3, <2>4
  <1>6. ASSUME NEW p \in Pins, OpenNew(e, p) PROVE OfficesInv'
    <2>0. PICK d : d = [of |-> "new", fields |-> [pin |-> p, address |-> ""],
                        verified |-> FALSE, save |-> 0, remove |-> 0]
      OBVIOUS
    <2>1. drafts' = [drafts EXCEPT ![e] = d] /\ confirmed' = confirmed /\ typed' = typed
      BY <2>0, <1>6 DEF OpenNew
    <2>2. d \in Drafts /\ d.of = "new" /\ d.verified = FALSE
      <3>1. 0 \in 0..MaxSaves
        OBVIOUS
      <3>2. PICK x \in Addresses : x = ""
        BY EmptyAddressAssumption
      <3>3. [pin |-> p, address |-> ""] \in Fields
        BY <1>6, <3>2 DEF Fields
      <3> QED
        BY <2>0, <3>1, <3>3 DEF Drafts
    <2>3. DraftHuman(d)'
      BY <2>2 DEF DraftHuman
    <2> QED
      BY <1>1, <1>3, <2>1, <2>2, <2>3
  <1>7. CASE ConfirmPin(e) \/ UntickPin(e) \/ (\E p \in Pins : MovePin(e, p))
             \/ (\E x \in Addresses : TypeAddress(e, x))
    <2>1. drafts[e] \in Drafts /\ drafts[e] # NoFence
      BY <1>1, <1>7 DEF ConfirmPin, UntickPin, MovePin, TypeAddress
    <2>2. CASE ConfirmPin(e)
      <3>0. PICK d : d = [drafts[e] EXCEPT !.verified = TRUE]
        OBVIOUS
      <3>1. /\ drafts' = [drafts EXCEPT ![e] = d] /\ typed' = typed
            /\ confirmed' = confirmed \cup {drafts[e].fields.pin}
        BY <3>0, <2>2 DEF ConfirmPin
      <3>2. /\ d \in Drafts /\ d.of = drafts[e].of /\ d.fields = drafts[e].fields
            /\ drafts[e].fields.pin \in Pins
        BY <3>0, <2>1 DEF Drafts, Fields
      <3>3. DraftHuman(d)'
        BY <1>1, <2>1, <3>1, <3>2 DEF DraftHuman
      <3> QED
        BY <1>1, <1>3, <3>1, <3>2, <3>3
    <2>3. CASE UntickPin(e)
      <3>0. PICK d : d = [drafts[e] EXCEPT !.verified = FALSE]
        OBVIOUS
      <3>1. drafts' = [drafts EXCEPT ![e] = d] /\ typed' = typed /\ confirmed' = confirmed
        BY <3>0, <2>3 DEF UntickPin
      <3>2. d \in Drafts /\ d.of = drafts[e].of /\ d.fields = drafts[e].fields /\ d.verified = FALSE
        BY <3>0, <2>1 DEF Drafts
      <3>3. DraftHuman(d)'
        BY <1>1, <2>1, <3>1, <3>2 DEF DraftHuman
      <3> QED
        BY <1>1, <1>3, <3>1, <3>2, <3>3
    <2>4. ASSUME NEW p \in Pins, MovePin(e, p) PROVE OfficesInv'
      <3>0. PICK d : d = [[drafts[e] EXCEPT !.fields = [drafts[e].fields EXCEPT !.pin = p]]
                             EXCEPT !.verified = FALSE]
        OBVIOUS
      <3>1. drafts' = [drafts EXCEPT ![e] = d] /\ typed' = typed /\ confirmed' = confirmed
        BY <3>0, <1>1, <2>4 DEF MovePin
      <3>2. /\ d \in Drafts /\ d.of = drafts[e].of /\ d.verified = FALSE
            /\ d.fields.address = drafts[e].fields.address
        BY <3>0, <2>1 DEF Drafts, Fields
      <3>3. DraftHuman(d)'
        BY <1>1, <2>1, <3>1, <3>2 DEF DraftHuman
      <3> QED
        BY <1>1, <1>3, <3>1, <3>2, <3>3
    <2>5. ASSUME NEW x \in Addresses, TypeAddress(e, x) PROVE OfficesInv'
      <3>0. PICK d : d = [drafts[e] EXCEPT !.fields = [drafts[e].fields EXCEPT !.address = x]]
        OBVIOUS
      <3>1. drafts' = [drafts EXCEPT ![e] = d] /\ typed' = typed \cup {x} /\ confirmed' = confirmed
        BY <3>0, <1>1, <2>5 DEF TypeAddress
      <3>2. /\ d \in Drafts /\ d.of = drafts[e].of /\ d.verified = drafts[e].verified
            /\ d.fields.address = x /\ d.fields.pin = drafts[e].fields.pin
        BY <3>0, <2>1 DEF Drafts, Fields
      <3>3. DraftHuman(d)'
        BY <1>1, <2>1, <3>1, <3>2 DEF DraftHuman
      <3> QED
        BY <1>1, <1>3, <3>1, <3>2, <3>3
    <2> QED
      BY <1>7, <2>2, <2>3, <2>4, <2>5
  <1> QED
    BY <1>4, <1>5, <1>6, <1>7

\* A save leaves with what a verified form holds; its answer closes a form or
\* ends its waiting.
LEMMA SaveStep ==
    ASSUME OfficesInv,
           \/ \E e \in Editors : SubmitFence(e) \/ RemoveFence(e)
           \/ \E i \in 1..MaxSaves : Saved(i) \/ SaveFails(i)
    PROVE  OfficesInv'
  <1> USE OfficesAssumption
  <1>1. /\ drafts \in [Editors -> Drafts \cup {NoFence}]
        /\ posted \in [1..MaxSaves -> FenceRequests \cup {NoFence}]
        /\ saves \in 0..MaxSaves /\ confirmed \subseteq Pins /\ typed \subseteq Addresses
        /\ \A e \in Editors : DraftHuman(drafts[e])
        /\ \A i \in 1..MaxSaves : RequestHuman(posted[i])
    BY DEF OfficesInv, OfficesTypeOK
  <1>2. ASSUME NEW e \in Editors, SubmitFence(e) PROVE OfficesInv'
    <2> DEFINE what == IF drafts[e].of = "new" THEN "create" ELSE "update"
    <2>0. PICK r : r = [does |-> what, of |-> drafts[e].of, fields |-> drafts[e].fields,
                        tab |-> e, stage |-> "sent", awaited |-> TRUE]
      OBVIOUS
    <2>00. PICK d : d = [drafts[e] EXCEPT !.save = saves + 1]
      OBVIOUS
    <2>1. /\ drafts[e] # NoFence /\ drafts[e].verified
          /\ saves < MaxSaves /\ saves' = saves + 1
          /\ posted' = [posted EXCEPT ![saves + 1] = r]
          /\ drafts' = [drafts EXCEPT ![e] = d]
          /\ typed' = IF drafts[e].of = "new" THEN typed \cup {drafts[e].fields.address} ELSE typed
          /\ UNCHANGED <<documents, lists, confirmed>>
      BY <2>0, <2>00, <1>2 DEF SubmitFence, SendSave
    <2>2. /\ drafts[e] \in Drafts /\ drafts[e].verified = TRUE
          /\ drafts[e].fields \in Fields /\ drafts[e].fields.address \in Addresses
          /\ saves + 1 \in 1..MaxSaves /\ saves' \in 0..MaxSaves
      BY <2>0, <2>00, <1>1, <2>1 DEF Drafts, Fields
    <2>3. /\ d \in Drafts /\ d.of = drafts[e].of /\ d.fields = drafts[e].fields
          /\ d.verified = drafts[e].verified
      BY <2>0, <2>00, <2>2 DEF Drafts
    <2>4. r \in FenceRequests /\ r.fields = drafts[e].fields /\ r.stage = "sent"
      BY <2>0, <2>00, <2>2 DEF FenceRequests, Drafts
    <2>5. typed \subseteq typed' /\ typed' \subseteq Addresses
      BY <1>1, <2>1, <2>2
    <2>6. drafts[e].fields.address \in typed' /\ drafts[e].fields.pin \in confirmed'
      BY <1>1, <2>1, <2>2 DEF DraftHuman
    <2>7. DraftHuman(d)'
      BY <2>3, <2>6 DEF DraftHuman
    <2>8. /\ posted' \in [1..MaxSaves -> FenceRequests \cup {NoFence}]
          /\ \A i \in 1..MaxSaves : posted'[i] # posted[i] => posted'[i] = r
      BY <1>1, <2>1, <2>2, <2>4
    <2>9. \A i \in 1..MaxSaves : posted'[i] # posted[i] => RequestHuman(posted[i])'
      BY <2>4, <2>6, <2>8 DEF RequestHuman, Human
    <2> QED
      BY <1>1, <2>1, <2>2, <2>3, <2>5, <2>7, <2>8, <2>9, OneForm
  <1>3. ASSUME NEW e \in Editors, RemoveFence(e) PROVE OfficesInv'
    <2>0. PICK r : r = [does |-> "delete", of |-> drafts[e].of, fields |-> drafts[e].fields,
                        tab |-> e, stage |-> "sent", awaited |-> TRUE]
      OBVIOUS
    <2>00. PICK d : d = [drafts[e] EXCEPT !.remove = saves + 1]
      OBVIOUS
    <2>1. /\ drafts[e] # NoFence
          /\ saves < MaxSaves /\ saves' = saves + 1
          /\ posted' = [posted EXCEPT ![saves + 1] = r]
          /\ drafts' = [drafts EXCEPT ![e] = d]
          /\ UNCHANGED <<documents, lists, confirmed, typed>>
      BY <2>0, <2>00, <1>3 DEF RemoveFence, SendSave
    <2>2. drafts[e] \in Drafts /\ saves + 1 \in 1..MaxSaves /\ saves' \in 0..MaxSaves
      BY <2>0, <2>00, <1>1, <2>1
    <2>3. /\ d \in Drafts /\ d.of = drafts[e].of /\ d.fields = drafts[e].fields
          /\ d.verified = drafts[e].verified
      BY <2>0, <2>00, <2>2 DEF Drafts
    <2>4. r \in FenceRequests /\ r.does = "delete"
      BY <2>0, <2>00, <2>2 DEF FenceRequests, Drafts
    <2>7. DraftHuman(d)'
      BY <1>1, <2>1, <2>3 DEF DraftHuman
    <2>8. /\ posted' \in [1..MaxSaves -> FenceRequests \cup {NoFence}]
          /\ \A i \in 1..MaxSaves : posted'[i] # posted[i] => posted'[i] = r
      BY <1>1, <2>1, <2>2, <2>4
    <2>9. \A i \in 1..MaxSaves : posted'[i] # posted[i] => RequestHuman(posted[i])'
      BY <2>4, <2>8 DEF RequestHuman
    <2> QED
      BY <1>1, <2>1, <2>2, <2>3, <2>7, <2>8, <2>9, OneForm
  <1>4. ASSUME NEW i \in 1..MaxSaves, Saved(i) PROVE OfficesInv'
    <2> DEFINE e == posted[i].tab
    <2>1. /\ posted[i] # NoFence
          /\ posted' = [posted EXCEPT ![i] = NoFence]
          /\ drafts' = [drafts EXCEPT ![e] = NoFence]
          /\ UNCHANGED <<documents, lists, saves, confirmed, typed>>
      BY <1>4 DEF Saved
    <2>2. e \in Editors
      BY <1>1, <2>1 DEF FenceRequests
    <2>3. DraftHuman(NoFence)'
      BY DEF DraftHuman
    <2>4. /\ posted' \in [1..MaxSaves -> FenceRequests \cup {NoFence}]
          /\ \A j \in 1..MaxSaves : posted'[j] # posted[j] => posted'[j] = NoFence
      BY <1>1, <2>1
    <2>5. \A j \in 1..MaxSaves : posted'[j] # posted[j] => RequestHuman(posted[j])'
      BY <2>4 DEF RequestHuman
    <2> QED
      BY <1>1, <2>1, <2>2, <2>3, <2>4, <2>5, OneForm
  <1>5. ASSUME NEW i \in 1..MaxSaves, SaveFails(i) PROVE OfficesInv'
    <2> DEFINE e == posted[i].tab
               d == drafts[e]
    <2>0. PICK r : r = IF posted[i].stage = "done" THEN NoFence
                       ELSE [posted[i] EXCEPT !.awaited = FALSE]
      OBVIOUS
    <2>00. PICK x : x = IF d = NoFence THEN NoFence
                        ELSE [d EXCEPT !.save = IF d.save = i THEN 0 ELSE d.save,
                                       !.remove = IF d.remove = i THEN 0 ELSE d.remove]
      OBVIOUS
    <2>1. posted[i] \in FenceRequests /\ e \in Editors
      BY <2>0, <2>00, <1>1, <1>5 DEF SaveFails, FenceRequests
    <2>2. /\ posted' = [posted EXCEPT ![i] = r]
          /\ UNCHANGED <<documents, lists, saves, confirmed, typed>>
      BY <2>0, <2>00, <1>5 DEF SaveFails
    <2>3. drafts' = [drafts EXCEPT ![e] = x]
      <3>1. CASE d = NoFence
        BY <2>0, <2>00, <1>1, <1>5, <2>1, <3>1 DEF SaveFails
      <3>2. CASE d # NoFence
        BY <2>0, <2>00, <1>5, <3>2 DEF SaveFails
      <3> QED
        BY <2>0, <2>00, <3>1, <3>2
    <2>4. /\ x \in Drafts \cup {NoFence}
          /\ x # NoFence => d # NoFence /\ x.of = d.of /\ x.fields = d.fields
                            /\ x.verified = d.verified
      <3>1. CASE d = NoFence
        BY <2>00, <3>1
      <3>2. CASE d # NoFence
        <4>1. PICK m : m = IF d.save = i THEN 0 ELSE d.save
          OBVIOUS
        <4>2. PICK n : n = IF d.remove = i THEN 0 ELSE d.remove
          OBVIOUS
        <4>3. d \in Drafts
          BY <1>1, <2>1, <3>2
        <4>4. m \in 0..MaxSaves /\ n \in 0..MaxSaves
          BY <4>1, <4>2, <4>3 DEF Drafts
        <4>5. x = [d EXCEPT !.save = m, !.remove = n]
          BY <2>00, <3>2, <4>1, <4>2
        <4> QED
          BY <3>2, <4>3, <4>4, <4>5 DEF Drafts
      <3> QED
        BY <3>1, <3>2
    <2>5. /\ r \in FenceRequests \cup {NoFence}
          /\ r # NoFence => /\ r.does = posted[i].does /\ r.of = posted[i].of
                            /\ r.fields = posted[i].fields /\ r.stage = posted[i].stage
      BY <2>0, <2>00, <2>1 DEF FenceRequests
    <2>6. DraftHuman(x)'
      <3>1. DraftHuman(d)
        BY <2>0, <2>00, <1>1, <2>1
      <3> QED
        BY <2>0, <2>00, <2>2, <2>4, <3>1 DEF DraftHuman
    <2>7. RequestHuman(r)'
      <3>1. RequestHuman(posted[i]) /\ posted[i] # NoFence
        BY <1>1, <1>5 DEF SaveFails
      <3> QED
        BY <2>2, <2>5, <3>1 DEF RequestHuman, Human, HasOffice, documents
    <2>8. /\ posted' \in [1..MaxSaves -> FenceRequests \cup {NoFence}]
          /\ \A j \in 1..MaxSaves : posted'[j] # posted[j] => posted'[j] = r
      BY <1>1, <2>2, <2>5
    <2>9. \A j \in 1..MaxSaves : posted'[j] # posted[j] => RequestHuman(posted[j])'
      BY <2>7, <2>8 DEF RequestHuman, Human, HasOffice
    <2> QED
      BY <1>1, <2>1, <2>2, <2>3, <2>4, <2>6, <2>8, <2>9, OneForm
  <1> QED
    BY <1>2, <1>3, <1>4, <1>5

\* The backend writes what a request captured.
LEMMA WriteStep ==
    ASSUME OfficesInv, NEW i \in 1..MaxSaves,
           \/ CreateFence(i) \/ UpdateOffice(i) \/ UpdateFence(i) \/ DeleteFence(i)
           \/ \E g \in Fences : CreateOffice(i, g)
    PROVE  OfficesInv'
  <1> USE OfficesAssumption
  <1>1. /\ pinOf \in PinLists /\ addressOf \in [Fences -> Addresses \cup {NoFence}]
        /\ posted \in [1..MaxSaves -> FenceRequests \cup {NoFence}]
        /\ RequestHuman(posted[i])
        /\ EditsAreHuman /\ \A g \in Fences : pinOf[g] # NoFence => HasOffice(g)
    BY DEF OfficesInv, OfficesTypeOK, DocumentsHuman
  <1>2. UNCHANGED <<lists, drafts, saves, confirmed, typed>>
    BY DEF CreateFence, UpdateOffice, UpdateFence, DeleteFence, CreateOffice
  <1>3. /\ posted[i] # NoFence /\ posted[i] \in FenceRequests
        /\ posted[i].fields.pin \in Pins /\ posted[i].fields.address \in Addresses
        /\ posted[i].does # "delete" => Human(posted[i].fields)
    BY <1>1 DEF CreateFence, UpdateOffice, UpdateFence, DeleteFence, CreateOffice, Handling,
                RequestHuman, FenceRequests, Fields
  <1> DEFINE w == posted[i]
             f == posted[i].fields
  <1>4. ASSUME NEW r \in FenceRequests \cup {NoFence}, posted' = [posted EXCEPT ![i] = r],
               r # NoFence => r.does = w.does /\ r.fields = f,
               r # NoFence /\ r.does = "create" /\ r.stage = "office" => HasOffice(r.of)',
               pinOf' \in PinLists, addressOf' \in [Fences -> Addresses \cup {NoFence}],
               \A g \in Fences : /\ pinOf'[g] \in {pinOf[g], NoFence} \cup confirmed
                                 /\ addressOf'[g] = addressOf[g] \/ addressOf'[g] \in typed
                                 /\ pinOf'[g] # NoFence => addressOf'[g] # NoFence
                                 /\ addressOf[g] # NoFence => addressOf'[g] # NoFence
        PROVE  OfficesInv'
    <2>1. DocumentsHuman'
      BY <1>1, <1>2, <1>4 DEF DocumentsHuman, EditsAreHuman, HasOffice
    <2>2. RequestHuman(r)'
      BY <1>2, <1>3, <1>4 DEF RequestHuman, Human
    <2> QED
      BY <1>2, <1>4, <2>1, <2>2, OneRequest
  \* A request that is done has nothing left to write.
  <1>5. ASSUME Done(i), w.does # "create" \/ w.stage = "office"
        PROVE  \E r \in FenceRequests \cup {NoFence} :
                  /\ posted' = [posted EXCEPT ![i] = r]
                  /\ r # NoFence => r.does = w.does /\ r.fields = f /\ r.stage = "done"
    <2> DEFINE r == IF w.awaited THEN [w EXCEPT !.stage = "done"] ELSE NoFence
    <2>1. r \in FenceRequests \cup {NoFence}
      BY <1>3 DEF FenceRequests
    <2>2. r # NoFence => r.does = w.does /\ r.fields = f /\ r.stage = "done"
      BY <1>3 DEF FenceRequests
    <2>3. posted' = [posted EXCEPT ![i] = r]
      BY <1>5 DEF Done
    <2> QED
      BY <2>1, <2>2, <2>3
  <1>6. ASSUME NEW g \in Fences, CreateOffice(i, g) PROVE OfficesInv'
    <2>0. PICK r : r = [[w EXCEPT !.stage = "office"] EXCEPT !.of = g]
      OBVIOUS
    <2>1. /\ w.does = "create" /\ addressOf[g] = NoFence
          /\ addressOf' = [addressOf EXCEPT ![g] = f.address]
          /\ posted' = [posted EXCEPT ![i] = r] /\ pinOf' = pinOf
      BY <2>0, <1>1, <1>6 DEF CreateOffice, Handling
    <2>2. r \in FenceRequests /\ r.does = w.does /\ r.fields = f /\ r.of = g
      BY <2>0, <1>3 DEF FenceRequests
    <2>3. f.address \in typed /\ f.address # NoFence
      BY <1>3, <2>1 DEF Human
    <2>4. /\ addressOf' \in [Fences -> Addresses \cup {NoFence}]
          /\ addressOf'[g] = f.address /\ \A h \in Fences : h # g => addressOf'[h] = addressOf[h]
      BY <1>1, <1>3, <2>1
    <2>5. HasOffice(g)'
      BY <2>3, <2>4 DEF HasOffice
    <2>6. HasOffice(r.of)'
      BY <2>2, <2>5 DEF HasOffice
    <2>7. \A h \in Fences : /\ pinOf'[h] \in {pinOf[h], NoFence} \cup confirmed
                            /\ addressOf'[h] = addressOf[h] \/ addressOf'[h] \in typed
                            /\ pinOf'[h] # NoFence => addressOf'[h] # NoFence
                            /\ addressOf[h] # NoFence => addressOf'[h] # NoFence
      BY <1>1, <2>1, <2>3, <2>4 DEF HasOffice
    <2> QED
      BY <1>1, <1>4, <2>1, <2>2, <2>4, <2>6, <2>7
  <1>7. ASSUME UpdateOffice(i) PROVE OfficesInv'
    <2> DEFINE g == w.of
    <2>0. PICK r : r = [w EXCEPT !.stage = "office"]
      OBVIOUS
    <2>1. /\ w.does = "update"
          /\ addressOf' = [addressOf EXCEPT ![g] = f.address]
          /\ posted' = [posted EXCEPT ![i] = r] /\ pinOf' = pinOf
      BY <2>0, <1>7 DEF UpdateOffice, Handling
    <2>2. r \in FenceRequests /\ r.does = w.does /\ r.fields = f
      BY <2>0, <1>3 DEF FenceRequests
    <2>3. f.address \in typed /\ f.address # NoFence
      BY <1>3, <2>1 DEF Human
    <2>4. /\ addressOf' \in [Fences -> Addresses \cup {NoFence}]
          /\ \A h \in Fences : addressOf'[h] \in {addressOf[h], f.address}
      BY <1>1, <1>3, <2>1
    <2>5. \A h \in Fences : /\ pinOf'[h] \in {pinOf[h], NoFence} \cup confirmed
                            /\ addressOf'[h] = addressOf[h] \/ addressOf'[h] \in typed
                            /\ pinOf'[h] # NoFence => addressOf'[h] # NoFence
                            /\ addressOf[h] # NoFence => addressOf'[h] # NoFence
      BY <1>1, <2>1, <2>3, <2>4 DEF HasOffice
    <2> QED
      BY <1>1, <1>4, <2>1, <2>2, <2>4, <2>5
  <1>8. ASSUME CreateFence(i) \/ UpdateFence(i) \/ DeleteFence(i) PROVE OfficesInv'
    <2>1. /\ addressOf' = addressOf /\ Done(i) /\ (w.does # "create" \/ w.stage = "office")
      BY <1>8 DEF CreateFence, UpdateFence, DeleteFence, Handling
    <2>2. PICK r \in FenceRequests \cup {NoFence} :
              /\ posted' = [posted EXCEPT ![i] = r]
              /\ r # NoFence => r.does = w.does /\ r.fields = f /\ r.stage = "done"
      BY <1>5, <2>1
    <2>3. ASSUME NEW p \in Pins \cup {NoFence}, pinOf' = [pinOf EXCEPT ![w.of] = p],
                 p = NoFence \/ (p \in confirmed /\ (w.of \in Fences => HasOffice(w.of)))
          PROVE  OfficesInv'
      <3>1. /\ pinOf' \in PinLists
            /\ \A h \in Fences : pinOf'[h] = pinOf[h] \/ (h = w.of /\ pinOf'[h] = p)
        BY <1>1, <2>3 DEF PinLists
      <3>2. \A h \in Fences : /\ pinOf'[h] \in {pinOf[h], NoFence} \cup confirmed
                              /\ addressOf'[h] = addressOf[h] \/ addressOf'[h] \in typed
                              /\ pinOf'[h] # NoFence => addressOf'[h] # NoFence
                              /\ addressOf[h] # NoFence => addressOf'[h] # NoFence
        BY <1>1, <2>1, <2>3, <3>1 DEF HasOffice
      <3> QED
        BY <1>1, <1>4, <2>1, <2>2, <3>1, <3>2
    <2>4. CASE CreateFence(i)
      <3>1. pinOf' = [pinOf EXCEPT ![w.of] = f.pin] /\ w.does = "create" /\ w.stage = "office"
        BY <2>4 DEF CreateFence, Handling
      <3>2. HasOffice(w.of) /\ f.pin \in confirmed
        BY <1>1, <1>3, <3>1 DEF RequestHuman, Human
      <3> QED
        BY <1>3, <2>3, <3>1, <3>2
    <2>5. CASE UpdateFence(i)
      <3>1. pinOf' = [pinOf EXCEPT ![w.of] = f.pin] /\ w.does = "update" /\ pinOf[w.of] # NoFence
        BY <2>5 DEF UpdateFence, Handling
      <3>2. (w.of \in Fences => HasOffice(w.of)) /\ f.pin \in confirmed
        BY <1>1, <1>3, <3>1 DEF Human
      <3> QED
        BY <1>3, <2>3, <3>1, <3>2
    <2>6. CASE DeleteFence(i)
      BY <2>3, <2>6 DEF DeleteFence
    <2> QED
      BY <1>8, <2>4, <2>5, <2>6
  <1> QED
    BY <1>6, <1>7, <1>8

\* Every step keeps what is stored, fetched, cached, drafted and sent human.
LEMMA OfficesStep == OfficesInv /\ [OfficesNext]_officeVars => OfficesInv'
  <1> SUFFICES ASSUME OfficesInv, [OfficesNext]_officeVars PROVE OfficesInv'
    OBVIOUS
  <1>1. CASE UNCHANGED officeVars
    BY <1>1 DEF officeVars, OfficesInv, OfficesTypeOK, DocumentsHuman, EditsAreHuman, ListsHuman,
       Human, HasOffice, DraftHuman, RequestHuman
  <1>2. CASE OfficesNext
    BY <1>2, ListStep, EditStep, SaveStep, WriteStep DEF OfficesNext
  <1> QED
    BY <1>1, <1>2

\* Every stored position was confirmed and every address typed by somebody,
\* for any tabs, offices and requests, however forms are edited, rehydrated
\* and replaced while they save: updateGeofence, createGeofence, their form.
THEOREM OfficesAreHuman == OfficesSpec => []EditsAreHuman
  <1>1. OfficesInv => EditsAreHuman
    BY DEF OfficesInv, DocumentsHuman
  <1> QED
    BY OfficesStart, OfficesStep, <1>1, PTL DEF OfficesSpec

-----------------------------------------------------------------------------
\* A request for tokens read its account at most SignStall ago; an access
\* token has at most its lifetime before it.
SigningTimely ==
    \A s \in SignSlots : signing[s] # NoSigning =>
        /\ signing[s][1] \in People
        /\ signing[s][2] \in Nat
        /\ signing[s][2] <= instant /\ instant <= signing[s][2] + SignStall
TokensTimely ==
    \A t \in issued :
        /\ t.sub \in People /\ t.exp \in Nat
        /\ t.typ = "access" => t.exp <= instant + AccessTtl

\* Who is out of service was read by no request since, and what those that
\* read the account before have signed, or will, runs out in time.
OutAndRead ==
    \A u \in People : account[u].active = FALSE =>
        /\ \A s \in SignSlots :
              (signing[s] # NoSigning /\ signing[s][1] = u) => signing[s][2] <= account[u].since
        /\ \A t \in issued :
              (t.sub = u /\ t.typ = "access") =>
                  t.exp <= account[u].since + SignStall + AccessTtl

AccountsTyped == account \in [People -> [active : BOOLEAN, since : Nat]]
AccessInv ==
    /\ instant \in Nat /\ AccountsTyped /\ DOMAIN signing = SignSlots
    /\ SigningTimely /\ TokensTimely /\ OutAndRead

LEMMA AccessStarts == AccessInit => AccessInv
  BY AccessAssumption
     DEF AccessInit, AccessInv, AccountsTyped, SigningTimely, TokensTimely, OutAndRead

LEMMA AccessStep == AccessInv /\ [AccessNext]_accessVars => AccessInv'
  <1> SUFFICES ASSUME AccessInv, [AccessNext]_accessVars PROVE AccessInv'
    OBVIOUS
  <1>1. AccessTtl \in Nat /\ SignStall \in Nat /\ RefreshTtl \in Nat /\ MaxInstant \in Nat
    BY AccessAssumption
  <1>2. instant \in Nat /\ AccountsTyped /\ DOMAIN signing = SignSlots
        /\ SigningTimely /\ TokensTimely /\ OutAndRead
    BY DEF AccessInv
  \* An active account is read: whoever is out of service is somebody else.
  <1>3. ASSUME NEW s \in SignSlots, NEW u \in People, account[u].active,
               signing' = [signing EXCEPT ![s] = <<u, instant>>],
               UNCHANGED <<instant, account, issued>>
        PROVE  AccessInv'
    <2>1. \A r \in SignSlots \ {s} : signing'[r] = signing[r]
      BY <1>2, <1>3
    <2>2. signing'[s] = <<u, instant>> /\ DOMAIN signing' = SignSlots
      BY <1>2, <1>3
    <2>3. SigningTimely'
      BY <1>1, <1>2, <1>3, <2>1, <2>2 DEF SigningTimely
    <2>4. OutAndRead'
      BY <1>2, <1>3, <2>1, <2>2 DEF OutAndRead
    <2> QED
      BY <1>2, <1>3, <2>2, <2>3, <2>4 DEF AccessInv, AccountsTyped, TokensTimely
  <1>4. ASSUME NEW s \in SignSlots, NEW u \in People, SignIn(s, u) PROVE AccessInv'
    BY <1>3, <1>4 DEF SignIn
  <1>5. ASSUME NEW s \in SignSlots, Refresh(s) PROVE AccessInv'
    <2>1. PICK t \in issued : account[t.sub].active
                              /\ signing' = [signing EXCEPT ![s] = <<t.sub, instant>>]
      BY <1>5 DEF Refresh
    <2>2. t.sub \in People
      BY <1>2 DEF TokensTimely
    <2> QED
      BY <1>3, <1>5, <2>1, <2>2 DEF Refresh
  <1>6. ASSUME NEW s \in SignSlots, SignTokens(s) PROVE AccessInv'
    <2>1. \A r \in SignSlots : signing'[r] \in {signing[r], NoSigning}
      BY <1>2, <1>6 DEF SignTokens
    <2>2. UNCHANGED <<instant, account>> /\ DOMAIN signing' = SignSlots
      BY <1>2, <1>6 DEF SignTokens
    <2>3. SigningTimely'
      BY <1>2, <2>1, <2>2 DEF SigningTimely
    <2> DEFINE v == signing[s][1]
    <2>4. v \in People /\ signing[s][2] \in Nat /\ instant <= signing[s][2] + SignStall
      BY <1>2, <1>6 DEF SignTokens, SigningTimely
    <2>5. ASSUME NEW t \in issued', t \notin issued
          PROVE  /\ t.sub = v /\ t.exp \in Nat
                 /\ t.typ = "access" => t.exp = instant + AccessTtl
      BY <1>1, <1>2, <1>6, <2>5 DEF SignTokens, TokenFor
    <2>6. TokensTimely'
      BY <1>1, <1>2, <2>2, <2>4, <2>5 DEF TokensTimely
    <2>7. account[v].active = FALSE => signing[s][2] <= account[v].since
      BY <1>2, <1>6, <2>4 DEF OutAndRead, SignTokens
    <2>8. \A u \in People : account[u].since \in Nat
      BY <1>2 DEF AccountsTyped
    <2>9. ASSUME NEW u \in People, account[u].active = FALSE,
                 NEW t \in issued', t.sub = u, t.typ = "access"
          PROVE  t.exp <= account[u].since + SignStall + AccessTtl
      <3>1. CASE t \in issued
        BY <1>2, <2>9, <3>1 DEF OutAndRead
      <3>2. CASE t \notin issued
        BY <1>1, <1>2, <2>4, <2>5, <2>7, <2>8, <2>9, <3>2
      <3> QED
        BY <3>1, <3>2
    <2>10. OutAndRead'
      BY <1>2, <2>1, <2>2, <2>9 DEF OutAndRead
    <2> QED
      BY <1>2, <2>2, <2>3, <2>6, <2>10 DEF AccessInv, AccountsTyped
  \* Switched off now: whatever has been read or signed is of now at the latest.
  <1>7. ASSUME NEW u \in People, TurnOff(u) PROVE AccessInv'
    <2>1. account' = [account EXCEPT ![u] = [active |-> FALSE, since |-> instant]]
          /\ UNCHANGED <<instant, signing, issued>>
      BY <1>7 DEF TurnOff
    <2>2. AccountsTyped'
      BY <1>2, <2>1 DEF AccountsTyped
    <2>3. account'[u].since = instant /\ \A w \in People \ {u} : account'[w] = account[w]
      BY <1>2, <2>1 DEF AccountsTyped
    <2>4. OutAndRead'
      <3>1. ASSUME NEW s \in SignSlots, signing[s] # NoSigning PROVE signing[s][2] <= instant
        BY <1>2, <3>1 DEF SigningTimely
      <3>2. ASSUME NEW t \in issued, t.typ = "access"
            PROVE  t.exp <= instant + SignStall + AccessTtl
        BY <1>1, <1>2, <3>2 DEF TokensTimely
      <3> QED
        BY <1>2, <2>1, <2>3, <3>1, <3>2 DEF OutAndRead
    <2> QED
      BY <1>2, <2>1, <2>2, <2>4 DEF AccessInv, SigningTimely, TokensTimely
  <1>8. ASSUME NEW u \in People, TurnOn(u) PROVE AccessInv'
    <2>1. account' = [account EXCEPT ![u] = [active |-> TRUE, since |-> instant]]
          /\ UNCHANGED <<instant, signing, issued>>
      BY <1>8 DEF TurnOn
    <2>2. AccountsTyped'
      BY <1>2, <2>1 DEF AccountsTyped
    <2>3. account'[u].active = TRUE /\ \A w \in People \ {u} : account'[w] = account[w]
      BY <1>2, <2>1 DEF AccountsTyped
    <2>4. OutAndRead'
      BY <1>2, <2>1, <2>3 DEF OutAndRead
    <2> QED
      BY <1>2, <2>1, <2>2, <2>4 DEF AccessInv, SigningTimely, TokensTimely
  <1>9. CASE InstantTick
    <2>1. instant' = instant + 1 /\ issued' \subseteq issued /\ UNCHANGED <<signing, account>>
      BY <1>9 DEF InstantTick
    <2>2. \A s \in SignSlots : signing[s] # NoSigning => instant < signing[s][2] + SignStall
      BY <1>9 DEF InstantTick
    <2>3. SigningTimely'
      BY <1>1, <1>2, <2>1, <2>2 DEF SigningTimely
    <2>4. TokensTimely'
      BY <1>1, <1>2, <2>1 DEF TokensTimely
    <2> QED
      BY <1>2, <2>1, <2>3, <2>4 DEF AccessInv, AccountsTyped, OutAndRead
  <1>10. CASE UNCHANGED accessVars
    BY <1>2, <1>10
       DEF accessVars, AccessInv, AccountsTyped, SigningTimely, TokensTimely, OutAndRead
  <1> QED
    BY <1>4, <1>5, <1>6, <1>7, <1>8, <1>9, <1>10 DEF AccessNext

\* An account taken out of service is out once an access token's lifetime and
\* the longest wait of a sign-in are over, for any number of people, requests
\* and tokens: verifyAccessToken, refresh and deactivateEmployee.
THEOREM DeactivationsEnd == AccessSpec => []DeactivationEnds
  <1>1. AccessInv => DeactivationEnds
    <2> SUFFICES ASSUME AccessInv, NEW u \in People, ~account[u].active,
                        instant >= account[u].since + SignStall + AccessTtl,
                        NEW t \in issued, t.sub = u, Verifies(t, "access")
                 PROVE  FALSE
      BY DEF DeactivationEnds
    <2>1. t.typ = "access" /\ instant < t.exp
      BY DEF Verifies
    <2>2. account[u].active = FALSE /\ account[u].since \in Nat /\ t.exp \in Nat
      BY DEF AccessInv, AccountsTyped, TokensTimely
    <2>3. t.exp <= account[u].since + SignStall + AccessTtl
      BY <2>1, <2>2 DEF AccessInv, OutAndRead
    <2> QED
      BY <2>1, <2>2, <2>3, AccessAssumption DEF AccessInv
  <1> QED
    BY AccessStarts, AccessStep, <1>1, PTL DEF AccessSpec

-----------------------------------------------------------------------------
\* Visits that were rejected and have yet to be counted.
Uncounted(k) == {s \in PerimeterSlots : AtStep(s, "strike") /\ KeyOf(s) = k}

Visits == Ips \X Routes \X Limiters \X {"consume", "strike"}
PerimeterTyped ==
    /\ strikes \in [LimiterKeys -> Nat]
    /\ visits \in [PerimeterSlots -> Visits \cup {NoVisit}]
    /\ recordings \subseteq Ips \X Nat
    /\ blocklist \in [Ips -> Nat]
    /\ rejections \in [LimiterKeys -> Nat]

\* Only the limiter of a route counts, and no more than it has rejected.
StrikesRoutes == \A s \in PerimeterSlots : AtStep(s, "strike") => visits[s][3] \in Routes
StrikesCounted ==
    \A k \in LimiterKeys : strikes[k] + Cardinality(Uncounted(k)) <= rejections[k]

\* A count was reached by the rejections of one route, and calls for an entry.
Earned(ip, tally) ==
    /\ tally >= EscalationThreshold
    /\ \E route \in Routes : rejections[<<ip, route>>] >= tally
RecordingsEarned == \A r \in recordings : Earned(r[1], r[2])
BlocksEarned == \A ip \in Ips : blocklist[ip] > 0 => Earned(ip, blocklist[ip])

PerimeterInv ==
    /\ PerimeterTyped
    /\ StrikesRoutes /\ StrikesCounted /\ RecordingsEarned /\ BlocksEarned

LEMMA UncountedFinite == \A k : IsFiniteSet(Uncounted(k)) /\ Cardinality(Uncounted(k)) \in Nat
  <1> SUFFICES ASSUME NEW k PROVE IsFiniteSet(Uncounted(k)) /\ Cardinality(Uncounted(k)) \in Nat
    OBVIOUS
  <1>1. Uncounted(k) \subseteq PerimeterSlots
    BY DEF Uncounted
  <1> QED
    BY <1>1, PerimeterAssumption, FS_Subset, FS_CardinalityType

LEMMA PerimeterStarts == PerimeterInit => PerimeterInv
  <1> SUFFICES ASSUME PerimeterInit PROVE PerimeterInv
    OBVIOUS
  <1>1. \A s \in PerimeterSlots : ~AtStep(s, "strike")
    BY DEF PerimeterInit, AtStep
  <1>2. \A k : Uncounted(k) = {}
    BY <1>1 DEF Uncounted
  <1>3. StrikesCounted
    BY <1>2, FS_EmptySet DEF PerimeterInit, StrikesCounted
  <1> QED
    BY <1>1, <1>3
       DEF PerimeterInit, PerimeterInv, PerimeterTyped, StrikesRoutes, RecordingsEarned, BlocksEarned

Strikes(v) == v # NoVisit /\ v[4] = "strike"

\* The visit of one slot changes to v; the uncounted ones change by that slot.
LEMMA OneVisitChanges ==
  ASSUME PerimeterTyped, StrikesRoutes, NEW s \in PerimeterSlots,
         NEW v \in Visits \cup {NoVisit},
         visits' = [visits EXCEPT ![s] = v],
         Strikes(v) => v[3] \in Routes
  PROVE  /\ visits' \in [PerimeterSlots -> Visits \cup {NoVisit}]
         /\ StrikesRoutes'
         /\ \A k : Uncounted(k)' =
               IF Strikes(v) /\ <<v[1], v[3]>> = k
               THEN Uncounted(k) \cup {s} ELSE Uncounted(k) \ {s}
  <1>1. visits'[s] = v /\ \A r \in PerimeterSlots \ {s} : visits'[r] = visits[r]
    BY DEF PerimeterTyped
  <1>2. visits' \in [PerimeterSlots -> Visits \cup {NoVisit}]
    BY DEF PerimeterTyped
  <1>3. StrikesRoutes'
    BY <1>1 DEF StrikesRoutes, AtStep, Strikes
  <1>4. ASSUME NEW k
        PROVE  Uncounted(k)' =
                  IF Strikes(v) /\ <<v[1], v[3]>> = k
                  THEN Uncounted(k) \cup {s} ELSE Uncounted(k) \ {s}
    <2>1. \A r \in PerimeterSlots \ {s} : r \in Uncounted(k)' <=> r \in Uncounted(k)
      BY <1>1 DEF Uncounted, AtStep, KeyOf
    <2>2. s \in Uncounted(k)' <=> Strikes(v) /\ <<v[1], v[3]>> = k
      BY <1>1 DEF Uncounted, AtStep, KeyOf, Strikes
    <2>3. Uncounted(k) \subseteq PerimeterSlots /\ Uncounted(k)' \subseteq PerimeterSlots
      BY DEF Uncounted
    <2> QED
      BY <2>1, <2>2, <2>3
  <1> QED
    BY <1>2, <1>3, <1>4

\* A slot that is not at a strike leaves or goes on: nothing is counted.
LEMMA VisitGoesOn ==
  ASSUME PerimeterInv, NEW s \in PerimeterSlots, ~AtStep(s, "strike"),
         NEW v \in Visits \cup {NoVisit}, v # NoVisit => v[4] = "consume",
         visits' = [visits EXCEPT ![s] = v],
         UNCHANGED <<strikes, recordings, blocklist, rejections>>
  PROVE  PerimeterInv'
  <1>1. PerimeterTyped /\ StrikesRoutes
    BY DEF PerimeterInv
  <1>2. \A k : s \notin Uncounted(k)
    BY DEF Uncounted
  <1>3. ~Strikes(v)
    BY DEF Strikes
  <1>4. /\ visits' \in [PerimeterSlots -> Visits \cup {NoVisit}] /\ StrikesRoutes'
        /\ \A k : Uncounted(k)' = Uncounted(k) \ {s}
    BY <1>1, <1>3, OneVisitChanges
  <1>5. \A k : Uncounted(k)' = Uncounted(k)
    BY <1>2, <1>4
  <1>6. StrikesCounted'
    BY <1>5 DEF PerimeterInv, StrikesCounted
  <1> QED
    BY <1>1, <1>4, <1>6
       DEF PerimeterInv, PerimeterTyped, RecordingsEarned, BlocksEarned, Earned

LEMMA PerimeterStep == PerimeterInv /\ [PerimeterNext]_perimeterVars => PerimeterInv'
  <1> SUFFICES ASSUME PerimeterInv, [PerimeterNext]_perimeterVars PROVE PerimeterInv'
    OBVIOUS
  <1>1. PerimeterTyped /\ StrikesRoutes /\ StrikesCounted /\ RecordingsEarned /\ BlocksEarned
    BY DEF PerimeterInv
  <1>2. ~Strikes(NoVisit)
    BY DEF Strikes
  <1>3. ASSUME NEW s \in PerimeterSlots, NEW ip \in Ips, NEW route \in Routes,
               PassGuard(s, ip, route)
        PROVE  PerimeterInv'
    <2>1. <<ip, route, "global", "consume">> \in Visits
      BY DEF Visits, Limiters
    <2>2. ~AtStep(s, "strike")
      BY <1>3 DEF PassGuard, AtStep
    <2> QED
      BY <1>3, <2>1, <2>2, VisitGoesOn DEF PassGuard
  <1>4. ASSUME NEW s \in PerimeterSlots, Consume(s) PROVE PerimeterInv'
    <2> DEFINE v == visits[s]
               next == IF v[3] = "global" THEN <<v[1], v[2], v[2], "consume">> ELSE NoVisit
               struck == <<v[1], v[2], v[3], "strike">>
    <2>1. v \in Visits /\ v[4] = "consume" /\ UNCHANGED <<strikes, recordings, blocklist>>
      BY <1>1, <1>4 DEF Consume, AtStep, PerimeterTyped
    <2>2. PICK k \in LimiterKeys : k = KeyOf(s) /\ k = <<v[1], v[3]>>
      BY <2>1 DEF KeyOf, Visits, LimiterKeys
    <2>3. ~AtStep(s, "strike")
      BY <2>1 DEF AtStep
    <2>4. CASE Passed(s) /\ UNCHANGED rejections
      <3>1. next \in Visits \cup {NoVisit} /\ (next # NoVisit => next[4] = "consume")
        BY <2>1 DEF Visits, Limiters
      <3>2. visits' = [visits EXCEPT ![s] = next]
        BY <2>4 DEF Passed
      <3> HIDE DEF next
      <3> QED
        BY <2>1, <2>3, <2>4, <3>1, <3>2, VisitGoesOn
    <2>5. CASE TurnedAway(s) /\ rejections' = [rejections EXCEPT ![k] = @ + 1]
      <3>1. rejections' \in [LimiterKeys -> Nat] /\ rejections'[k] = rejections[k] + 1
            /\ \A l \in LimiterKeys : rejections'[l] >= rejections[l]
        BY <1>1, <2>2, <2>5 DEF PerimeterTyped
      <3>2. \A ip \in Ips, route \in Routes : <<ip, route>> \in LimiterKeys
        BY DEF LimiterKeys, Limiters
      <3>3. ASSUME NEW ip \in Ips, NEW n \in Nat, Earned(ip, n) PROVE Earned(ip, n)'
        <4>1. PICK route \in Routes : rejections[<<ip, route>>] >= n
          BY <3>3 DEF Earned
        <4>2. rejections[<<ip, route>>] \in Nat /\ rejections'[<<ip, route>>] \in Nat
          BY <1>1, <3>1, <3>2 DEF PerimeterTyped
        <4>3. rejections'[<<ip, route>>] >= n
          BY <3>1, <3>2, <4>1, <4>2
        <4> QED
          BY <3>3, <4>3 DEF Earned
      <3>4. RecordingsEarned' /\ BlocksEarned'
        BY <1>1, <2>1, <3>3 DEF RecordingsEarned, BlocksEarned, PerimeterTyped
      <3>5. \A l : s \notin Uncounted(l)
        BY <2>3 DEF Uncounted
      <3>6. CASE v[3] = "global"
        <4>1. visits' = [visits EXCEPT ![s] = NoVisit]
          BY <2>5, <3>6 DEF TurnedAway
        <4>2. /\ visits' \in [PerimeterSlots -> Visits \cup {NoVisit}] /\ StrikesRoutes'
              /\ \A l : Uncounted(l)' = Uncounted(l) \ {s}
          BY <1>1, <1>2, <4>1, OneVisitChanges
        <4>3. \A l : Uncounted(l)' = Uncounted(l)
          BY <3>5, <4>2
        <4>4. StrikesCounted'
          BY <1>1, <2>1, <3>1, <4>3, UncountedFinite DEF StrikesCounted, PerimeterTyped
        <4> QED
          BY <1>1, <2>1, <3>1, <3>4, <4>2, <4>4 DEF PerimeterInv, PerimeterTyped
      <3>7. CASE v[3] # "global"
        <4>1. [v EXCEPT ![4] = "strike"] = struck
          BY <2>1 DEF Visits
        <4>2. visits' = [visits EXCEPT ![s] = struck]
          BY <1>1, <2>5, <3>7, <4>1 DEF TurnedAway, PerimeterTyped
        <4>3. struck \in Visits /\ Strikes(struck) /\ struck[3] \in Routes /\ <<struck[1], struck[3]>> = k
          BY <2>1, <2>2, <3>7 DEF Visits, Limiters, NoVisit, Strikes
        <4> HIDE DEF struck
        <4>4. /\ visits' \in [PerimeterSlots -> Visits \cup {NoVisit}] /\ StrikesRoutes'
              /\ \A l : Uncounted(l)' =
                    IF Strikes(struck) /\ <<struck[1], struck[3]>> = l
                    THEN Uncounted(l) \cup {s} ELSE Uncounted(l) \ {s}
          BY <1>1, <4>2, <4>3, OneVisitChanges
        <4>5. \A l : Uncounted(l)' = IF l = k THEN Uncounted(l) \cup {s} ELSE Uncounted(l)
          BY <3>5, <4>3, <4>4
        <4>6. Cardinality(Uncounted(k)') = Cardinality(Uncounted(k)) + 1
          BY <3>5, <4>5, UncountedFinite, FS_AddElement
        <4>7. StrikesCounted'
          BY <1>1, <2>1, <2>2, <3>1, <4>5, <4>6, UncountedFinite DEF StrikesCounted, PerimeterTyped
        <4> QED
          BY <1>1, <2>1, <3>1, <3>4, <4>4, <4>7 DEF PerimeterInv, PerimeterTyped
      <3> QED
        BY <3>6, <3>7
    <2> QED
      BY <1>4, <2>2, <2>4, <2>5 DEF Consume
  <1>5. ASSUME NEW s \in PerimeterSlots, Strike(s) PROVE PerimeterInv'
    <2>1. /\ visits' = [visits EXCEPT ![s] = NoVisit] /\ UNCHANGED <<blocklist, rejections>>
          /\ AtStep(s, "strike")
      BY <1>5 DEF Strike
    <2>2. visits[s] \in Visits /\ visits[s][3] \in Routes
      BY <1>1, <2>1 DEF AtStep, PerimeterTyped, StrikesRoutes
    <2>3. PICK k \in LimiterKeys : k = KeyOf(s) /\ k = <<visits[s][1], visits[s][3]>>
      BY <2>2 DEF KeyOf, Visits, LimiterKeys
    <2>4. k[1] \in Ips /\ k = <<k[1], visits[s][3]>>
      BY <2>2, <2>3 DEF Visits
    <2>5. PICK tally \in Nat : tally = strikes[k] + 1
      BY <1>1 DEF PerimeterTyped
    <2>6. /\ visits' \in [PerimeterSlots -> Visits \cup {NoVisit}] /\ StrikesRoutes'
          /\ \A l : Uncounted(l)' = Uncounted(l) \ {s}
      BY <1>1, <1>2, <2>1, OneVisitChanges
    <2>7. s \in Uncounted(k) /\ \A l : l # k => s \notin Uncounted(l)
      BY <2>1, <2>3 DEF Uncounted
    <2>8. Cardinality(Uncounted(k)') = Cardinality(Uncounted(k)) - 1
          /\ \A l : l # k => Uncounted(l)' = Uncounted(l)
      <3>1. Uncounted(k)' = Uncounted(k) \ {s} /\ \A l : l # k => Uncounted(l)' = Uncounted(l)
        BY <2>6, <2>7
      <3>2. IsFiniteSet(Uncounted(k)) /\ s \in Uncounted(k)
        BY <2>7, UncountedFinite
      <3>3. Cardinality(Uncounted(k) \ {s}) = Cardinality(Uncounted(k)) - 1
        BY <3>2, FS_RemoveElement
      <3> QED
        BY <3>1, <3>3
    <2>9. BlocksEarned'
      BY <1>1, <2>1 DEF BlocksEarned, Earned
    <2>10. CASE strikes' = [strikes EXCEPT ![k] = tally]
               /\ recordings' = IF tally < EscalationThreshold THEN recordings
                                ELSE recordings \cup {<<k[1], tally>>}
      <3>1. strikes' \in [LimiterKeys -> Nat]
        BY <1>1, <2>10 DEF PerimeterTyped
      <3>2. StrikesCounted'
        BY <1>1, <2>1, <2>5, <2>8, <2>10, UncountedFinite DEF StrikesCounted, PerimeterTyped
      <3>3. rejections[k] >= tally
        <4>1. Cardinality(Uncounted(k)) \in Nat /\ Cardinality(Uncounted(k)) # 0
          BY <2>7, UncountedFinite, FS_EmptySet
        <4> QED
          BY <1>1, <2>5, <4>1 DEF StrikesCounted, PerimeterTyped
      <3>4. tally >= EscalationThreshold => Earned(k[1], tally)
        BY <2>2, <2>4, <3>3 DEF Earned
      <3>5. RecordingsEarned' /\ recordings' \subseteq Ips \X Nat
        <4>1. \A r \in recordings : Earned(r[1], r[2])'
          BY <1>1, <2>1 DEF RecordingsEarned, Earned
        <4>2. tally >= EscalationThreshold => Earned(k[1], tally)'
          BY <2>1, <3>4 DEF Earned
        <4>3. \/ recordings' = recordings
              \/ /\ tally >= EscalationThreshold
                 /\ recordings' = recordings \cup {<<k[1], tally>>}
          BY <2>10 DEF EscalationThreshold
        <4> QED
          BY <1>1, <2>4, <4>1, <4>2, <4>3 DEF RecordingsEarned, PerimeterTyped
      <3> QED
        BY <1>1, <2>1, <2>6, <2>9, <3>1, <3>2, <3>5 DEF PerimeterInv, PerimeterTyped
    <2>11. CASE UNCHANGED <<strikes, recordings>>
      <3>1. StrikesCounted'
        BY <1>1, <2>1, <2>3, <2>8, <2>11, UncountedFinite DEF StrikesCounted, PerimeterTyped
      <3> QED
        BY <1>1, <2>1, <2>6, <2>9, <2>11, <3>1
           DEF PerimeterInv, PerimeterTyped, RecordingsEarned, Earned
    <2> QED
      BY <1>5, <2>3, <2>5, <2>10, <2>11 DEF Strike
  <1>6. ASSUME NEW r \in recordings, RecordIncident(r) PROVE PerimeterInv'
    <2>1. r[1] \in Ips /\ r[2] \in Nat /\ Earned(r[1], r[2])
      BY <1>1 DEF PerimeterTyped, RecordingsEarned
    <2>2. UNCHANGED <<strikes, visits, rejections>> /\ recordings' \subseteq recordings
      BY <1>6 DEF RecordIncident
    <2>3. blocklist' = blocklist \/ blocklist' = [blocklist EXCEPT ![r[1]] = r[2]]
      BY <1>6 DEF RecordIncident
    <2>4. BlocksEarned' /\ blocklist' \in [Ips -> Nat]
      BY <1>1, <2>1, <2>2, <2>3 DEF BlocksEarned, Earned, PerimeterTyped
    <2> QED
      BY <1>1, <2>2, <2>4
         DEF PerimeterInv, PerimeterTyped, StrikesRoutes, StrikesCounted, RecordingsEarned, Earned,
             AtStep, Uncounted, KeyOf
  <1>7. CASE Lapse
    <2>1. UNCHANGED <<visits, recordings, rejections>>
      BY <1>7 DEF Lapse
    <2>2. /\ strikes' \in [LimiterKeys -> Nat]
          /\ \A k \in LimiterKeys : strikes'[k] <= strikes[k]
      BY <1>1, <1>7 DEF Lapse, PerimeterTyped
    <2>3. /\ blocklist' \in [Ips -> Nat]
          /\ \A ip \in Ips : blocklist'[ip] \in {0, blocklist[ip]}
      BY <1>1, <1>7 DEF Lapse, PerimeterTyped
    <2>4. \A k : Uncounted(k)' = Uncounted(k)
      BY <2>1 DEF Uncounted, AtStep, KeyOf
    <2>5. StrikesCounted'
      BY <1>1, <2>1, <2>2, <2>4, UncountedFinite DEF StrikesCounted, PerimeterTyped
    <2> QED
      BY <1>1, <2>1, <2>2, <2>3, <2>5
         DEF PerimeterInv, PerimeterTyped, StrikesRoutes, RecordingsEarned, BlocksEarned, Earned, AtStep
  <1>8. CASE PerimeterCrash
    <2>1. UNCHANGED <<strikes, blocklist, rejections>> /\ recordings' = {}
          /\ visits' = [s \in PerimeterSlots |-> NoVisit]
      BY <1>8 DEF PerimeterCrash
    <2>2. \A s \in PerimeterSlots : ~AtStep(s, "strike")'
      BY <2>1 DEF AtStep
    <2>3. \A k : Uncounted(k)' = {}
      BY <2>2 DEF Uncounted
    <2>4. \A k : Cardinality(Uncounted(k)') = 0
      BY <2>3, FS_EmptySet
    <2>5. \A k \in LimiterKeys : strikes[k] <= rejections[k]
      BY <1>1, UncountedFinite DEF StrikesCounted, PerimeterTyped
    <2>6. StrikesCounted'
      BY <1>1, <2>1, <2>4, <2>5 DEF StrikesCounted, PerimeterTyped
    <2> QED
      BY <1>1, <2>1, <2>2, <2>6
         DEF PerimeterInv, PerimeterTyped, StrikesRoutes, RecordingsEarned, BlocksEarned, Earned
  <1>9. CASE Outage \/ UNCHANGED perimeterVars
    BY <1>1, <1>9
       DEF Outage, perimeterVars, PerimeterInv, PerimeterTyped, StrikesRoutes, StrikesCounted,
           RecordingsEarned, BlocksEarned, Earned, AtStep, Uncounted, KeyOf
  <1> QED
    BY <1>3, <1>4, <1>5, <1>6, <1>7, <1>8, <1>9 DEF PerimeterNext

\* Whatever fails in between, an address is blocked only for the rejections of
\* one route: rateLimiter.ts, incidentBlocklist.ts and incidentService.ts.
THEOREM OutagesNeverBlock == PerimeterSpec => []OutageNeverBlocks
  <1>1. PerimeterInv => OutageNeverBlocks
    BY DEF PerimeterInv, BlocksEarned, Earned, OutageNeverBlocks
  <1> QED
    BY <1>1, PerimeterStarts, PerimeterStep, PTL DEF PerimeterSpec

-----------------------------------------------------------------------------
\* Whatever HR types is read as days of the week.
LEMMA ParsedAreDays ==
    ASSUME NEW label \in WeekLabels
    PROVE  Parse(label) \subseteq Days
  <1>1. CASE label = <<"every">>
    BY <1>1 DEF Parse
  <1>2. ASSUME NEW a \in Days, NEW b \in Days, label = RangeLabel(a, b)
        PROVE  Parse(label) \subseteq Days
    <2>1. Parse(label) = Run(a, ((b + 7 - a) % 7) + 1)
      BY <1>2 DEF Parse, RangeLabel
    <2>2. (b + 7 - a) % 7 \in Nat
      BY DEF Days
    <2>3. \A i \in 0..((b + 7 - a) % 7) : (a + i) % 7 \in 0..6
      BY <2>2 DEF Days
    <2> QED
      BY <2>1, <2>2, <2>3 DEF Run, Days
  <1>3. ASSUME NEW D \in SUBSET Days, label = ListLabel(D)
        PROVE  Parse(label) \subseteq Days
    BY <1>3 DEF Parse, ListLabel
  <1> QED
    BY <1>1, <1>2, <1>3 DEF WeekLabels

LEMMA EarliestDay ==
    ASSUME NEW S \in SUBSET Days, S # {}
    PROVE  \E s \in S : \A t \in S : s <= t
  <1>1. CASE 0 \in S
    BY <1>1 DEF Days
  <1>2. CASE 0 \notin S /\ 1 \in S
    BY <1>2 DEF Days
  <1>3. CASE 0 \notin S /\ 1 \notin S /\ 2 \in S
    BY <1>3 DEF Days
  <1>4. CASE 0 \notin S /\ 1 \notin S /\ 2 \notin S /\ 3 \in S
    BY <1>4 DEF Days
  <1>5. CASE 0 \notin S /\ 1 \notin S /\ 2 \notin S /\ 3 \notin S /\ 4 \in S
    BY <1>5 DEF Days
  <1>6. CASE S \subseteq {5, 6}
    <2>1. CASE 5 \in S
      BY <1>6, <2>1
    <2>2. CASE 5 \notin S
      <3>1. S = {6}
        BY <1>6, <2>2
      <3> QED
        BY <3>1
    <2> QED
      BY <2>1, <2>2
  <1> QED
    BY <1>1, <1>2, <1>3, <1>4, <1>5, <1>6 DEF Days

\* Of the days a run may start at, the least is one.
LEMMA FirstOfRun ==
    ASSUME NEW S \in SUBSET Days, S # {}
    PROVE  (CHOOSE s \in S : \A t \in S : s <= t) \in S
  <1>1. \E s \in S : \A t \in S : s <= t
    BY EarliestDay
  <1> QED
    BY <1>1

LEMMA DaysAreFew ==
    ASSUME NEW D \in SUBSET Days, D # {}
    PROVE  Cardinality(D) \in 1..7
  <1>1. IsFiniteSet(Days) /\ Cardinality(Days) = 7
    <2>1. ASSUME NEW m \in Nat
          PROVE  IsFiniteSet(0..m) /\ Cardinality(0..m) = m + 1
      BY FS_Interval
    <2>2. IsFiniteSet(0..6) /\ Cardinality(0..6) = 6 + 1
      BY <2>1
    <2> QED
      BY <2>2 DEF Days
  <1>2. IsFiniteSet(D) /\ Cardinality(D) \in Nat /\ Cardinality(D) <= 7
    BY <1>1, FS_Subset, FS_CardinalityType
  <1>3. Cardinality(D) # 0
    BY <1>2, FS_EmptySet
  <1> QED
    BY <1>2, <1>3

\* The length of a run is read back from its first and its last day.
LEMMA RunIsMeasured ==
    ASSUME NEW f \in Days, NEW len \in 1..7
    PROVE  ((((f + len - 1) % 7) + 7 - f) % 7) + 1 = len
  <1>1. CASE f + len - 1 < 7
    <2>1. (f + len - 1) % 7 = f + len - 1
      BY <1>1 DEF Days
    <2>2. (f + len - 1) + 7 - f = len + 6
      BY DEF Days
    <2>3. (len + 6) % 7 = len - 1
      OBVIOUS
    <2> QED
      BY <2>1, <2>2, <2>3 DEF Days
  <1>2. CASE f + len - 1 >= 7
    <2>1. (f + len - 1) % 7 = f + len - 8
      BY <1>2 DEF Days
    <2>2. (f + len - 8) + 7 - f = len - 1
      BY DEF Days
    <2>3. (len - 1) % 7 = len - 1
      OBVIOUS
    <2> QED
      BY <2>1, <2>2, <2>3 DEF Days
  <1> QED
    BY <1>1, <1>2 DEF Days

\* The label that is derived of some days is read back as these days.
LEMMA LabelsRoundTrip ==
    ASSUME NEW D \in SUBSET Days
    PROVE  Parse(Derive(D)) = D
  <1> DEFINE len == Cardinality(D)
             starts == {s \in Days : Run(s, len) = D}
             first == CHOOSE s \in starts : \A t \in starts : s <= t
  <1>1. CASE D = {}
    BY <1>1 DEF Derive, Parse
  <1>2. CASE D = Days
    <2>1. Days # {}
      BY DEF Days
    <2> QED
      BY <1>2, <2>1 DEF Derive, Parse
  <1>3. CASE D # {} /\ D # Days /\ (starts = {} \/ len = 1)
    <2>1. Derive(D) = ListLabel(D)
      BY <1>3 DEF Derive
    <2> QED
      BY <2>1 DEF Parse, ListLabel
  <1>4. CASE D # {} /\ D # Days /\ ~(starts = {} \/ len = 1)
    <2>1. Derive(D) = RangeLabel(first, (first + len - 1) % 7)
      BY <1>4 DEF Derive
    <2>2. first \in starts
      <3>1. starts # {}
        BY <1>4
      <3> QED
        BY <3>1, FirstOfRun
    <2>3. len \in 1..7
      BY <1>4, DaysAreFew
    <2>4. first \in Days /\ Run(first, len) = D
      BY <2>2
    <2> HIDE DEF first, len
    <2>5. Parse(Derive(D)) = Run(first, ((((first + len - 1) % 7) + 7 - first) % 7) + 1)
      BY <2>1 DEF Parse, RangeLabel
    <2> QED
      BY <2>3, <2>4, <2>5, RunIsMeasured
  <1> QED
    BY <1>1, <1>2, <1>3, <1>4

\* The label of such days is one of those HR may see.
LEMMA DerivedIsALabel ==
    ASSUME NEW D \in SUBSET Days
    PROVE  Derive(D) \in WeekLabels \cup {<<"none">>}
  <1> DEFINE len == Cardinality(D)
             starts == {s \in Days : Run(s, len) = D}
             first == CHOOSE s \in starts : \A t \in starts : s <= t
  <1>1. CASE D = {}
    BY <1>1 DEF Derive
  <1>2. CASE D = Days
    <2>1. Days # {}
      BY DEF Days
    <2> QED
      BY <1>2, <2>1 DEF Derive, WeekLabels
  <1>3. CASE D # {} /\ D # Days /\ (starts = {} \/ len = 1)
    <2>1. Derive(D) = ListLabel(D)
      BY <1>3 DEF Derive
    <2>2. D \in (SUBSET Days) \ {{}}
      BY <1>3
    <2>3. ListLabel(D) \in {ListLabel(E) : E \in (SUBSET Days) \ {{}}}
      BY <2>2
    <2> QED
      BY <2>1, <2>3 DEF WeekLabels
  <1>4. CASE D # {} /\ D # Days /\ ~(starts = {} \/ len = 1)
    <2>1. Derive(D) = RangeLabel(first, (first + len - 1) % 7)
      BY <1>4 DEF Derive
    <2>2. \A f \in Days, n \in 1..7 : (f + n - 1) % 7 \in Days
      BY DEF Days
    <2>3. first \in Days
      <3>1. starts # {}
        BY <1>4
      <3> QED
        BY <3>1, FirstOfRun
    <2>4. len \in 1..7
      BY <1>4, DaysAreFew
    <2> HIDE DEF first, len
    <2>5. RangeLabel(first, (first + len - 1) % 7) \in {RangeLabel(a, b) : a, b \in Days}
      BY <2>2, <2>3, <2>4
    <2> QED
      BY <2>1, <2>5 DEF WeekLabels
  <1> QED
    BY <1>1, <1>2, <1>3, <1>4

\* Every shift has days of the week, however it was made and changed.
ShiftsTyped == shift \subseteq [days : SUBSET Days, label : WeekLabels \cup {<<"none">>}]

LEMMA DaysStayDays == WeekSpec => []ShiftsTyped
  <1>1. WeekInit => ShiftsTyped
    BY DEF WeekInit, ShiftsTyped
  <1>2. ShiftsTyped /\ [WeekNext]_shift => ShiftsTyped'
    <2> SUFFICES ASSUME ShiftsTyped, [WeekNext]_shift
                 PROVE  ShiftsTyped'
      OBVIOUS
    <2>1. ASSUME NEW label \in TypedLabels
          PROVE  Parse(label) \in SUBSET Days
      BY ParsedAreDays, WeekAssumption
    <2>2. ASSUME NEW label \in TypedLabels, CreateWeek(label)
          PROVE  ShiftsTyped'
      BY <2>1, <2>2, DerivedIsALabel DEF CreateWeek, ShiftsTyped
    <2>3. ASSUME NEW label \in TypedLabels, UpdateWeek(label)
          PROVE  ShiftsTyped'
      <3>1. CASE shift = {}
        BY <2>1, <2>3, <3>1 DEF UpdateWeek, ShiftsTyped
      <3>2. CASE shift # {}
        <4>1. shift' = {[s EXCEPT !.days = Parse(label)] : s \in shift}
          BY <2>3, <3>2 DEF UpdateWeek
        <4> QED
          BY <2>1, <4>1 DEF ShiftsTyped
      <3> QED
        BY <3>1, <3>2
    <2>4. CASE UpdateTimes
      BY <2>4 DEF UpdateTimes, ShiftsTyped
    <2>5. CASE UNCHANGED shift
      BY <2>5 DEF ShiftsTyped
    <2> QED
      BY <2>2, <2>3, <2>4, <2>5 DEF WeekNext
  <1> QED
    BY <1>1, <1>2, PTL DEF WeekSpec

\* A shift document has days of the week and a label HR may see.
THEOREM WeeksTyped == WeekSpec => []WeekTypeOK
  <1>1. ShiftsTyped => WeekTypeOK
    BY DEF ShiftsTyped, WeekTypeOK
  <1> QED
    BY <1>1, DaysStayDays, PTL

\* "The two functions round-trip", for every label HR may type and every
\* sequence of creations and updates.
THEOREM DaysAreReadBack == WeekSpec => []DaysRoundTrip
  <1>1. ShiftsTyped => DaysRoundTrip
    BY LabelsRoundTrip DEF ShiftsTyped, DaysRoundTrip
  <1> QED
    BY <1>1, DaysStayDays, PTL

-----------------------------------------------------------------------------
Sheets ==
    [of : Zones \cup {"new"}, lat : Int, lng : Int, radius : Radii,
     verified : BOOLEAN, moved : BOOLEAN]
EditRequests ==
    [kind : {"save", "remove"}, of : Zones \cup {"new"}, lat : Int, lng : Int, radius : Radii,
     here : BOOLEAN, done : BOOLEAN, ok : BOOLEAN]
Offices == [of : Zones, lat : Int, lng : Int, radiusMeters : Radii]

\* Somebody may point at this.
OnMap(f) == [lat |-> f.lat, lng |-> f.lng] \in Spots

FenceTyped ==
    /\ zones \in [Zones -> Circles \cup {NoZone}] /\ known \in [Zones -> Circles \cup {NoZone}]
    /\ sheet # NoZone => sheet \in Sheets /\ OnMap(sheet)
    /\ editorMap \in [loaded : BOOLEAN, marker : Int \X Int, circle : Circles \cup {NoZone},
                      waiting : Circles \cup {NoZone}]
    /\ requests \subseteq EditRequests
    /\ \A q \in requests : OnMap(q) /\ (q.kind = "remove" => q.of \in Zones)
    /\ edits \in 0..MaxEdits /\ writes \in 0..MaxWrites
    /\ office # NoZone => office \in Offices /\ OnMap(office)
    /\ sighted \subseteq {GeoPair(p) : p \in Spots}

\* On the globe, no swapped pair, and drawn there for whoever confirmed it.
Placed(at) == InRange(Named(at)) /\ ~LooksFlipped(at) /\ at \in sighted

RecordsPlaced ==
    \A z \in Zones :
        /\ zones[z] # NoZone => Placed(zones[z].at)
        /\ known[z] # NoZone => Placed(known[z].at)

\* What is confirmed, and what was sent to be saved, was seen where it is.
DraftsSeen ==
    /\ sheet # NoZone /\ sheet.verified => GeoPair(sheet) \in sighted
    /\ \A q \in requests : q.kind = "save" => GeoPair(q) \in sighted

\* The map that has not loaded yet waits with the circle of the draft.
MapFollows ==
    sheet # NoZone /\ ~sheet.moved =>
        /\ editorMap.marker = GeoPair(sheet)
        /\ editorMap.circle = Drawn(sheet) \/ ~editorMap.loaded
        /\ editorMap.waiting = Drawn(sheet) \/ editorMap.loaded

FenceInv == FenceTyped /\ RecordsPlaced /\ DraftsSeen /\ MapFollows

\* What is drawn of a draft is a circle, and what is shown of a circle a draft.
LEMMA DrawnIsCircle ==
    ASSUME NEW f, OnMap(f), f.radius \in Radii
    PROVE  /\ Drawn(f) \in Circles /\ Drawn(f) # NoZone /\ Drawn(f).at = GeoPair(f)
           /\ GeoPair(f) \in {GeoPair(p) : p \in Spots}
  <1>1. PICK p \in Spots : p = [lat |-> f.lat, lng |-> f.lng]
    BY DEF OnMap
  <1>2. GeoPair(f) = GeoPair(p)
    BY <1>1 DEF GeoPair
  <1>3. Drawn(f) = [at |-> GeoPair(p), radius |-> f.radius]
    BY <1>2 DEF Drawn
  <1> QED
    BY <1>1, <1>2, <1>3, NoZoneIsNoCircle DEF Circles

LEMMA CirclesOpen ==
    ASSUME NEW z \in Zones, NEW c \in Circles
    PROVE  /\ SheetOf(z, c) \in Sheets /\ OnMap(SheetOf(z, c))
           /\ SheetOf(z, c).of = z /\ SheetOf(z, c).verified /\ ~SheetOf(z, c).moved
           /\ GeoPair(SheetOf(z, c)) = c.at /\ Drawn(SheetOf(z, c)) = c
           /\ c.at \in Int \X Int /\ c.radius \in Radii
           /\ Named(c.at).lat \in Int /\ Named(c.at).lng \in Int
           /\ GeoPair(Named(c.at)) = c.at
  <1>1. PICK p \in Spots, r \in Radii : c = [at |-> GeoPair(p), radius |-> r]
    BY DEF Circles
  <1>2. p \in [lat : Int, lng : Int]
    BY <1>1, FenceCircleAssumption
  <1>3. c.at = <<p.lng, p.lat>> /\ c.radius = r
    BY <1>1 DEF GeoPair
  <1>4. SheetOf(z, c) = [of |-> z, lat |-> p.lat, lng |-> p.lng, radius |-> r,
                         verified |-> TRUE, moved |-> FALSE]
    BY <1>3 DEF SheetOf, Named
  <1>5. [lat |-> p.lat, lng |-> p.lng] = p
    BY <1>2
  <1>6. /\ c.at \in Int \X Int /\ c.radius \in Radii /\ Named(c.at) = p
        /\ GeoPair(p) = c.at
    BY <1>1, <1>2, <1>3, <1>5 DEF Named, GeoPair
  <1>7. SheetOf(z, c) \in Sheets
    <2>1. p.lat \in Int /\ p.lng \in Int /\ r \in Radii /\ z \in Zones \cup {"new"}
      BY <1>1, <1>2
    <2> QED
      BY <1>4, <2>1 DEF Sheets
  <1>8. /\ OnMap(SheetOf(z, c)) /\ GeoPair(SheetOf(z, c)) = c.at
        /\ SheetOf(z, c).of = z /\ SheetOf(z, c).verified /\ ~SheetOf(z, c).moved
    BY <1>1, <1>3, <1>4, <1>5 DEF OnMap, GeoPair
  <1>9. Drawn(SheetOf(z, c)) = c
    BY <1>1, <1>3, <1>4 DEF Drawn, GeoPair
  <1> QED
    BY <1>2, <1>6, <1>7, <1>8, <1>9

LEMMA FenceStarts == FenceInit => FenceInv
  <1> SUFFICES ASSUME FenceInit PROVE FenceInv
    OBVIOUS
  <1>1. <<0, 0>> \in Int \X Int
    OBVIOUS
  <1>2. 0 \in 0..MaxEdits /\ 0 \in 0..MaxWrites
    BY FenceCircleAssumption
  <1>3. FenceTyped
    BY <1>1, <1>2 DEF FenceInit, NoMap, FenceTyped
  <1> QED
    BY <1>3 DEF FenceInit, FenceInv, RecordsPlaced, DraftsSeen, MapFollows

\* The same request, as far as what it asks for.
Asks(r, q) ==
    /\ r \in EditRequests
    /\ r.kind = q.kind /\ r.of = q.of /\ r.lat = q.lat /\ r.lng = q.lng

LEMMA SameAsked ==
    ASSUME FenceInv, sighted \subseteq sighted',
           \A r \in requests' : \E q \in requests : Asks(r, q)
    PROVE  /\ requests' \subseteq EditRequests
           /\ \A r \in requests' : OnMap(r) /\ (r.kind = "remove" => r.of \in Zones)
           /\ \A r \in requests' : r.kind = "save" => GeoPair(r) \in sighted'
  <1> SUFFICES ASSUME NEW r \in requests'
               PROVE  /\ r \in EditRequests /\ OnMap(r)
                      /\ r.kind = "remove" => r.of \in Zones
                      /\ r.kind = "save" => GeoPair(r) \in sighted'
    OBVIOUS
  <1>1. PICK q \in requests : Asks(r, q)
    OBVIOUS
  <1>2. OnMap(r) <=> OnMap(q)
    BY <1>1 DEF Asks, OnMap
  <1>3. GeoPair(r) = GeoPair(q)
    BY <1>1 DEF Asks, GeoPair
  <1> QED
    BY <1>1, <1>2, <1>3 DEF Asks, FenceInv, FenceTyped, DraftsSeen

LEMMA LetGoAsks ==
    ASSUME FenceInv, NEW R \in SUBSET requests,
           requests' = {[q EXCEPT !.here = FALSE] : q \in R}
    PROVE  \A r \in requests' : \E q \in requests : Asks(r, q)
  <1> SUFFICES ASSUME NEW r \in requests'
               PROVE  \E q \in requests : Asks(r, q)
    OBVIOUS
  <1>1. PICK q \in R : r = [q EXCEPT !.here = FALSE]
    OBVIOUS
  <1>2. q \in EditRequests
    BY <1>1 DEF FenceInv, FenceTyped
  <1>3. Asks(r, q)
    BY <1>1, <1>2 DEF Asks, EditRequests
  <1> QED
    BY <1>1, <1>3

LEMMA StayedAsks ==
    ASSUME FenceInv, requests' \subseteq requests
    PROVE  \A r \in requests' : \E q \in requests : Asks(r, q)
  BY DEF FenceInv, FenceTyped, Asks

\* The form in the next state is none, or a draft with the map that goes with
\* it; the rest is as it was, and what was asked for is still asked for.
FormReady ==
    /\ sheet # NoZone =>
         /\ sheet \in Sheets /\ OnMap(sheet)
         /\ sheet.verified => GeoPair(sheet) \in sighted
    /\ editorMap \in [loaded : BOOLEAN, marker : Int \X Int, circle : Circles \cup {NoZone},
                      waiting : Circles \cup {NoZone}]
    /\ MapFollows

LEMMA ZoneFormStep ==
    ASSUME FenceInv, FormReady', sighted \subseteq sighted',
           sighted' \subseteq {GeoPair(p) : p \in Spots},
           \A r \in requests' : \E q \in requests : Asks(r, q),
           zones' = zones, known' = known \/ known' = zones, office' = office,
           edits' \in 0..MaxEdits, writes' \in 0..MaxWrites
    PROVE  FenceInv'
  <1>1. FenceTyped'
    BY SameAsked DEF FenceInv, FenceTyped, FormReady
  <1>2. RecordsPlaced'
    BY DEF FenceInv, RecordsPlaced, Placed
  <1>3. DraftsSeen'
    BY SameAsked DEF FormReady, DraftsSeen
  <1> QED
    BY <1>1, <1>2, <1>3 DEF FormReady, FenceInv

\* A mounted form, its map not loaded.
LEMMA PlacesMounted ==
    ASSUME FenceInv, NEW f \in Sheets, OnMap(f), Mount(f), sighted' = sighted,
           f.verified => GeoPair(f) \in sighted
    PROVE  FormReady'
  <1>1. Drawn(f) \in Circles /\ GeoPair(f) \in Int \X Int
    BY DrawnIsCircle DEF Sheets, GeoPair
  <1>2. editorMap' \in [loaded : BOOLEAN, marker : Int \X Int, circle : Circles \cup {NoZone},
                        waiting : Circles \cup {NoZone}]
    BY <1>1 DEF Mount
  <1>3. MapFollows'
    BY DEF Mount, MapFollows
  <1> QED
    BY <1>2, <1>3 DEF Mount, FormReady

LEMMA Unmounted ==
    ASSUME Unmount
    PROVE  FormReady'
  <1>1. <<0, 0>> \in Int \X Int
    OBVIOUS
  <1> QED
    BY <1>1 DEF Unmount, NoMap, FormReady, MapFollows

LEMMA FenceKept == FenceInv /\ UNCHANGED fenceVars => FenceInv'
  BY DEF fenceVars, FenceInv, FenceTyped, RecordsPlaced, Placed, DraftsSeen, MapFollows,
         OnMap, Drawn, GeoPair

LEMMA SheetHeld ==
    ASSUME FenceInv
    PROVE  FormReady /\ (sheet # NoZone => sheet \in Sheets /\ OnMap(sheet))
  BY DEF FenceInv, FenceTyped, DraftsSeen, FormReady

LEMMA Edited ==
    ASSUME FenceInv
    PROVE  edits \in 0..MaxEdits /\ writes \in 0..MaxWrites
           /\ (edits < MaxEdits => edits + 1 \in 0..MaxEdits)
           /\ (writes < MaxWrites => writes + 1 \in 0..MaxWrites)
  BY FenceCircleAssumption DEF FenceInv, FenceTyped

LEMMA OpenKeeps ==
    ASSUME FenceInv, NEW z \in Zones, OpenZone(z) PROVE FenceInv'
  <1>1. known[z] \in Circles /\ Placed(known[z].at)
    BY DEF OpenZone, FenceInv, FenceTyped, RecordsPlaced
  <1>2. FormReady'
    BY <1>1, CirclesOpen, PlacesMounted DEF OpenZone, Placed
  <1>3. \A r \in requests' : \E q \in requests : Asks(r, q)
    BY LetGoAsks DEF OpenZone
  <1> QED
    BY <1>2, <1>3, ZoneFormStep, Edited DEF OpenZone, FenceInv, FenceTyped

LEMMA AddZoneKeeps ==
    ASSUME FenceInv, AddZone PROVE FenceInv'
  <1> DEFINE f == [of |-> "new", lat |-> Centre.lat, lng |-> Centre.lng,
                   radius |-> DefaultRadius, verified |-> FALSE, moved |-> FALSE]
  <1>1. Centre \in Spots /\ Centre \in [lat : Int, lng : Int] /\ DefaultRadius \in Radii
    BY FenceCircleAssumption
  <1>2. f \in Sheets /\ ~f.verified
    BY <1>1 DEF Sheets
  <1>3. OnMap(f)
    BY <1>1 DEF OnMap
  <1>4. Mount(f) /\ sighted' = sighted
    BY DEF AddZone
  <1>5. FormReady'
    BY <1>2, <1>3, <1>4, PlacesMounted
  <1>6. \A r \in requests' : \E q \in requests : Asks(r, q)
    BY LetGoAsks DEF AddZone
  <1> QED
    BY <1>5, <1>6, ZoneFormStep, Edited DEF AddZone, FenceInv, FenceTyped

LEMMA CancelKeeps ==
    ASSUME FenceInv, CancelSheet PROVE FenceInv'
  <1>1. \A r \in requests' : \E q \in requests : Asks(r, q)
    BY LetGoAsks DEF CancelSheet
  <1> QED
    BY <1>1, Unmounted, ZoneFormStep, Edited DEF CancelSheet, FenceInv, FenceTyped

LEMMA ListKeeps ==
    ASSUME FenceInv, ListFetched PROVE FenceInv'
  <1>1. /\ UNCHANGED <<zones, edits, writes, office, sighted>> /\ known' = zones
    BY DEF ListFetched
  <1>2. CASE sheet = NoZone \/ sheet.of = "new"
    <2>1. UNCHANGED <<sheet, editorMap, requests>>
      BY <1>2 DEF ListFetched
    <2>2. FormReady'
      BY <1>1, <2>1, SheetHeld DEF FormReady, MapFollows, OnMap, Drawn, GeoPair
    <2> QED
      BY <1>1, <2>1, <2>2, StayedAsks, ZoneFormStep, Edited DEF FenceInv, FenceTyped
  <1>3. CASE ~(sheet = NoZone \/ sheet.of = "new") /\ zones[sheet.of] = NoZone
    <2>1. Unmount /\ requests' = {[q EXCEPT !.here = FALSE] : q \in requests}
      BY <1>3 DEF ListFetched
    <2>2. \A r \in requests' : \E q \in requests : Asks(r, q)
      BY <2>1, LetGoAsks
    <2> QED
      BY <1>1, <2>1, <2>2, Unmounted, ZoneFormStep, Edited DEF FenceInv, FenceTyped
  <1>4. CASE ~(sheet = NoZone \/ sheet.of = "new") /\ zones[sheet.of] # NoZone
    <2>1. sheet.of \in Zones
      BY <1>4, SheetHeld DEF Sheets
    <2>2. /\ UNCHANGED <<editorMap, requests>>
          /\ sheet' = IF zones[sheet.of] = known[sheet.of] THEN sheet
                      ELSE [SheetOf(sheet.of, zones[sheet.of]) EXCEPT !.moved = TRUE]
      BY <1>4 DEF ListFetched
    <2>3. CASE sheet' = sheet
      <3>1. FormReady'
        BY <1>1, <2>2, <2>3, SheetHeld DEF FormReady, MapFollows, OnMap, Drawn, GeoPair
      <3> QED
        BY <1>1, <2>2, <3>1, StayedAsks, ZoneFormStep, Edited DEF FenceInv, FenceTyped
    <2>4. CASE sheet' = [SheetOf(sheet.of, zones[sheet.of]) EXCEPT !.moved = TRUE]
      <3>1. zones[sheet.of] \in Circles /\ Placed(zones[sheet.of].at)
        BY <1>4, <2>1 DEF FenceInv, FenceTyped, RecordsPlaced
      <3>2. PICK f \in Sheets : f = SheetOf(sheet.of, zones[sheet.of])
        BY <2>1, <3>1, CirclesOpen
      <3>3. OnMap(f) /\ GeoPair(f) \in sighted
        BY <2>1, <3>1, <3>2, CirclesOpen DEF Placed
      <3>4. sheet' \in Sheets /\ sheet'.lat = f.lat /\ sheet'.lng = f.lng /\ sheet'.moved
        BY <2>4, <3>2 DEF Sheets
      <3>5. FormReady'
        BY <1>1, <2>2, <3>3, <3>4, SheetHeld DEF FormReady, MapFollows, OnMap, GeoPair
      <3> QED
        BY <1>1, <2>2, <3>5, StayedAsks, ZoneFormStep, Edited DEF FenceInv, FenceTyped
    <2> QED
      BY <2>2, <2>3, <2>4
  <1> QED
    BY <1>2, <1>3, <1>4

LEMMA PlacingKeeps ==
    ASSUME FenceInv, NEW p \in Spots, PinPlaced(p) PROVE FenceInv'
  <1>1. sheet \in Sheets
    BY SheetHeld DEF PinPlaced
  <1>2. p \in [lat : Int, lng : Int] /\ [lat |-> p.lat, lng |-> p.lng] = p
    BY FenceCircleAssumption
  <1>3. /\ sheet' \in Sheets /\ sheet'.lat = p.lat /\ sheet'.lng = p.lng
        /\ ~sheet'.verified /\ sheet'.moved
    BY <1>1, <1>2 DEF PinPlaced, Sheets
  <1>4. FormReady'
    BY <1>2, <1>3, SheetHeld DEF PinPlaced, FormReady, MapFollows, OnMap
  <1> QED
    BY <1>4, StayedAsks, ZoneFormStep, Edited DEF PinPlaced, FenceInv, FenceTyped

LEMMA RadiusKeeps ==
    ASSUME FenceInv, NEW r \in Radii, RadiusChosen(r) PROVE FenceInv'
  <1>1. sheet \in Sheets /\ OnMap(sheet)
    BY SheetHeld DEF RadiusChosen
  <1>2. /\ sheet' \in Sheets /\ sheet'.lat = sheet.lat /\ sheet'.lng = sheet.lng
        /\ sheet'.verified = sheet.verified /\ sheet'.moved
    BY <1>1 DEF RadiusChosen, Sheets
  <1>3. FormReady'
    BY <1>1, <1>2, SheetHeld DEF RadiusChosen, FormReady, MapFollows, OnMap, GeoPair
  <1> QED
    BY <1>3, StayedAsks, ZoneFormStep, Edited DEF RadiusChosen, FenceInv, FenceTyped

LEMMA SyncKeeps ==
    ASSUME FenceInv, Synced PROVE FenceInv'
  <1>1. sheet \in Sheets /\ OnMap(sheet) /\ sheet.radius \in Radii
    BY SheetHeld DEF Synced, Sheets
  <1>2. /\ sheet' \in Sheets /\ sheet'.lat = sheet.lat /\ sheet'.lng = sheet.lng
        /\ sheet'.radius = sheet.radius /\ sheet'.verified = sheet.verified
    BY <1>1 DEF Synced, Sheets
  <1>3. OnMap(sheet') /\ GeoPair(sheet') = GeoPair(sheet) /\ Drawn(sheet') = Drawn(sheet)
    BY <1>1, <1>2 DEF OnMap, GeoPair, Drawn
  <1>4. Drawn(sheet) \in Circles /\ GeoPair(sheet) \in Int \X Int
    BY <1>1, DrawnIsCircle DEF Sheets, GeoPair
  <1>5. /\ editorMap' \in [loaded : BOOLEAN, marker : Int \X Int,
                           circle : Circles \cup {NoZone}, waiting : Circles \cup {NoZone}]
        /\ editorMap'.marker = GeoPair(sheet)
        /\ editorMap'.circle = Drawn(sheet) \/ ~editorMap'.loaded
        /\ editorMap'.waiting = Drawn(sheet) \/ editorMap'.loaded
    BY <1>4 DEF Synced, FenceInv, FenceTyped
  <1>6. FormReady'
    BY <1>2, <1>3, <1>5, SheetHeld DEF Synced, FormReady, MapFollows
  <1> QED
    BY <1>6, StayedAsks, ZoneFormStep, Edited DEF Synced, FenceInv, FenceTyped

LEMMA LoadKeeps ==
    ASSUME FenceInv, EditorLoaded PROVE FenceInv'
  <1>1. /\ editorMap' \in [loaded : BOOLEAN, marker : Int \X Int,
                           circle : Circles \cup {NoZone}, waiting : Circles \cup {NoZone}]
        /\ editorMap'.marker = editorMap.marker /\ editorMap'.loaded
        /\ editorMap'.circle = editorMap.waiting
    BY DEF EditorLoaded, FenceInv, FenceTyped
  <1>2. OnMap(sheet') <=> OnMap(sheet)
    BY DEF EditorLoaded
  <1>3. FormReady'
    BY <1>1, <1>2, SheetHeld DEF EditorLoaded, FormReady, MapFollows, Drawn, GeoPair
  <1> QED
    BY <1>3, StayedAsks, ZoneFormStep, Edited DEF EditorLoaded, FenceInv, FenceTyped

\* The pin is where the draft is when it is looked at.
LEMMA CheckZoneKeeps ==
    ASSUME FenceInv, PinChecked PROVE FenceInv'
  <1>1. sheet \in Sheets /\ OnMap(sheet) /\ sheet.radius \in Radii
        /\ editorMap.marker = GeoPair(sheet)
    BY SheetHeld DEF PinChecked, Sheets, FormReady, MapFollows
  <1>2. /\ sheet' \in Sheets /\ sheet'.lat = sheet.lat /\ sheet'.lng = sheet.lng
        /\ sheet'.radius = sheet.radius /\ sheet'.moved = sheet.moved
        /\ sheet'.verified = ~sheet.verified
    BY <1>1 DEF PinChecked, Sheets
  <1>3. OnMap(sheet') /\ GeoPair(sheet') = GeoPair(sheet) /\ Drawn(sheet') = Drawn(sheet)
    BY <1>1, <1>2 DEF OnMap, GeoPair, Drawn
  <1>4. GeoPair(sheet) \in {GeoPair(p) : p \in Spots}
    BY <1>1, DrawnIsCircle
  <1>5. /\ sighted \subseteq sighted' /\ sighted' \subseteq {GeoPair(p) : p \in Spots}
        /\ sheet'.verified => GeoPair(sheet) \in sighted'
    BY <1>1, <1>2, <1>4 DEF PinChecked, FenceInv, FenceTyped
  <1>6. FormReady'
    BY <1>1, <1>2, <1>3, <1>5, SheetHeld DEF PinChecked, FormReady, MapFollows
  <1> QED
    BY <1>5, <1>6, StayedAsks, ZoneFormStep, Edited DEF PinChecked, FenceInv, FenceTyped

\* Of the requests, one may be new, of what the form holds.
LEMMA RequestStep ==
    ASSUME FenceInv, UNCHANGED <<known, sheet, editorMap, edits, office, sighted>>,
           writes' \in 0..MaxWrites,
           zones' \in [Zones -> Circles \cup {NoZone}],
           \A z \in Zones : zones'[z] # NoZone => Placed(zones'[z].at),
           requests' \subseteq EditRequests,
           \A q \in requests' :
                 /\ OnMap(q)
                 /\ q.kind = "remove" => q.of \in Zones
                 /\ q.kind = "save" => GeoPair(q) \in sighted
    PROVE  FenceInv'
  <1>1. /\ known' = known /\ sheet' = sheet /\ editorMap' = editorMap /\ edits' = edits
        /\ office' = office /\ sighted' = sighted
    OBVIOUS
  <1>2. FenceTyped'
    <2>1. (\A q \in requests : OnMap(q) /\ (q.kind = "remove" => q.of \in Zones))'
      OBVIOUS
    <2>2. (sheet # NoZone => sheet \in Sheets /\ OnMap(sheet))'
      BY <1>1 DEF FenceInv, FenceTyped
    <2>3. (office # NoZone => office \in Offices /\ OnMap(office))'
      BY <1>1 DEF FenceInv, FenceTyped
    <2>4. /\ known' \in [Zones -> Circles \cup {NoZone}]
          /\ editorMap' \in [loaded : BOOLEAN, marker : Int \X Int,
                             circle : Circles \cup {NoZone}, waiting : Circles \cup {NoZone}]
          /\ edits' \in 0..MaxEdits /\ sighted' \subseteq {GeoPair(p) : p \in Spots}
      BY <1>1 DEF FenceInv, FenceTyped
    <2> QED
      BY <2>1, <2>2, <2>3, <2>4 DEF FenceTyped
  <1>3. RecordsPlaced'
    BY <1>1 DEF FenceInv, RecordsPlaced, Placed
  <1>4. DraftsSeen'
    BY <1>1 DEF FenceInv, DraftsSeen
  <1>5. MapFollows'
    BY <1>1 DEF FenceInv, MapFollows
  <1> QED
    BY <1>2, <1>3, <1>4, <1>5 DEF FenceInv

LEMMA SendZoneKeeps ==
    ASSUME FenceInv, NEW kind \in {"save", "remove"}, SendEdit(kind), sheet # NoZone,
           kind = "save" => sheet.verified, kind = "remove" => sheet.of # "new",
           UNCHANGED <<zones, known, sheet, editorMap, edits, office, sighted>>
    PROVE  FenceInv'
  <1> DEFINE q == [kind |-> kind, of |-> sheet.of, lat |-> sheet.lat, lng |-> sheet.lng,
                   radius |-> sheet.radius, here |-> TRUE, done |-> FALSE, ok |-> FALSE]
  <1>1. sheet \in Sheets /\ OnMap(sheet)
    BY SheetHeld
  <1>2. q \in EditRequests
    BY <1>1 DEF Sheets, EditRequests
  <1>3. OnMap(q)
    BY <1>1 DEF OnMap
  <1>4. q.kind = "remove" => q.of \in Zones
    BY <1>1 DEF Sheets
  <1>5. q.kind = "save" => GeoPair(q) \in sighted
    BY <1>1 DEF FenceInv, DraftsSeen, GeoPair
  <1>6. requests' = requests \cup {q} /\ writes' \in 0..MaxWrites
    BY Edited DEF SendEdit
  <1> HIDE DEF q
  <1> QED
    BY <1>2, <1>3, <1>4, <1>5, <1>6, RequestStep
       DEF FenceInv, FenceTyped, RecordsPlaced, DraftsSeen

LEMMA SaveKeeps ==
    ASSUME FenceInv, NEW q \in requests, SaveHandled(q) PROVE FenceInv'
  <1>1. q \in EditRequests /\ OnMap(q) /\ q.kind = "save" /\ GeoPair(q) \in sighted
    BY DEF SaveHandled, FenceInv, FenceTyped, DraftsSeen
  <1>2. PICK r \in EditRequests :
            /\ requests' = (requests \ {q}) \cup {r}
            /\ r.kind = q.kind /\ r.of = q.of /\ r.lat = q.lat /\ r.lng = q.lng
    <2>1. [q EXCEPT !.done = TRUE, !.ok = TRUE] \in EditRequests
          /\ [q EXCEPT !.done = TRUE] \in EditRequests
      BY <1>1 DEF EditRequests
    <2>2. CASE requests' = (requests \ {q}) \cup {[q EXCEPT !.done = TRUE, !.ok = TRUE]}
      BY <1>1, <2>1, <2>2 DEF EditRequests
    <2>3. CASE requests' = (requests \ {q}) \cup {[q EXCEPT !.done = TRUE]}
      BY <1>1, <2>1, <2>3 DEF EditRequests
    <2> QED
      BY <2>2, <2>3 DEF SaveHandled
  <1>3. OnMap(r) /\ GeoPair(r) = GeoPair(q)
    BY <1>1, <1>2 DEF OnMap, GeoPair
  <1>4. /\ zones' \in [Zones -> Circles \cup {NoZone}]
        /\ \A z \in Zones : zones'[z] # NoZone => Placed(zones'[z].at)
    <2>1. CASE UNCHANGED zones
      BY <2>1 DEF FenceInv, FenceTyped, RecordsPlaced
    <2>2. ASSUME AssertUsable(q), NEW z \in Zones, zones' = [zones EXCEPT ![z] = Drawn(q)]
          PROVE  /\ zones' \in [Zones -> Circles \cup {NoZone}]
                 /\ \A y \in Zones : zones'[y] # NoZone => Placed(zones'[y].at)
      <3>1. Drawn(q) \in Circles /\ Drawn(q).at = GeoPair(q)
        BY <1>1, DrawnIsCircle DEF EditRequests
      <3>2. Named(GeoPair(q)).lat = q.lat /\ Named(GeoPair(q)).lng = q.lng
        BY DEF Named, GeoPair
      <3>3. InRange(Named(GeoPair(q)))
        <4>1. InRange(q)
          BY <2>2 DEF AssertUsable
        <4> QED
          BY <3>2, <4>1 DEF InRange
      <3>4. Placed(GeoPair(q))
        BY <1>1, <2>2, <3>3 DEF Placed, AssertUsable
      <3> QED
        BY <2>2, <3>1, <3>4 DEF FenceInv, FenceTyped, RecordsPlaced
    <2>3. \/ UNCHANGED zones
          \/ AssertUsable(q) /\ \E z \in Zones : zones' = [zones EXCEPT ![z] = Drawn(q)]
      BY DEF SaveHandled
    <2> QED
      BY <2>1, <2>2, <2>3
  <1>5. requests' \subseteq EditRequests
    BY <1>2 DEF FenceInv, FenceTyped
  <1>6. \A p \in requests' :
        /\ OnMap(p)
        /\ p.kind = "remove" => p.of \in Zones
        /\ p.kind = "save" => GeoPair(p) \in sighted
    BY <1>1, <1>2, <1>3 DEF FenceInv, FenceTyped, DraftsSeen
  <1> QED
    BY <1>4, <1>5, <1>6, RequestStep, Edited DEF SaveHandled

LEMMA RemovalKeeps ==
    ASSUME FenceInv, NEW q \in requests, RemoveHandled(q) PROVE FenceInv'
  <1>1. q \in EditRequests /\ OnMap(q) /\ q.kind = "remove" /\ q.of \in Zones
    BY DEF RemoveHandled, FenceInv, FenceTyped
  <1>2. PICK b \in BOOLEAN : b = (zones[q.of] # NoZone)
    OBVIOUS
  <1>3. PICK r \in EditRequests :
            /\ requests' = (requests \ {q}) \cup {r}
            /\ r.kind = q.kind /\ r.of = q.of /\ r.lat = q.lat /\ r.lng = q.lng
    <2>1. requests' = (requests \ {q}) \cup {[q EXCEPT !.done = TRUE, !.ok = b]}
      BY <1>2 DEF RemoveHandled
    <2>2. [q EXCEPT !.done = TRUE, !.ok = b] \in EditRequests
      BY <1>1, <1>2 DEF EditRequests
    <2> QED
      BY <1>1, <2>1, <2>2 DEF EditRequests
  <1>4. OnMap(r)
    BY <1>1, <1>3 DEF OnMap
  <1>5. /\ zones' \in [Zones -> Circles \cup {NoZone}]
        /\ \A z \in Zones : zones'[z] # NoZone => Placed(zones'[z].at)
    BY <1>1 DEF RemoveHandled, FenceInv, FenceTyped, RecordsPlaced
  <1>6. requests' \subseteq EditRequests
    BY <1>3 DEF FenceInv, FenceTyped
  <1>7. \A p \in requests' :
        /\ OnMap(p)
        /\ p.kind = "remove" => p.of \in Zones
        /\ p.kind = "save" => GeoPair(p) \in sighted
    BY <1>1, <1>3, <1>4 DEF FenceInv, FenceTyped, DraftsSeen
  <1> QED
    BY <1>5, <1>6, <1>7, RequestStep, Edited DEF RemoveHandled

LEMMA AnswerKeeps ==
    ASSUME FenceInv, NEW q \in requests, EditAnswered(q) PROVE FenceInv'
  <1>1. UNCHANGED <<zones, known, edits, writes, office, sighted>>
    BY DEF EditAnswered
  <1>2. CASE Unmount /\ requests' = {[p EXCEPT !.here = FALSE] : p \in requests \ {q}}
    <2>1. \A r \in requests' : \E p \in requests : Asks(r, p)
      BY <1>2, LetGoAsks
    <2> QED
      BY <1>1, <1>2, <2>1, Unmounted, ZoneFormStep, Edited DEF FenceInv, FenceTyped
  <1>3. CASE requests' = requests \ {q} /\ UNCHANGED <<sheet, editorMap>>
    <2>1. FormReady'
      BY <1>1, <1>3, SheetHeld DEF FormReady, MapFollows
    <2> QED
      BY <1>1, <1>3, <2>1, StayedAsks, ZoneFormStep, Edited DEF FenceInv, FenceTyped
  <1> QED
    BY <1>2, <1>3 DEF EditAnswered

LEMMA FenceProfileKeeps ==
    ASSUME FenceInv, NEW z \in Zones, ProfileRead(z) PROVE FenceInv'
  <1>1. office' # NoZone => office' \in Offices /\ OnMap(office')
    <2>1. CASE zones[z] = NoZone
      BY <2>1 DEF ProfileRead
    <2>2. CASE zones[z] # NoZone
      <3>1. zones[z] \in Circles
        BY <2>2 DEF FenceInv, FenceTyped
      <3>2. /\ Named(zones[z].at).lat \in Int /\ Named(zones[z].at).lng \in Int
            /\ zones[z].radius \in Radii
        BY <3>1, CirclesOpen
      <3>3. OnMap(Named(zones[z].at))
        BY <3>1, CirclesOpen DEF OnMap, SheetOf, Named
      <3> QED
        BY <2>2, <3>2, <3>3 DEF ProfileRead, Offices, OnMap
    <2> QED
      BY <2>1, <2>2
  <1>2. UNCHANGED <<zones, known, sheet, editorMap, requests, edits, writes, sighted>>
    BY DEF ProfileRead
  <1>3. FenceTyped'
    BY <1>1, <1>2 DEF FenceInv, FenceTyped
  <1>4. RecordsPlaced'
    BY <1>2 DEF FenceInv, RecordsPlaced, Placed
  <1>5. DraftsSeen' /\ MapFollows'
    BY <1>2 DEF FenceInv, DraftsSeen, MapFollows
  <1> QED
    BY <1>3, <1>4, <1>5 DEF FenceInv

LEMMA FenceInvariant == FenceSpec => []FenceInv
  <1>1. FenceInv /\ [FenceNext]_fenceVars => FenceInv'
    <2> SUFFICES ASSUME FenceInv, [FenceNext]_fenceVars
                 PROVE  FenceInv'
      OBVIOUS
    <2>1. CASE AddZone \/ CancelSheet \/ ListFetched
      BY <2>1, AddZoneKeeps, CancelKeeps, ListKeeps
    <2>2. CASE Synced \/ EditorLoaded \/ PinChecked
      BY <2>2, SyncKeeps, LoadKeeps, CheckZoneKeeps
    <2>3. CASE SubmitSheet
      <3>1. UNCHANGED <<zones, known, sheet, editorMap, edits, office, sighted>>
        BY <2>3 DEF SubmitSheet
      <3> QED
        BY <2>3, <3>1, SendZoneKeeps DEF SubmitSheet
    <2>4. CASE RemoveZone
      <3>1. UNCHANGED <<zones, known, sheet, editorMap, edits, office, sighted>>
        BY <2>4 DEF RemoveZone
      <3> QED
        BY <2>4, <3>1, SendZoneKeeps DEF RemoveZone
    <2>5. ASSUME NEW z \in Zones, OpenZone(z) \/ ProfileRead(z)
          PROVE  FenceInv'
      BY <2>5, OpenKeeps, FenceProfileKeeps
    <2>6. ASSUME NEW p \in Spots, PinPlaced(p)
          PROVE  FenceInv'
      BY <2>6, PlacingKeeps
    <2>7. ASSUME NEW r \in Radii, RadiusChosen(r)
          PROVE  FenceInv'
      BY <2>7, RadiusKeeps
    <2>8. ASSUME NEW q \in requests, SaveHandled(q) \/ RemoveHandled(q) \/ EditAnswered(q)
          PROVE  FenceInv'
      BY <2>8, SaveKeeps, RemovalKeeps, AnswerKeeps
    <2>9. CASE UNCHANGED fenceVars
      BY <2>9, FenceKept
    <2> QED
      BY <2>1, <2>2, <2>3, <2>4, <2>5, <2>6, <2>7, <2>8, <2>9 DEF FenceNext
  <1> QED
    BY <1>1, FenceStarts, PTL DEF FenceSpec

\* The editor's records and drafts are of their types.
THEOREM FencesTyped == FenceSpec => []FenceTypeOK
  <1>1. FenceInv => FenceTypeOK
    <2> SUFFICES ASSUME FenceInv PROVE FenceTypeOK
      OBVIOUS
    <2>1. sheet # NoZone =>
            /\ sheet.of \in Zones \cup {"new"} /\ [lat |-> sheet.lat, lng |-> sheet.lng] \in Spots
            /\ sheet.radius \in Radii /\ {sheet.verified, sheet.moved} \subseteq BOOLEAN
      BY DEF FenceInv, FenceTyped, Sheets, OnMap
    <2> QED
      BY <2>1 DEF FenceInv, FenceTyped, FenceTypeOK
  <1> QED
    BY <1>1, FenceInvariant, PTL

\* A geofence in the database lies on the globe, is no swapped pair, and was
\* drawn where it is when somebody confirmed it; a settled map draws the draft;
\* the phone's badge agrees with the backend's check.
THEOREM FencesAreSound == FenceSpec => []FenceSound
  <1>1. FenceInv => PlacedAsSeen
    BY DEF FenceInv, RecordsPlaced, Placed, PlacedAsSeen, LooksFlipped
  <1>2. FenceInv => CircleIsDraft
    BY DEF FenceInv, MapFollows, CircleIsDraft
  <1>3. FenceInv => BadgeMatchesCheck
    <2> SUFFICES ASSUME FenceInv, office # NoZone, NEW p \in Spots,
                        zones[office.of] = [at |-> GeoPair(office), radius |-> office.radiusMeters]
                 PROVE  BadgeInside(office, p) = InsideGeofence(zones[office.of], p)
      BY DEF BadgeMatchesCheck
    <2>1. office \in Offices /\ zones[office.of] # NoZone
      <3>1. office \in Offices
        BY DEF FenceInv, FenceTyped
      <3>2. PICK f : f = [lat |-> office.lat, lng |-> office.lng, radius |-> office.radiusMeters]
        OBVIOUS
      <3>3. OnMap(f) /\ f.radius \in Radii
        BY <3>1, <3>2 DEF FenceInv, FenceTyped, OnMap, Offices
      <3>4. zones[office.of] = Drawn(f)
        BY <3>2 DEF Drawn, GeoPair
      <3> QED
        BY <3>1, <3>3, <3>4, DrawnIsCircle
    <2>2. p.lat \in Int /\ p.lng \in Int /\ office.lat \in Int /\ office.lng \in Int
      BY <2>1, FenceCircleAssumption DEF Offices
    <2>3. Metres(GeoPair(p), GeoPair(office)) = Metres(GeoPair(p), zones[office.of].at)
      OBVIOUS
    <2> QED
      BY <2>1, <2>2, <2>3 DEF BadgeInside, InsideGeofence
  <1> QED
    BY <1>1, <1>2, <1>3, FenceInvariant, PTL DEF FenceSound

-----------------------------------------------------------------------------
SocketTyped ==
    /\ shell \in 0..MaxMounts /\ shells \in 0..MaxMounts /\ listening \subseteq 1..MaxMounts
    /\ dial \in {"closed", "waiting", "refused", "handshake", "live"}
    /\ presented \in BOOLEAN /\ tokenValid \in BOOLEAN /\ renewing \in BOOLEAN
    /\ renewFailed \in BOOLEAN /\ feedLabel \in {"connecting", "live", "offline"}

SocketInv == SocketTyped /\ HandledOnce /\ FeedLabelTrue

LEMMA SocketStarts == BoardInit => SocketInv
  <1> SUFFICES ASSUME BoardInit PROVE SocketInv
    OBVIOUS
  <1>1. 0 \in 0..MaxMounts
    BY BoardAssumption
  <1>2. SocketTyped
    BY <1>1 DEF BoardInit, SocketTyped
  <1> QED
    BY <1>2 DEF BoardInit, SocketInv, HandledOnce, FeedLabelTrue

LEMMA SocketKeeps == SocketInv /\ [SocketNext]_socketVars => SocketInv'
  <1> SUFFICES ASSUME SocketInv, [SocketNext]_socketVars
               PROVE  SocketInv'
    OBVIOUS
  <1> USE DEF SocketInv, SocketTyped, HandledOnce, FeedLabelTrue
  <1>1. CASE MountShell
    <2>1. /\ dial' = "waiting" /\ feedLabel' = "connecting" /\ listening' = {shell'}
          /\ shell' = shells + 1 /\ shells' = shells + 1 /\ shells + 1 \in 1..MaxMounts
          /\ UNCHANGED <<presented, tokenValid, renewing, renewFailed>>
      BY <1>1, BoardAssumption DEF MountShell, Dialled
    <2> QED
      BY <2>1
  <1>2. CASE UnmountShell
    <2>1. shell' = 0 /\ dial' = "closed" /\ listening' = {} /\ shell' \in 0..MaxMounts
      BY <1>2, BoardAssumption DEF UnmountShell
    <2>2. UNCHANGED <<shells, presented, tokenValid, renewing, renewFailed, feedLabel>>
      BY <1>2 DEF UnmountShell
    <2> QED
      BY <2>1, <2>2
  <1>3. CASE Attempt
    BY <1>3 DEF Attempt
  <1>4. CASE Connected
    BY <1>4 DEF Connected
  <1>5. CASE RefusedForToken
    BY <1>5 DEF RefusedForToken, RenewToken
  <1>6. CASE NetworkDown
    BY <1>6 DEF NetworkDown
  <1>7. CASE TokenExpires
    BY <1>7 DEF TokenExpires
  <1>8. CASE Renewed
    BY <1>8 DEF Renewed
  <1>9. CASE UNCHANGED socketVars
    BY <1>9 DEF socketVars
  <1> QED
    BY <1>1, <1>2, <1>3, <1>4, <1>5, <1>6, <1>7, <1>8, <1>9 DEF SocketNext

-----------------------------------------------------------------------------
\* Pins and places of those on the map; nothing of a page that was left.
MapTyped ==
    /\ presentAt \in [Watched -> Places \cup {Away}] /\ sealed \subseteq Watched
    /\ fencesNow \in 0..MaxFences /\ fencesHeld \in 0..MaxFences /\ drawn \in 0..MaxFences
    /\ \A u \in DOMAIN presence : u \in Watched /\ presence[u] \in Places \cup {Unlocated}
    /\ fetched \in BOOLEAN /\ canvas \in {"none", "loading", "loaded"}
    /\ \A u \in DOMAIN pins : u \in Watched /\ pins[u] \in Places
    /\ onLoad \in Seq(0..MaxFences)

\* A page without a map has no pins, and before the first answer there is none.
PageLeft ==
    /\ canvas = "none" => pins = <<>> /\ lastPlace = <<>> /\ onLoad = <<>> /\ drawn = 0
    /\ ~fetched => presence = <<>>

\* The last handler that waits for the load draws the geofences of the page.
HandlersWait ==
    canvas = "loading" => onLoad # <<>> /\ onLoad[Len(onLoad)] = fencesHeld

MapInv == MapTyped /\ PageLeft /\ HandlersWait /\ PinsFollow /\ FencesDrawn

LEMMA NobodyShown == DOMAIN <<>> = {}
  OBVIOUS

LEMMA MapStarts == BoardInit => MapInv
  <1> SUFFICES ASSUME BoardInit PROVE MapInv
    OBVIOUS
  <1>1. 1 \in 0..MaxFences /\ 0 \in 0..MaxFences 
    BY BoardAssumption
  <1>0. <<>> \in Seq(0..MaxFences)
    OBVIOUS
  <1>2. MapTyped
    BY <1>0, <1>1, NobodyShown DEF BoardInit, MapTyped
  <1> QED
    BY <1>2 DEF BoardInit, MapInv, PageLeft, HandlersWait, PinsFollow, FencesDrawn

\* What pins are set and what places kept of an answer, when they agreed.
LEMMA PinsReconciled ==
    ASSUME MapTyped, pins = lastPlace, NEW told,
           \A u \in DOMAIN told : u \in Watched /\ told[u] \in Places \cup {Unlocated}
    PROVE  /\ Reconciled(told) = PlacesKept(told)
           /\ DOMAIN Reconciled(told) \subseteq DOMAIN told
           /\ Located(told) \subseteq DOMAIN Reconciled(told)
           /\ \A u \in DOMAIN Reconciled(told) :
                 u \in Watched /\ Reconciled(told)[u] \in Places
  <1>1. /\ DOMAIN Reconciled(told) = Located(told) \cup (DOMAIN pins \cap DOMAIN told)
        /\ \A u \in DOMAIN Reconciled(told) :
              Reconciled(told)[u] = IF u \in Located(told) THEN told[u] ELSE pins[u]
    BY DEF Reconciled
  <1>2. Reconciled(told) = PlacesKept(told)
    BY DEF Reconciled, PlacesKept
  <1>3. \A u \in Located(told) : u \in DOMAIN told /\ told[u] # Unlocated
    BY DEF Located
  <1> QED
    BY <1>1, <1>2, <1>3 DEF MapTyped

LEMMA AnswersAreTyped ==
    ASSUME MapTyped
    PROVE  \A u \in DOMAIN LiveMap : u \in Watched /\ LiveMap[u] \in Places \cup {Unlocated}
  BY DEF MapTyped, LiveMap, OpenGeoPoint

LEMMA HandlersAppend ==
    ASSUME MapTyped, canvas # "loaded", NEW v \in 0..MaxFences
    PROVE  /\ FencesDue(v) \in Seq(0..MaxFences) /\ FencesDue(v) # <<>>
           /\ FencesDue(v)[Len(FencesDue(v))] = v
  <1>1. FencesDue(v) = Append(onLoad, v)
    BY DEF FencesDue
  <1> QED
    BY <1>1, AppendProperties DEF MapTyped

LEMMA MapKeeps == MapInv /\ [MapNext]_mapVars => MapInv'
  <1> SUFFICES ASSUME MapInv, [MapNext]_mapVars
               PROVE  MapInv'
    OBVIOUS
  <1> USE DEF MapInv
  <1>1. ASSUME UNCHANGED <<presence, fetched, fencesHeld, canvas, onLoad>>,
               UNCHANGED <<drawn, pins, lastPlace>>,
               presentAt' \in [Watched -> Places \cup {Away}], sealed' \subseteq Watched,
               fencesNow' \in 0..MaxFences
        PROVE  MapInv'
    BY <1>1 DEF MapTyped, PageLeft, HandlersWait, PinsFollow, FencesDrawn
  <1>2. ASSUME NEW u \in Watched, Moves(u)
        PROVE  MapInv'
    <2>1. presentAt' \in [Watched -> Places \cup {Away}]
      BY <1>2 DEF Moves, MapTyped
    <2> QED
      BY <1>1, <1>2, <2>1 DEF Moves, MapTyped
  <1>3. ASSUME NEW u \in Watched, KeyTrouble(u)
        PROVE  MapInv'
    <2>1. sealed' \subseteq Watched
      BY <1>3 DEF KeyTrouble, MapTyped
    <2> QED
      BY <1>1, <1>3, <2>1 DEF KeyTrouble, MapTyped
  <1>4. CASE FenceSaved
    <2>1. fencesNow' \in 0..MaxFences
      BY <1>4, BoardAssumption DEF FenceSaved, MapTyped
    <2> QED
      BY <1>1, <1>4, <2>1 DEF FenceSaved, MapTyped
  <1>5. CASE PresenceFetched
    <2>1. /\ pins' = lastPlace' /\ DOMAIN pins' \subseteq DOMAIN presence'
          /\ Located(presence') \subseteq DOMAIN pins'
          /\ \A u \in DOMAIN presence' :
                u \in Watched /\ presence'[u] \in Places \cup {Unlocated}
          /\ \A u \in DOMAIN pins' : u \in Watched /\ pins'[u] \in Places
          /\ fetched' \in BOOLEAN /\ (~fetched' => presence' = <<>>)
      <3>1. pins = lastPlace
        BY DEF PageLeft, PinsFollow
      <3>2. CASE presence' = LiveMap /\ fetched' = TRUE
                 /\ pins' = Reconciled(presence') /\ lastPlace' = PlacesKept(presence')
        BY <3>1, <3>2, AnswersAreTyped, PinsReconciled
      <3>3. CASE UNCHANGED <<presence, fetched, pins, lastPlace>> /\ canvas # "none"
        BY <3>3 DEF PinsFollow, PageLeft, MapTyped
      <3>4. CASE UNCHANGED <<presence, fetched, pins, lastPlace>> /\ canvas = "none"
        <4>1. presence = <<>> /\ pins = <<>> /\ lastPlace = <<>> /\ ~fetched
          BY <1>5, <3>4 DEF PresenceFetched, PageLeft
        <4>2. Located(<<>>) = {}
          BY NobodyShown DEF Located
        <4> QED
          BY <3>4, <4>1, <4>2, NobodyShown DEF MapTyped
      <3> QED
        BY <1>5, <3>2, <3>3, <3>4 DEF PresenceFetched
    <2>2. UNCHANGED <<presentAt, sealed, fencesNow, fencesHeld, drawn>>
      BY <1>5 DEF PresenceFetched, worldVars
    <2>3. /\ canvas' \in {"loading", "loaded"} /\ onLoad' \in Seq(0..MaxFences)
          /\ canvas' = "loaded" => canvas = "loaded"
      BY <1>5, HandlersAppend DEF PresenceFetched, CanvasOf, MapTyped
    <2>4. HandlersWait'
      <3>1. CASE canvas = "none"
        <4>1. onLoad' = FencesDue(fencesHeld) /\ fencesHeld' = fencesHeld
          BY <1>5, <3>1 DEF PresenceFetched
        <4>2. onLoad' # <<>> /\ onLoad'[Len(onLoad')] = fencesHeld'
          BY <3>1, <4>1, HandlersAppend DEF MapTyped
        <4> QED
          BY <4>2 DEF HandlersWait
      <3>2. CASE canvas # "none"
        BY <1>5, <3>2 DEF PresenceFetched, CanvasOf, HandlersWait
      <3> QED
        BY <3>1, <3>2
    <2>5. MapTyped'
      BY <2>1, <2>2, <2>3 DEF MapTyped
    <2>6. PageLeft' /\ PinsFollow' /\ FencesDrawn'
      BY <2>1, <2>2, <2>3 DEF PageLeft, PinsFollow, FencesDrawn
    <2> QED
      BY <2>4, <2>5, <2>6
  <1>6. CASE FencesFetched
    <2>1. /\ fencesHeld' = fencesNow /\ fencesNow \in 0..MaxFences
          /\ UNCHANGED <<presentAt, sealed, fencesNow, presence, fetched>>
          /\ UNCHANGED <<canvas, pins, lastPlace>>
      BY <1>6 DEF FencesFetched, worldVars, MapTyped
    <2>2. /\ drawn' \in 0..MaxFences /\ (canvas = "loaded" => drawn' = fencesHeld')
          /\ (canvas # "loaded" => drawn' = drawn)
      BY <1>6, <2>1 DEF FencesFetched, MapTyped
    <2>3. CASE canvas = "loading"
      <3>1. onLoad' = FencesDue(fencesNow)
        BY <1>6, <2>1, <2>3 DEF FencesFetched
      <3>2. /\ onLoad' \in Seq(0..MaxFences)
            /\ onLoad' # <<>> /\ onLoad'[Len(onLoad')] = fencesNow
        BY <2>1, <2>3, <3>1, HandlersAppend
      <3>3. MapTyped'
        BY <2>1, <2>2, <3>2 DEF MapTyped
      <3> QED
        BY <2>1, <2>2, <2>3, <3>2, <3>3 DEF PageLeft, HandlersWait, PinsFollow, FencesDrawn
    <2>4. CASE canvas # "loading"
      <3>1. onLoad' = onLoad
        BY <1>6, <2>4 DEF FencesFetched
      <3>2. MapTyped'
        BY <2>1, <2>2, <3>1 DEF MapTyped
      <3> QED
        BY <2>1, <2>2, <2>4, <3>1, <3>2 DEF PageLeft, HandlersWait, PinsFollow, FencesDrawn
    <2> QED
      BY <2>3, <2>4
  <1>7. CASE MapLoaded
    <2>1. /\ drawn' = fencesHeld /\ onLoad' = <<>> /\ canvas = "loading" /\ canvas' = "loaded"
          /\ UNCHANGED <<presentAt, sealed, fencesNow, presence, fetched>>
          /\ UNCHANGED <<fencesHeld, pins, lastPlace>>
      BY <1>7 DEF MapLoaded, worldVars, HandlersWait
    <2>2. <<>> \in Seq(0..MaxFences)
      OBVIOUS
    <2>3. MapTyped'
      BY <2>1, <2>2 DEF MapTyped
    <2> QED
      BY <2>1, <2>3 DEF PageLeft, HandlersWait, PinsFollow, FencesDrawn
  <1>8. CASE LeaveMap
    <2>1. /\ canvas' = "none" /\ onLoad' = <<>> /\ drawn' = 0 /\ pins' = <<>>
          /\ lastPlace' = <<>>
          /\ UNCHANGED <<presentAt, sealed, fencesNow, presence, fetched, fencesHeld>>
      BY <1>8 DEF LeaveMap, worldVars
    <2>2. <<>> \in Seq(0..MaxFences) /\ 0 \in 0..MaxFences
      BY BoardAssumption
    <2>3. MapTyped'
      BY <2>1, <2>2, NobodyShown DEF MapTyped
    <2> QED
      BY <2>1, <2>3 DEF PageLeft, HandlersWait, PinsFollow, FencesDrawn
  <1>9. CASE BackToMap
    <2>1. /\ canvas' = "loading" /\ onLoad' = <<fencesHeld>> /\ pins' = Reconciled(presence)
          /\ lastPlace' = PlacesKept(presence) /\ canvas = "none" /\ fetched
          /\ UNCHANGED <<presentAt, sealed, fencesNow, presence, fetched, fencesHeld>>
          /\ drawn' = drawn
      BY <1>9 DEF BackToMap, worldVars
    <2>2. /\ pins' = lastPlace' /\ DOMAIN pins' \subseteq DOMAIN presence
          /\ Located(presence) \subseteq DOMAIN pins'
          /\ \A u \in DOMAIN pins' : u \in Watched /\ pins'[u] \in Places
      <3>1. pins = lastPlace
        BY <2>1 DEF PageLeft
      <3> QED
        BY <2>1, <3>1, PinsReconciled DEF MapTyped
    <2>3. /\ onLoad' \in Seq(0..MaxFences) /\ onLoad' # <<>>
          /\ onLoad'[Len(onLoad')] = fencesHeld
      BY <2>1 DEF MapTyped
    <2>4. MapTyped'
      BY <2>1, <2>2, <2>3 DEF MapTyped
    <2> QED
      BY <2>1, <2>2, <2>3, <2>4 DEF PageLeft, HandlersWait, PinsFollow, FencesDrawn
  <1>10. CASE UNCHANGED mapVars
    <2>1. /\ UNCHANGED <<presence, fetched, fencesHeld, canvas, onLoad>>
          /\ UNCHANGED <<drawn, pins, lastPlace>>
          /\ UNCHANGED <<presentAt, sealed, fencesNow>>
      BY <1>10 DEF mapVars
    <2> QED
      BY <1>1, <2>1 DEF MapTyped
  <1> QED
    BY <1>2, <1>3, <1>4, <1>5, <1>6, <1>7, <1>8, <1>9, <1>10 DEF MapNext

-----------------------------------------------------------------------------
TileInv ==
    /\ tile \in BOOLEAN /\ fading \in BOOLEAN
    /\ rowsListed \cup seenRows \cup fresh \cup settled \subseteq FeedLogs
    /\ HighlightsAreNews /\ settled \subseteq seenRows
    /\ ~tile => seenRows = {}

LEMMA TileStarts == BoardInit => TileInv
  BY DEF BoardInit, TileInv, HighlightsAreNews

LEMMA RowsKeep ==
    ASSUME TileInv, NEW rows \in SUBSET FeedLogs, RowsChanged(rows, seenRows, settled)
    PROVE  /\ fading' \in BOOLEAN /\ seenRows' \cup fresh' \cup settled' \subseteq FeedLogs
           /\ fresh' \cap settled' = {} /\ fresh' \subseteq seenRows'
           /\ settled' \subseteq seenRows'
  <1> DEFINE incoming == rows \ seenRows
  <1>1. CASE incoming # {} /\ seenRows # {}
    <2>1. /\ seenRows' = seenRows \cup rows /\ fresh' = incoming /\ fading' = TRUE
          /\ settled' = settled \cup fresh
      BY <1>1, Zenon DEF RowsChanged
    <2> QED
      BY <2>1 DEF TileInv, HighlightsAreNews
  <1>2. CASE ~(incoming # {} /\ seenRows # {})
    <2>1. /\ seenRows' = seenRows \cup rows /\ fresh' = fresh /\ fading' = FALSE
          /\ settled' = settled \cup (IF seenRows = {} THEN rows ELSE {})
      BY <1>2 DEF RowsChanged
    <2> QED
      BY <2>1 DEF TileInv, HighlightsAreNews
  <1> QED
    BY <1>1, <1>2

LEMMA TileKeeps == TileInv /\ [TileNext]_tileVars => TileInv'
  <1> SUFFICES ASSUME TileInv, [TileNext]_tileVars
               PROVE  TileInv'
    OBVIOUS
  <1>1. ASSUME NEW rows \in SUBSET FeedLogs, FeedChanges(rows)
        PROVE  TileInv'
    <2>1. CASE tile
      BY <1>1, <2>1, RowsKeep DEF FeedChanges, TileInv, HighlightsAreNews
    <2>2. CASE ~tile
      BY <1>1, <2>2 DEF FeedChanges, TileInv, HighlightsAreNews
    <2> QED
      BY <2>1, <2>2
  <1>2. CASE HighlightEnds
    BY <1>2 DEF HighlightEnds, TileInv, HighlightsAreNews
  <1>3. CASE MountTile
    <2>1. RowsChanged(rowsListed, seenRows, settled) /\ rowsListed \in SUBSET FeedLogs
      BY <1>3 DEF MountTile, TileInv
    <2> QED
      BY <1>3, <2>1, RowsKeep DEF MountTile, TileInv, HighlightsAreNews
  <1>4. CASE LeaveTile
    BY <1>4 DEF LeaveTile, TileInv, HighlightsAreNews
  <1>5. CASE UNCHANGED tileVars
    BY <1>5 DEF tileVars, TileInv, HighlightsAreNews
  <1> QED
    BY <1>1, <1>2, <1>3, <1>4, <1>5 DEF TileNext

-----------------------------------------------------------------------------
BoardInv == SocketInv /\ MapInv /\ TileInv

LEMMA BoardInvariant == BoardSpec => []BoardInv
  BY SocketStarts, SocketKeeps, MapStarts, MapKeeps, TileStarts, TileKeeps, PTL
     DEF BoardSpec, BoardInv

\* The three views keep values of their types.
THEOREM BoardsTyped == BoardSpec => []BoardTypeOK
  <1>1. BoardInv => BoardTypeOK
    BY DEF BoardInv, SocketInv, SocketTyped, MapInv, MapTyped, TileInv, BoardTypeOK
  <1> QED
    BY <1>1, BoardInvariant, PTL

\* The live board: a check-in is handled once, the label tells the connection,
\* pins follow the people present, the geofences are drawn whichever of map and
\* geofences came first, and what is highlighted is news.
THEOREM BoardsAreSound == BoardSpec => []BoardSound
  <1>1. BoardInv => BoardSound
    BY DEF BoardInv, SocketInv, MapInv, TileInv, BoardSound
  <1> QED
    BY <1>1, BoardInvariant, PTL

-----------------------------------------------------------------------------
\* Each of these logs once.
EachOnce(s) == \A i, j \in 1..Len(s) : s[i] = s[j] => i = j

LEMMA InIt ==
    ASSUME NEW s \in Seq(Logs)
    PROVE  \A x : x \in ToSet(s) <=> \E i \in 1..Len(s) : s[i] = x
  <1>1. DOMAIN s = 1..Len(s)
    BY LenProperties
  <1> QED
    BY <1>1 DEF ToSet

\* What shows each log once shows as many as there are.
LEMMA OnceCounted ==
    ASSUME NEW s \in Seq(Logs), EachOnce(s)
    PROVE  Len(s) = Cardinality(ToSet(s))
  <1> DEFINE n == Len(s)
  <1>1. n \in Nat /\ s \in [1..n -> Logs]
    BY LenProperties
  <1>2. IsFiniteSet(1..n) /\ Cardinality(1..n) = n
    <2>1. ASSUME NEW m \in Nat PROVE IsFiniteSet(1..m) /\ Cardinality(1..m) = m
      BY <2>1, FS_Interval
    <2> QED
      BY <1>1, <2>1
  <1>3. s \in Surjection(1..n, ToSet(s))
    <2>1. \A x : x \in ToSet(s) <=> \E i \in 1..n : s[i] = x
      BY InIt
    <2>2. s \in [1..n -> ToSet(s)]
      BY <1>1, <2>1
    <2> QED
      BY <2>1, <2>2 DEF Surjection
  <1>4. s \in Injection(1..n, ToSet(s))
    <2>1. s \in [1..n -> ToSet(s)] /\ DOMAIN s = 1..n
      BY <1>1, <1>3 DEF Surjection
    <2> QED
      BY <2>1 DEF Injection, IsInjective, EachOnce
  <1> QED
    BY <1>2, <1>3, <1>4, FS_Surjection

LEMMA NewestAreFirst ==
    ASSUME NEW s \in Seq(Logs), NEW n \in Nat
    PROVE  /\ Newest(s, n) \in Seq(Logs) /\ Len(Newest(s, n)) <= n
           /\ Len(Newest(s, n)) <= Len(s)
           /\ \A i \in 1..Len(Newest(s, n)) : Newest(s, n)[i] = s[i]
  <1> DEFINE m == IF Len(s) < n THEN Len(s) ELSE n
  <1>1. m \in Nat /\ m <= n /\ m <= Len(s) /\ \A i \in 1..m : s[i] \in Logs
    BY LenProperties
  <1>2. Newest(s, n) = SubSeq(s, 1, m)
    BY DEF Newest
  <1> HIDE DEF m
  <1>3. /\ SubSeq(s, 1, m) \in Seq(Logs) /\ Len(SubSeq(s, 1, m)) = m
        /\ \A i \in 1..m : SubSeq(s, 1, m)[i] = s[i]
    BY <1>1, SubSeqProperties
  <1> QED
    BY <1>1, <1>2, <1>3

LEMMA NewestOnce ==
    ASSUME NEW s \in Seq(Logs), NEW n \in Nat, EachOnce(s)
    PROVE  EachOnce(Newest(s, n))
  <1>1. /\ Len(Newest(s, n)) \in Nat /\ Len(s) \in Nat /\ Len(Newest(s, n)) <= Len(s)
        /\ \A i \in 1..Len(Newest(s, n)) : Newest(s, n)[i] = s[i]
    BY NewestAreFirst, LenProperties
  <1> QED
    BY <1>1 DEF EachOnce

\* On top of others, a log that is not among them.
LEMMA OnTop ==
    ASSUME NEW s \in Seq(Logs), NEW x \in Logs
    PROVE  /\ <<x>> \o s \in Seq(Logs)
           /\ \A y : y \in ToSet(<<x>> \o s) <=> (y = x \/ y \in ToSet(s))
           /\ EachOnce(s) /\ x \notin ToSet(s) => EachOnce(<<x>> \o s)
  <1>1. <<x>> \in Seq(Logs) /\ Len(<<x>>) = 1 /\ <<x>>[1] = x
    OBVIOUS
  <1>2. PICK t : t = <<x>> \o s
    OBVIOUS
  <1>3. /\ t \in Seq(Logs) /\ Len(t) = 1 + Len(s) /\ Len(s) \in Nat
        /\ \A i \in 1..(1 + Len(s)) : t[i] = IF i <= 1 THEN x ELSE s[i - 1]
    BY <1>1, <1>2, ConcatProperties, LenProperties
  <1>4. t[1] = x /\ \A i \in 1..Len(s) : t[i + 1] = s[i]
    BY <1>3
  <1>5. ASSUME NEW y PROVE y \in ToSet(t) <=> (y = x \/ y \in ToSet(s))
    <2>1. y \in ToSet(t) <=> \E i \in 1..Len(t) : t[i] = y
      BY <1>3, InIt
    <2>2. y \in ToSet(s) <=> \E i \in 1..Len(s) : s[i] = y
      BY InIt
    <2>3. ASSUME NEW i \in 1..Len(t), t[i] = y PROVE y = x \/ y \in ToSet(s)
      <3>1. CASE i = 1
        BY <1>4, <2>3, <3>1
      <3>2. CASE i # 1
        <4>1. i - 1 \in 1..Len(s) /\ s[i - 1] = y
          BY <1>3, <2>3, <3>2
        <4> QED
          BY <2>2, <4>1
      <3> QED
        BY <3>1, <3>2
    <2>4. ASSUME NEW i \in 1..Len(s), s[i] = y PROVE y \in ToSet(t)
      <3>1. i + 1 \in 1..Len(t) /\ t[i + 1] = y
        BY <1>3, <1>4, <2>4
      <3> QED
        BY <2>1, <3>1
    <2>5. x = y => y \in ToSet(t)
      <3>1. 1 \in 1..Len(t)
        BY <1>3
      <3> QED
        BY <1>4, <2>1, <3>1
    <2> QED
      BY <2>1, <2>2, <2>3, <2>4, <2>5
  <1>6. ASSUME EachOnce(s), x \notin ToSet(s) PROVE EachOnce(t)
    <2> SUFFICES ASSUME NEW i \in 1..Len(t), NEW j \in 1..Len(t), t[i] = t[j], i < j
                 PROVE  FALSE
      BY <1>3 DEF EachOnce
    <2>1. j - 1 \in 1..Len(s) /\ t[j] = s[j - 1]
      BY <1>3
    <2>2. CASE i = 1
      BY <1>4, <1>6, <2>1, <2>2, InIt
    <2>3. CASE i # 1
      <3>1. i - 1 \in 1..Len(s) /\ t[i] = s[i - 1]
        BY <1>3, <2>3
      <3> QED
        BY <1>6, <2>1, <3>1 DEF EachOnce
    <2> QED
      BY <2>2, <2>3
  <1> QED
    BY <1>2, <1>3, <1>5, <1>6

-----------------------------------------------------------------------------
ReviewDecisions == [log : Logs, previous : SUBSET Logs]

DeskTyped ==
    /\ arrived \in Seq(Logs) /\ wire \in Seq(Logs \X BOOLEAN) /\ feedRows \in Seq(Logs)
    /\ flaggedLogs \subseteq Logs /\ queueCards \subseteq Logs
    /\ feedFetch = {} \/ \E s \in Seq(Logs) : feedFetch = {s}
    /\ queueFetch = {} \/ \E f \in SUBSET Logs : queueFetch = {f}
    /\ queueInvalid \in BOOLEAN /\ deciding \subseteq ReviewDecisions
    /\ reached \subseteq Logs /\ decided \subseteq Logs /\ failed \subseteq Logs

\* Every list is free of duplicates, the shown one and the awaited one short.
ListsOnce ==
    /\ EachOnce(arrived) /\ EachOnce(feedRows) /\ Len(feedRows) <= FeedLimit
    /\ \A s \in feedFetch : EachOnce(s) /\ Len(s) <= FeedLimit

\* Nothing is known of a log that has not arrived.
Arrived ==
    /\ flaggedLogs \cup queueCards \cup reached \cup decided \subseteq ToSet(arrived)
    /\ \A f \in queueFetch : f \subseteq ToSet(arrived)
    /\ \A d \in deciding : d.log \in ToSet(arrived) /\ d.previous \subseteq ToSet(arrived)

\* What was decided is flagged no more, awaited in no answer, and in no cache
\* but one marked invalid.
DecidedIsOff ==
    /\ flaggedLogs \cap (reached \cup decided) = {}
    /\ \A f \in queueFetch : f \cap decided = {}
    /\ ~queueInvalid => queueCards \cap decided = {}

DeskInv == DeskTyped /\ ListsOnce /\ Arrived /\ DecidedIsOff

LEMMA NothingShown == ToSet(<<>>) = {} /\ Len(<<>>) = 0 /\ \A S : <<>> \in Seq(S)
  BY DEF ToSet

LEMMA DeskStarts == ReviewInit => DeskInv
  <1> SUFFICES ASSUME ReviewInit PROVE DeskInv
    OBVIOUS
  <1>1. EachOnce(<<>>)
    BY NothingShown DEF EachOnce
  <1>2. DeskTyped
    BY NothingShown DEF ReviewInit, DeskTyped
  <1>3. ListsOnce
    BY <1>1, NothingShown, ReviewAssumption DEF ReviewInit, ListsOnce
  <1> QED
    BY <1>2, <1>3 DEF ReviewInit, DeskInv, Arrived, DecidedIsOff

\* The feed takes a log in once.
LEMMA MergedOnce ==
    ASSUME NEW x \in Logs, feedRows \in Seq(Logs), EachOnce(feedRows),
           Len(feedRows) <= FeedLimit
    PROVE  Merged(x) \in Seq(Logs) /\ EachOnce(Merged(x)) /\ Len(Merged(x)) <= FeedLimit
  <1>1. CASE x \in ToSet(feedRows)
    BY <1>1 DEF Merged
  <1>2. CASE x \notin ToSet(feedRows)
    <2>1. <<x>> \o feedRows \in Seq(Logs) /\ EachOnce(<<x>> \o feedRows)
      BY <1>2, OnTop
    <2>2. Merged(x) = Newest(<<x>> \o feedRows, FeedLimit)
      BY <1>2 DEF Merged
    <2> QED
      BY <2>1, <2>2, NewestAreFirst, NewestOnce, ReviewAssumption
  <1> QED
    BY <1>1, <1>2

LEMMA EventsLeave ==
    ASSUME NEW w \in Seq(Logs \X BOOLEAN), w # <<>>
    PROVE  /\ Tail(w) \in Seq(Logs \X BOOLEAN)
           /\ Head(w)[1] \in Logs /\ Head(w)[2] \in BOOLEAN
  <1>1. Head(w) \in Logs \X BOOLEAN /\ Tail(w) \in Seq(Logs \X BOOLEAN)
    BY HeadTailProperties
  <1> QED
    BY <1>1

LEMMA DeskKeeps == DeskInv /\ [ReviewNext]_reviewVars => DeskInv'
  <1> SUFFICES ASSUME DeskInv, [ReviewNext]_reviewVars
               PROVE  DeskInv'
    OBVIOUS
  <1> USE DEF DeskInv
  \* The queue and what was decided stay.
  <1>1. ASSUME UNCHANGED <<arrived, flaggedLogs, queueCards, queueFetch, queueInvalid>>,
               UNCHANGED <<deciding, reached, decided, failed>>,
               wire' \in Seq(Logs \X BOOLEAN), feedRows' \in Seq(Logs),
               feedFetch' = {} \/ \E s \in Seq(Logs) : feedFetch' = {s},
               EachOnce(feedRows'), Len(feedRows') <= FeedLimit,
               \A s \in feedFetch' : EachOnce(s) /\ Len(s) <= FeedLimit
        PROVE  DeskInv'
    <2>1. DeskTyped'
      BY <1>1 DEF DeskTyped
    <2>2. ListsOnce'
      BY <1>1 DEF ListsOnce
    <2>3. Arrived'
      BY <1>1 DEF Arrived
    <2>4. DecidedIsOff'
      BY <1>1 DEF DecidedIsOff
    <2> QED
      BY <2>1, <2>2, <2>3, <2>4
  <1>2. ASSUME NEW x \in Logs, FlaggedArrives(x)
        PROVE  DeskInv'
    <2>1. /\ arrived' = <<x>> \o arrived /\ x \notin ToSet(arrived)
          /\ flaggedLogs' = flaggedLogs \cup {x} /\ wire' = Append(wire, <<x, TRUE>>)
          /\ UNCHANGED <<feedRows, feedFetch, queueCards, queueFetch, queueInvalid>>
          /\ UNCHANGED <<deciding, reached, decided, failed>>
      BY <1>2 DEF FlaggedArrives, feedVars, queueVars
    <2>2. /\ arrived' \in Seq(Logs) /\ EachOnce(arrived')
          /\ \A y : y \in ToSet(arrived') <=> (y = x \/ y \in ToSet(arrived))
      BY <2>1, OnTop DEF DeskTyped, ListsOnce
    <2>3. wire' \in Seq(Logs \X BOOLEAN)
      BY <2>1, AppendProperties DEF DeskTyped
    <2>4. DeskTyped'
      BY <2>1, <2>2, <2>3 DEF DeskTyped
    <2>5. ListsOnce'
      BY <2>1, <2>2 DEF ListsOnce
    <2>6. Arrived'
      BY <2>1, <2>2 DEF Arrived
    <2>7. DecidedIsOff'
      BY <2>1 DEF Arrived, DecidedIsOff
    <2> QED
      BY <2>4, <2>5, <2>6, <2>7
  <1>3. ASSUME NEW x \in Logs, DecideCard(x)
        PROVE  DeskInv'
    <2>1. /\ x \in queueCards /\ queueCards' = queueCards \ {x} /\ queueFetch' = {}
          /\ deciding' = deciding \cup {[log |-> x, previous |-> queueCards]}
          /\ failed' = failed \ {x}
          /\ UNCHANGED <<arrived, flaggedLogs, wire, feedRows, feedFetch>>
          /\ UNCHANGED <<queueInvalid, reached, decided>>
      BY <1>3 DEF DecideCard, feedVars
    <2>2. DeskTyped'
      BY <2>1 DEF DeskTyped, ReviewDecisions
    <2>3. ListsOnce'
      BY <2>1 DEF ListsOnce
    <2>4. Arrived'
      BY <2>1 DEF Arrived
    <2>5. DecidedIsOff'
      BY <2>1 DEF DecidedIsOff
    <2> QED
      BY <2>2, <2>3, <2>4, <2>5
  <1>4. ASSUME NEW x \in Logs, BackendReviews(x)
        PROVE  DeskInv'
    <2>1. /\ reached' = reached \cup {x} /\ flaggedLogs' = flaggedLogs \ {x}
          /\ wire' = Append(wire, <<x, FALSE>>) /\ x \in ToSet(arrived)
          /\ UNCHANGED <<arrived, feedRows, feedFetch, queueCards, queueFetch, queueInvalid>>
          /\ UNCHANGED <<deciding, decided, failed>>
      BY <1>4 DEF BackendReviews, feedVars, queueVars, Arrived
    <2>2. wire' \in Seq(Logs \X BOOLEAN)
      BY <2>1, AppendProperties DEF DeskTyped
    <2>3. DeskTyped'
      BY <2>1, <2>2 DEF DeskTyped
    <2>4. ListsOnce'
      BY <2>1 DEF ListsOnce
    <2>5. Arrived'
      BY <2>1 DEF Arrived
    <2>6. DecidedIsOff'
      BY <2>1 DEF DecidedIsOff
    <2> QED
      BY <2>3, <2>4, <2>5, <2>6
  <1>5. CASE EventLost
    <2>1. /\ wire # <<>> /\ wire' = Tail(wire)
          /\ UNCHANGED <<arrived, flaggedLogs, queueCards, queueFetch, queueInvalid>>
          /\ UNCHANGED <<deciding, reached, decided, failed>>
          /\ UNCHANGED <<feedRows, feedFetch>>
      BY <1>5 DEF EventLost, feedVars, queueVars
    <2>2. wire' \in Seq(Logs \X BOOLEAN)
      BY <2>1, EventsLeave DEF DeskTyped
    <2> QED
      BY <1>1, <2>1, <2>2 DEF DeskTyped, ListsOnce
  <1>6. CASE OnAttendance
    <2>1. /\ wire # <<>> /\ wire' = Tail(wire) /\ feedRows' = Merged(Head(wire)[1])
          /\ UNCHANGED <<arrived, flaggedLogs, feedFetch>>
          /\ UNCHANGED <<deciding, reached, decided, failed>>
      BY <1>6 DEF OnAttendance
    <2>2. wire' \in Seq(Logs \X BOOLEAN) /\ Head(wire)[1] \in Logs
      BY <2>1, EventsLeave DEF DeskTyped
    <2>3. feedRows' \in Seq(Logs) /\ EachOnce(feedRows') /\ Len(feedRows') <= FeedLimit
      BY <2>1, <2>2, MergedOnce DEF DeskTyped, ListsOnce
    <2>4. CASE UNCHANGED queueVars
      <3>1. UNCHANGED <<queueCards, queueFetch, queueInvalid>>
        BY <2>4 DEF queueVars
      <3> QED
        BY <1>1, <2>1, <2>2, <2>3, <3>1 DEF DeskTyped, ListsOnce
    <2>5. CASE InvalidateQueue
      <3>1. queueInvalid' = TRUE /\ queueFetch' = {flaggedLogs} /\ queueCards' = queueCards
        BY <2>1, <2>5 DEF InvalidateQueue
      <3>2. DeskTyped'
        BY <2>1, <2>2, <2>3, <3>1 DEF DeskTyped
      <3>3. ListsOnce'
        BY <2>1, <2>3 DEF ListsOnce
      <3>4. Arrived'
        BY <2>1, <3>1 DEF Arrived
      <3>5. DecidedIsOff'
        BY <2>1, <3>1 DEF DecidedIsOff
      <3> QED
        BY <3>2, <3>3, <3>4, <3>5
    <2> QED
      BY <1>6, <2>4, <2>5 DEF OnAttendance
  <1>7. CASE FetchFeed
    <2>1. /\ feedFetch' = {Newest(arrived, FeedLimit)}
          /\ UNCHANGED <<arrived, flaggedLogs, queueCards, queueFetch, queueInvalid>>
          /\ UNCHANGED <<deciding, reached, decided, failed>>
          /\ UNCHANGED <<wire, feedRows>>
      BY <1>7 DEF FetchFeed, queueVars
    <2>2. /\ Newest(arrived, FeedLimit) \in Seq(Logs) /\ EachOnce(Newest(arrived, FeedLimit))
          /\ Len(Newest(arrived, FeedLimit)) <= FeedLimit
      BY NewestAreFirst, NewestOnce, ReviewAssumption DEF DeskTyped, ListsOnce
    <2> QED
      BY <1>1, <2>1, <2>2 DEF DeskTyped, ListsOnce
  <1>8. CASE FeedAnswer
    <2>1. /\ feedRows' \in feedFetch \cup {feedRows} /\ feedFetch' = {} /\ wire' = wire
          /\ UNCHANGED <<arrived, flaggedLogs, queueCards, queueFetch, queueInvalid>>
          /\ UNCHANGED <<deciding, reached, decided, failed>>
      BY <1>8 DEF FeedAnswer, queueVars
    <2>2. feedRows' \in Seq(Logs) /\ EachOnce(feedRows') /\ Len(feedRows') <= FeedLimit
      BY <2>1 DEF DeskTyped, ListsOnce
    <2> QED
      BY <1>1, <2>1, <2>2 DEF DeskTyped
  <1>9. CASE FetchQueueCards
    <2>1. /\ queueFetch' = {flaggedLogs}
          /\ UNCHANGED <<arrived, flaggedLogs, wire, feedRows, feedFetch, queueCards>>
          /\ UNCHANGED <<queueInvalid, deciding, reached, decided, failed>>
      BY <1>9 DEF FetchQueueCards, feedVars
    <2>2. DeskTyped'
      BY <2>1 DEF DeskTyped
    <2>3. ListsOnce'
      BY <2>1 DEF ListsOnce
    <2>4. Arrived'
      BY <2>1 DEF Arrived
    <2>5. DecidedIsOff'
      BY <2>1 DEF DecidedIsOff
    <2> QED
      BY <2>2, <2>3, <2>4, <2>5
  <1>10. CASE QueueAnswer
    <2>1. /\ queueFetch' = {}
          /\ \/ queueCards' \in queueFetch /\ queueInvalid' = FALSE
             \/ UNCHANGED <<queueCards, queueInvalid>>
          /\ UNCHANGED <<arrived, flaggedLogs, wire, feedRows, feedFetch>>
          /\ UNCHANGED <<deciding, reached, decided, failed>>
      BY <1>10 DEF QueueAnswer, feedVars
    <2>2. DeskTyped'
      BY <2>1 DEF DeskTyped
    <2>3. ListsOnce'
      BY <2>1 DEF ListsOnce
    <2>4. Arrived'
      BY <2>1 DEF Arrived
    <2>5. DecidedIsOff'
      BY <2>1 DEF DecidedIsOff
    <2> QED
      BY <2>2, <2>3, <2>4, <2>5
  <1>11. ASSUME NEW d \in deciding, Settle(d)
         PROVE  DeskInv'
    <2>1. /\ deciding' = deciding \ {d} /\ reached' = reached \ {d.log}
          /\ queueInvalid' = TRUE /\ queueFetch' = {flaggedLogs}
          /\ UNCHANGED <<arrived, flaggedLogs, wire, feedRows, feedFetch>>
          /\ d \in ReviewDecisions
      BY <1>11 DEF Settle, feedVars, DeskTyped
    <2>2. \/ /\ d.log \in reached /\ decided' = decided \cup {d.log}
             /\ UNCHANGED <<queueCards, failed>>
          \/ /\ failed' = failed \cup {d.log} /\ queueCards' = d.previous
             /\ UNCHANGED decided
      BY <1>11 DEF Settle
    <2>3. DeskTyped'
      BY <2>1, <2>2 DEF DeskTyped, ReviewDecisions
    <2>4. ListsOnce'
      BY <2>1 DEF ListsOnce
    <2>5. Arrived'
      BY <2>1, <2>2 DEF Arrived
    <2>6. DecidedIsOff'
      BY <2>1, <2>2 DEF DecidedIsOff
    <2> QED
      BY <2>3, <2>4, <2>5, <2>6
  <1>12. CASE UNCHANGED reviewVars
    <2>1. /\ UNCHANGED <<arrived, flaggedLogs, queueCards, queueFetch, queueInvalid>>
          /\ UNCHANGED <<deciding, reached, decided, failed>>
          /\ UNCHANGED <<wire, feedRows, feedFetch>>
      BY <1>12 DEF reviewVars, feedVars, queueVars
    <2> QED
      BY <1>1, <2>1 DEF DeskTyped, ListsOnce
  <1> QED
    BY <1>2, <1>3, <1>4, <1>5, <1>6, <1>7, <1>8, <1>9, <1>10, <1>11, <1>12 DEF ReviewNext

LEMMA DeskInvariant == ReviewSpec => []DeskInv
  BY DeskStarts, DeskKeeps, PTL DEF ReviewSpec

\* Caches, events and decisions are of their types; a query has one fetch.
THEOREM DesksTyped == ReviewSpec => []ReviewTypeOK
  <1>1. DeskInv => ReviewTypeOK
    <2> SUFFICES ASSUME DeskInv PROVE ReviewTypeOK
      OBVIOUS
    <2>1. Cardinality({}) <= 1 /\ \A x : Cardinality({x}) <= 1
      <3>1. Cardinality({}) = 0
        BY FS_EmptySet
      <3>2. \A x : Cardinality({x}) = 1
        BY FS_Singleton
      <3>3. ASSUME NEW c, c = 0 \/ c = 1 PROVE c <= 1
        BY <3>3
      <3> QED
        BY <3>1, <3>2, <3>3
    <2>2. ASSUME NEW S, NEW F, F = {} \/ \E x \in S : F = {x}
          PROVE  F \subseteq S /\ Cardinality(F) <= 1
      BY <2>1, <2>2
    <2>3. feedFetch \subseteq Seq(Logs) /\ Cardinality(feedFetch) <= 1
      <3>1. feedFetch = {} \/ \E x \in Seq(Logs) : feedFetch = {x}
        BY DEF DeskInv, DeskTyped
      <3> QED
        BY <2>2, <3>1
    <2>4. queueFetch \subseteq SUBSET Logs /\ Cardinality(queueFetch) <= 1
      <3>1. queueFetch = {} \/ \E x \in SUBSET Logs : queueFetch = {x}
        BY DEF DeskInv, DeskTyped
      <3> QED
        BY <2>2, <3>1
    <2> QED
      BY <2>3, <2>4 DEF DeskInv, DeskTyped, ReviewDecisions, ReviewTypeOK
  <1> QED
    BY <1>1, DeskInvariant, PTL

\* However fetches, pushes, lost events and decisions interleave, the feed
\* shows a log once and a confirmed review is not offered again at rest.
THEOREM QueuesDoAgree == ReviewSpec => []QueuesAgree
  <1>1. DeskInv => FeedShowsOnce
    BY OnceCounted DEF DeskInv, DeskTyped, ListsOnce, FeedShowsOnce
  <1>2. DeskInv => ConfirmedNotOffered
    BY DEF DeskInv, DecidedIsOff, ConfirmedNotOffered
  <1> QED
    BY <1>1, <1>2, DeskInvariant, PTL DEF QueuesAgree

-----------------------------------------------------------------------------
\* What is being uploaded fits, and lies in the bucket once it has been.
OnlyWhatFits == \A n \in Picks : uploads[n].stage = "putting" => uploads[n].size = "fits"

\* Whatever was chosen or handed on can be read.
AllReadable ==
    /\ chosen # <<>> => Readable(chosen)
    /\ \A url \in handed : Readable(url)

\* The one widget of a form is open; as long as nothing is blurred there is one
\* upload at a time, and the widget shows how far it is.
WidgetFollows ==
    parent = "form" =>
        /\ view.open /\ opens = 1
        /\ \A n \in Picks : uploads[n].stage # "none" => uploads[n].widget = 1
        /\ ~blurred =>
             /\ \A n, m \in UnderWay : n = m
             /\ \A n \in Picks :
                   /\ uploads[n].stage = "compressing" => view.phase = "compressing"
                   /\ uploads[n].stage \in {"signing", "putting"} =>
                        view.phase = "uploading" /\ view.preview = n

PickInv == PickTypeOK /\ OnlyWhatFits /\ AllReadable /\ WidgetFollows /\ ShownIsChosen

LEMMA PickStarts == PickInit => PickInv
  <1> SUFFICES ASSUME PickInit PROVE PickInv
    OBVIOUS
  <1>1. \A n \in Picks : uploads[n] = NoUpload
    BY DEF PickInit
  <1>2. 0 \in 0..MaxOpens /\ 1 \in 0..MaxOpens /\ 0 \in 0..MaxPicks /\ NoUpload \in Uploads
    <2>1. 0 \in 0..MaxOpens /\ 1 \in 0..MaxOpens /\ 0 \in 0..MaxPicks
      BY PickAssumption
    <2> QED
      BY <2>1 DEF NoUpload, Uploads, Sizes
  <1>3. view = [open |-> (parent = "form"), phase |-> "idle", preview |-> Nothing]
    BY DEF PickInit, EmptyWidget
  <1>4. view \in [open : BOOLEAN, phase : Phases, preview : Picks \cup {Nothing}]
    <2>1. (parent = "form") \in BOOLEAN
      OBVIOUS
    <2> QED
      BY <1>3, <2>1 DEF Phases
  <1>5. PickTypeOK
    <2>1. uploads \in [Picks -> Uploads]
      BY <1>2 DEF PickInit
    <2>2. opens \in 0..MaxOpens /\ picked \in 0..MaxPicks
      BY <1>2 DEF PickInit
    <2>3. chosen = <<>> /\ bucket = {} /\ saving = {} /\ handed = {} /\ blurred \in BOOLEAN
      BY DEF PickInit
    <2>5. <<>> \in Urls
      BY DEF Urls
    <2>4. parent \in {"form", "profile"} /\ publicBase \in BOOLEAN
      BY DEF PickInit
    <2> QED
      BY <1>4, <2>1, <2>2, <2>3, <2>4, <2>5 DEF PickTypeOK
  <1>6. OnlyWhatFits /\ AllReadable
    BY <1>1 DEF PickInit, OnlyWhatFits, AllReadable, NoUpload
  <1>7. WidgetFollows
    BY <1>1, <1>3 DEF PickInit, WidgetFollows, UnderWay, NoUpload
  <1>8. ShownIsChosen
    BY <1>3 DEF PickInit, ShownIsChosen
  <1> QED
    BY <1>5, <1>6, <1>7, <1>8 DEF PickInv

LEMMA StillReadable ==
    ASSUME NEW url, Readable(url), bucket \subseteq bucket'
    PROVE  Readable(url)'
  BY DEF Readable

\* The keys of uploads are managed keys.
LEMMA KeysManaged ==
    ASSUME NEW n \in Picks
    PROVE  /\ PhotoKeyOf(n) \in PhotoKeys /\ Managed(PhotoKeyOf(n))
           /\ <<"https", PhotoKeyOf(n)>> \in Urls /\ <<>> \in Urls
           /\ ObjectKeyOf(<<"https", PhotoKeyOf(n)>>) = {PhotoKeyOf(n)}
  <1>1. PhotoKeyOf(n) \in PhotoKeys
    BY DEF PhotoKeyOf, PhotoKeys
  <1>2. Managed(PhotoKeyOf(n))
    BY DEF PhotoKeyOf, Managed
  <1>3. <<"https", PhotoKeyOf(n)>> # <<>>
    OBVIOUS
  <1> QED
    BY <1>1, <1>2, <1>3 DEF Urls, ObjectKeyOf

\* One upload goes on: it keeps its widget, and fits when it is put.
UploadMoves(n, u) ==
    /\ u \in Uploads /\ uploads' = [uploads EXCEPT ![n] = u]
    /\ u.widget = uploads[n].widget \/ u.stage = "none"
    /\ u.stage = "putting" => u.size = "fits"

LEMMA UploadsTyped ==
    ASSUME PickInv, NEW n \in Picks, NEW u, UploadMoves(n, u)
    PROVE  /\ uploads' \in [Picks -> Uploads] /\ uploads'[n] = u
           /\ \A m \in Picks : m # n => uploads'[m] = uploads[m]
           /\ OnlyWhatFits'
           /\ (parent = "form" /\ uploads[n].stage # "none" =>
                 \A m \in Picks : uploads'[m].stage # "none" => uploads'[m].widget = 1)
  <1>1. /\ uploads' \in [Picks -> Uploads] /\ uploads'[n] = u
        /\ \A m \in Picks : m # n => uploads'[m] = uploads[m]
    BY DEF UploadMoves, PickInv, PickTypeOK
  <1>2. OnlyWhatFits'
    BY <1>1 DEF UploadMoves, PickInv, OnlyWhatFits
  <1>3. ASSUME parent = "form", uploads[n].stage # "none"
        PROVE  \A m \in Picks : uploads'[m].stage # "none" => uploads'[m].widget = 1
    BY <1>1, <1>3 DEF UploadMoves, PickInv, WidgetFollows
  <1> QED
    BY <1>1, <1>2, <1>3

\* What a widget shows of an upload of its own.
LEMMA ShownTyped ==
    ASSUME PickInv, NEW n \in Picks, NEW phase \in Phases, NEW preview \in Picks \cup {Nothing},
           Shown(n, phase, preview)
    PROVE  /\ view' \in [open : BOOLEAN, phase : Phases, preview : Picks \cup {Nothing}]
           /\ parent = "form" /\ uploads[n].stage # "none" =>
                view'.open /\ view'.phase = phase /\ view'.preview = preview
  <1>1. view \in [open : BOOLEAN, phase : Phases, preview : Picks \cup {Nothing}]
    BY DEF PickInv, PickTypeOK
  <1>2. CASE view.open /\ uploads[n].widget = opens
    <2>1. view' = [view EXCEPT !.phase = phase, !.preview = preview]
      BY <1>2 DEF Shown
    <2> QED
      BY <1>1, <1>2, <2>1
  <1>3. CASE ~(view.open /\ uploads[n].widget = opens)
    BY <1>1, <1>3 DEF Shown, PickInv, WidgetFollows
  <1> QED
    BY <1>2, <1>3

\* A step that leaves what was chosen and handed on, and loses no object.
LEMMA ReadableStays ==
    ASSUME PickInv, bucket \subseteq bucket', UNCHANGED <<chosen, handed>>
    PROVE  AllReadable'
  BY StillReadable DEF PickInv, AllReadable

LEMMA PickKeeps ==
    ASSUME PickInv, Pick PROVE PickInv'
  <1> DEFINE u == [stage |-> "compressing", widget |-> opens, size |-> "fits"]
  <1>1. /\ view.open /\ picked < MaxPicks /\ picked' = picked + 1
        /\ uploads' = [uploads EXCEPT ![picked + 1] = u]
        /\ view' = [view EXCEPT !.phase = "compressing"]
        /\ blurred' = (blurred \/ UnderWay # {})
        /\ UNCHANGED <<parent, publicBase, opens, bucket, chosen, saving, handed>>
    BY DEF Pick
  <1>2. picked + 1 \in Picks /\ picked' \in 0..MaxPicks /\ opens \in 0..MaxOpens
    BY <1>1, PickAssumption DEF PickInv, PickTypeOK, Picks
  <1>3. /\ view' \in [open : BOOLEAN, phase : Phases, preview : Picks \cup {Nothing}]
        /\ view'.open = view.open /\ view'.phase = "compressing"
    BY <1>1 DEF PickInv, PickTypeOK, Phases
  <1>4. u \in Uploads
    BY <1>2 DEF Uploads, Sizes
  <1>5. /\ uploads' \in [Picks -> Uploads] /\ uploads'[picked + 1] = u
        /\ \A m \in Picks : m # picked + 1 => uploads'[m] = uploads[m]
    BY <1>1, <1>2, <1>4 DEF PickInv, PickTypeOK
  <1>6. blurred' \in BOOLEAN
    BY <1>1 DEF PickInv, PickTypeOK
  <1>7. PickTypeOK'
    BY <1>1, <1>2, <1>3, <1>5, <1>6 DEF PickInv, PickTypeOK
  <1>8. OnlyWhatFits'
    BY <1>5 DEF PickInv, OnlyWhatFits
  <1>9. AllReadable'
    BY <1>1, ReadableStays
  <1>10. WidgetFollows'
    <2>1. ASSUME parent = "form"
          PROVE  \A n \in Picks : uploads'[n].stage # "none" => uploads'[n].widget = 1
      BY <1>2, <1>5, <2>1 DEF PickInv, WidgetFollows
    <2>2. ASSUME ~blurred'
          PROVE  \A n \in Picks : n # picked + 1 => uploads'[n].stage = "none"
      BY <1>1, <1>5, <2>2 DEF UnderWay
    <2>3. UnderWay' = {n \in Picks : uploads'[n].stage # "none"}
      BY DEF UnderWay
    <2> QED
      BY <1>1, <1>2, <1>3, <1>5, <2>1, <2>2, <2>3 DEF PickInv, WidgetFollows
  <1>11. ShownIsChosen'
    BY <1>1, <1>3 DEF ShownIsChosen
  <1> QED
    BY <1>7, <1>8, <1>9, <1>10, <1>11 DEF PickInv

LEMMA PickRefusedKeeps ==
    ASSUME PickInv, PickRefused PROVE PickInv'
  <1>1. /\ view.open /\ view' = [view EXCEPT !.phase = "error"]
        /\ blurred' = (blurred \/ UnderWay # {})
        /\ parent' = parent /\ publicBase' = publicBase /\ opens' = opens /\ picked' = picked
        /\ uploads' = uploads /\ bucket' = bucket /\ chosen' = chosen /\ saving' = saving
        /\ handed' = handed
    BY DEF PickRefused
  <1>2. /\ view' \in [open : BOOLEAN, phase : Phases, preview : Picks \cup {Nothing}]
        /\ view'.open = view.open /\ view'.phase = "error"
    BY <1>1 DEF PickInv, PickTypeOK, Phases
  <1>3. blurred' \in BOOLEAN
    BY <1>1 DEF PickInv, PickTypeOK
  <1>4. PickTypeOK'
    BY <1>1, <1>2, <1>3 DEF PickInv, PickTypeOK
  <1>5. OnlyWhatFits' /\ AllReadable'
    BY <1>1, ReadableStays DEF PickInv, OnlyWhatFits
  <1>6. WidgetFollows'
    <2>1. ~blurred' => \A n \in Picks : uploads'[n].stage = "none"
      BY <1>1 DEF UnderWay
    <2> QED
      BY <1>1, <1>2, <2>1 DEF PickInv, WidgetFollows, UnderWay
  <1>7. ShownIsChosen'
    BY <1>1, <1>2 DEF ShownIsChosen
  <1> QED
    BY <1>4, <1>5, <1>6, <1>7 DEF PickInv

\* In the form, unblurred, an upload is the only one under way.
LEMMA OneUnderWay ==
    ASSUME PickInv, parent = "form", ~blurred, NEW n \in Picks, uploads[n].stage # "none"
    PROVE  \A m \in Picks : m # n => uploads[m].stage = "none"
  BY DEF PickInv, WidgetFollows, UnderWay

LEMMA CompressedKeeps ==
    ASSUME PickInv, NEW n \in Picks, Compressed(n) PROVE PickInv'
  <1>1. PICK size \in Sizes :
          uploads' = [uploads EXCEPT ![n].stage = "signing", ![n].size = size]
    BY DEF Compressed
  <1> DEFINE u == [uploads[n] EXCEPT !.stage = "signing", !.size = size]
  <1>2. /\ uploads[n].stage = "compressing" /\ Shown(n, "uploading", n)
        /\ parent' = parent /\ publicBase' = publicBase /\ opens' = opens /\ picked' = picked
        /\ bucket' = bucket /\ chosen' = chosen /\ saving' = saving
        /\ handed' = handed /\ blurred' = blurred
    BY DEF Compressed
  <1>3. uploads[n] \in Uploads /\ uploads \in [Picks -> Uploads]
    BY DEF PickInv, PickTypeOK
  <1>4. u \in Uploads /\ u.widget = uploads[n].widget /\ u.stage = "signing"
    BY <1>1, <1>3 DEF Uploads
  <1>5. uploads' = [uploads EXCEPT ![n] = u]
    BY <1>1, <1>3
  <1>6. UploadMoves(n, u)
    BY <1>4, <1>5 DEF UploadMoves
  <1>7. /\ view' \in [open : BOOLEAN, phase : Phases, preview : Picks \cup {Nothing}]
        /\ parent = "form" => view'.open /\ view'.phase = "uploading" /\ view'.preview = n
    BY <1>2, ShownTyped DEF Phases
  <1>8. PickTypeOK'
    BY <1>2, <1>6, <1>7, UploadsTyped DEF PickInv, PickTypeOK
  <1>9. OnlyWhatFits' /\ AllReadable'
    BY <1>2, <1>6, UploadsTyped, ReadableStays
  <1>10. WidgetFollows'
    <2>1. ASSUME parent = "form", ~blurred
          PROVE  \A m \in Picks : m # n => uploads'[m].stage = "none"
      BY <1>2, <1>6, <2>1, OneUnderWay, UploadsTyped
    <2>2. uploads'[n].stage = "signing"
      BY <1>4, <1>6, UploadsTyped
    <2>3. parent = "form" => \A m \in Picks : uploads'[m].stage # "none" => uploads'[m].widget = 1
      BY <1>2, <1>6, UploadsTyped
    <2>4. parent = "form" => opens = 1
      BY DEF PickInv, WidgetFollows
    <2> QED
      BY <1>2, <1>7, <2>1, <2>2, <2>3, <2>4 DEF WidgetFollows, UnderWay
  <1>11. ShownIsChosen'
    BY <1>2, <1>7 DEF ShownIsChosen
  <1> QED
    BY <1>8, <1>9, <1>10, <1>11 DEF PickInv

LEMMA PresignedKeeps ==
    ASSUME PickInv, NEW n \in Picks, Presigned(n) PROVE PickInv'
  <1> DEFINE u == [uploads[n] EXCEPT !.stage = "putting"]
  <1>1. /\ uploads[n].stage = "signing" /\ uploads[n].size = "fits"
        /\ uploads' = [uploads EXCEPT ![n].stage = "putting"]
    BY DEF Presigned, Signable
  <1>2. /\ parent' = parent /\ publicBase' = publicBase /\ opens' = opens /\ picked' = picked
        /\ view' = view /\ bucket' = bucket /\ chosen' = chosen /\ saving' = saving
        /\ handed' = handed /\ blurred' = blurred
    BY DEF Presigned
  <1>3. uploads[n] \in Uploads /\ uploads \in [Picks -> Uploads]
    BY DEF PickInv, PickTypeOK
  <1>4. u \in Uploads /\ u.widget = uploads[n].widget /\ u.stage = "putting" /\ u.size = "fits"
    BY <1>1, <1>3 DEF Uploads
  <1>5. uploads' = [uploads EXCEPT ![n] = u]
    BY <1>1, <1>3
  <1>6. UploadMoves(n, u)
    BY <1>4, <1>5 DEF UploadMoves
  <1>8. PickTypeOK'
    BY <1>2, <1>6, UploadsTyped DEF PickInv, PickTypeOK
  <1>9. OnlyWhatFits' /\ AllReadable'
    BY <1>2, <1>6, UploadsTyped, ReadableStays
  <1>10. WidgetFollows'
    <2>1. ASSUME parent = "form", ~blurred
          PROVE  /\ \A m \in Picks : m # n => uploads'[m].stage = "none"
                 /\ view.phase = "uploading" /\ view.preview = n
      BY <1>1, <1>2, <1>6, <2>1, OneUnderWay, UploadsTyped DEF PickInv, WidgetFollows
    <2>2. uploads'[n].stage = "putting"
      BY <1>4, <1>6, UploadsTyped
    <2>3. parent = "form" => \A m \in Picks : uploads'[m].stage # "none" => uploads'[m].widget = 1
      BY <1>1, <1>6, UploadsTyped
    <2>4. parent = "form" => opens = 1 /\ view.open
      BY DEF PickInv, WidgetFollows
    <2> QED
      BY <1>2, <2>1, <2>2, <2>3, <2>4 DEF WidgetFollows, UnderWay
  <1>11. ShownIsChosen'
    BY <1>2 DEF PickInv, ShownIsChosen, PublicUrl
  <1> QED
    BY <1>8, <1>9, <1>10, <1>11 DEF PickInv

\* An upload that ends, however it does, leaves the others as they were.
LEMMA EndedTyped ==
    ASSUME PickInv, NEW n \in Picks, Ended(n), uploads[n].stage # "none"
    PROVE  /\ uploads' \in [Picks -> Uploads] /\ uploads'[n].stage = "none"
           /\ OnlyWhatFits'
           /\ (parent = "form" =>
                 \A m \in Picks : uploads'[m].stage # "none" => uploads'[m].widget = 1)
           /\ (parent = "form" /\ ~blurred => \A m \in Picks : uploads'[m].stage = "none")
  <1>1. NoUpload \in Uploads /\ NoUpload.stage = "none"
    <2>1. 0 \in 0..MaxOpens
      BY PickAssumption
    <2> QED
      BY <2>1 DEF NoUpload, Uploads, Sizes
  <1>2. UploadMoves(n, NoUpload)
    BY <1>1 DEF UploadMoves, Ended
  <1>3. uploads'[n] = NoUpload /\ \A m \in Picks : m # n => uploads'[m] = uploads[m]
    BY <1>2, UploadsTyped
  <1>4. parent = "form" /\ ~blurred => \A m \in Picks : uploads'[m].stage = "none"
    BY <1>1, <1>3, OneUnderWay
  <1> QED
    BY <1>1, <1>2, <1>3, <1>4, UploadsTyped

LEMMA UploadFailedKeeps ==
    ASSUME PickInv, NEW n \in Picks, UploadFailed(n) PROVE PickInv'
  <1> DEFINE object == [key |-> PhotoKeyOf(n), size |-> uploads[n].size]
  <1>1. /\ uploads[n].stage # "none" /\ Ended(n) /\ Shown(n, "error", view.preview)
        /\ bucket' = bucket \/ bucket' = bucket \cup {object}
        /\ parent' = parent /\ publicBase' = publicBase /\ opens' = opens /\ picked' = picked
        /\ chosen' = chosen /\ saving' = saving
        /\ handed' = handed /\ blurred' = blurred
    BY DEF UploadFailed
  <1>2. object \in [key : PhotoKeys, size : Sizes]
    BY KeysManaged DEF PickInv, PickTypeOK, Uploads
  <1>3. view.preview \in Picks \cup {Nothing}
    BY DEF PickInv, PickTypeOK
  <1>4. /\ view' \in [open : BOOLEAN, phase : Phases, preview : Picks \cup {Nothing}]
        /\ parent = "form" => view'.open /\ view'.phase = "error"
    BY <1>1, <1>3, ShownTyped DEF Phases
  <1>5. bucket' \subseteq [key : PhotoKeys, size : Sizes]
    BY <1>1, <1>2 DEF PickInv, PickTypeOK
  <1>6. PickTypeOK'
    BY <1>1, <1>4, <1>5, EndedTyped DEF PickInv, PickTypeOK
  <1>7. OnlyWhatFits'
    BY <1>1, EndedTyped
  <1>8. AllReadable'
    BY <1>1, ReadableStays
  <1>9. WidgetFollows'
    <2>1. parent = "form" => opens = 1
      BY DEF PickInv, WidgetFollows
    <2> QED
      BY <1>1, <1>4, <2>1, EndedTyped DEF WidgetFollows, UnderWay
  <1>10. ShownIsChosen'
    BY <1>1, <1>4 DEF ShownIsChosen
  <1> QED
    BY <1>6, <1>7, <1>8, <1>9, <1>10 DEF PickInv

\* What OnChange sets, given an address that can be read, or ''.
LEMMA ChangeTyped ==
    ASSUME PickInv, NEW url \in Urls, OnChange(url), bucket \subseteq bucket',
           url # <<>> => Readable(url)'
    PROVE  /\ chosen' \in Urls /\ saving' \subseteq Urls /\ handed' \subseteq Urls
           /\ AllReadable'
           /\ parent = "form" => chosen' = url
  <1>1. chosen \in Urls /\ saving \subseteq Urls /\ handed \subseteq Urls
    BY DEF PickInv, PickTypeOK
  <1>2. /\ \A old : Readable(old) => Readable(old)'
        /\ chosen # <<>> => Readable(chosen)
        /\ \A old \in handed : Readable(old)
    BY StillReadable DEF PickInv, AllReadable
  <1>3. CASE parent = "form"
    <2>1. chosen' = url /\ saving' = saving /\ handed' = handed
      BY <1>3 DEF OnChange
    <2>2. chosen' # <<>> => Readable(chosen)'
      BY <2>1 DEF Readable, ObjectKeyOf
    <2> QED
      BY <1>1, <1>2, <1>3, <2>1, <2>2 DEF AllReadable
  <1>4. CASE parent # "form"
    <2>1. /\ chosen' = chosen /\ saving' = saving \cup ({url} \ {<<>>})
          /\ handed' = handed \cup ({url} \ {<<>>})
      BY <1>4 DEF OnChange
    <2>2. chosen' # <<>> => Readable(chosen)'
      BY <1>2, <2>1 DEF Readable, ObjectKeyOf
    <2>3. \A new \in handed' : Readable(new)'
      BY <1>2, <2>1
    <2> QED
      BY <1>1, <1>4, <2>1, <2>2, <2>3 DEF AllReadable
  <1> QED
    BY <1>3, <1>4

LEMMA UploadedKeeps ==
    ASSUME PickInv, NEW n \in Picks, Uploaded(n) PROVE PickInv'
  <1> DEFINE object == [key |-> PhotoKeyOf(n), size |-> uploads[n].size]
  <1>0. PICK url : url = PublicUrl(PhotoKeyOf(n))
    OBVIOUS
  <1>1. /\ uploads[n].stage = "putting" /\ Ended(n) /\ Shown(n, "done", view.preview)
        /\ bucket' = bucket \cup {object} /\ OnChange(url)
        /\ parent' = parent /\ publicBase' = publicBase /\ opens' = opens /\ picked' = picked
        /\ blurred' = blurred
    BY <1>0 DEF Uploaded
  <1>2. object \in [key : PhotoKeys, size : Sizes] /\ uploads[n].size = "fits"
    BY <1>1, KeysManaged DEF PickInv, PickTypeOK, Uploads, OnlyWhatFits
  <1>3. view.preview \in Picks \cup {Nothing}
    BY DEF PickInv, PickTypeOK
  <1>4. /\ view' \in [open : BOOLEAN, phase : Phases, preview : Picks \cup {Nothing}]
        /\ parent = "form" =>
             view'.open /\ view'.phase = "done" /\ view'.preview = view.preview
    BY <1>1, <1>3, ShownTyped DEF Phases
  <1>5. bucket' \subseteq [key : PhotoKeys, size : Sizes] /\ bucket \subseteq bucket'
    BY <1>1, <1>2 DEF PickInv, PickTypeOK
  <1>6. url \in Urls /\ (url # <<>> => Readable(url)')
    <2>1. CASE publicBase
      <3>1. url = <<"https", PhotoKeyOf(n)>>
        BY <1>0, <2>1 DEF PublicUrl
      <3>2. ObjectKeyOf(url) = {PhotoKeyOf(n)} /\ Managed(PhotoKeyOf(n)) /\ url \in Urls
        BY <3>1, KeysManaged
      <3>3. [key |-> PhotoKeyOf(n), size |-> "fits"] \in bucket'
        BY <1>1, <1>2
      <3> QED
        BY <3>2, <3>3 DEF Readable
    <2>2. CASE ~publicBase
      <3>1. url = <<>>
        BY <1>0, <2>2 DEF PublicUrl
      <3>2. <<>> \in Urls
        BY DEF Urls
      <3> QED
        BY <3>1, <3>2
    <2> QED
      BY <2>1, <2>2
  <1>7. /\ chosen' \in Urls /\ saving' \subseteq Urls /\ handed' \subseteq Urls
        /\ AllReadable' /\ (parent = "form" => chosen' = url)
    BY <1>1, <1>5, <1>6, ChangeTyped
  <1>8. PickTypeOK'
    BY <1>1, <1>4, <1>5, <1>7, EndedTyped DEF PickInv, PickTypeOK
  <1>9. OnlyWhatFits'
    BY <1>1, EndedTyped
  <1>10. WidgetFollows'
    <2>1. parent = "form" => opens = 1
      BY DEF PickInv, WidgetFollows
    <2>2. opens' = opens
      <3>1. opens' = opens
        BY DEF Uploaded
      <3> QED
        BY <3>1
    <2> QED
      BY <1>1, <1>4, <2>1, <2>2, EndedTyped DEF WidgetFollows, UnderWay
  <1>11. ShownIsChosen'
    <2>1. parent = "form" /\ ~blurred => view.preview = n
      BY <1>1 DEF PickInv, WidgetFollows
    <2>2. PublicUrl(PhotoKeyOf(n))' = url
      BY <1>0, <1>1 DEF PublicUrl, PhotoKeyOf
    <2> QED
      BY <1>0, <1>1, <1>4, <1>7, <2>1, <2>2 DEF ShownIsChosen, PublicUrl, PhotoKeyOf
  <1> QED
    BY <1>7, <1>8, <1>9, <1>10, <1>11 DEF PickInv

LEMMA ClearKeeps ==
    ASSUME PickInv, Clear PROVE PickInv'
  <1>1. /\ view.phase \in {"done", "error"} /\ view' = EmptyWidget /\ OnChange(<<>>)
        /\ parent' = parent /\ publicBase' = publicBase /\ opens' = opens /\ picked' = picked
        /\ uploads' = uploads /\ bucket' = bucket /\ blurred' = blurred
    BY DEF Clear
  <1>2. /\ view' \in [open : BOOLEAN, phase : Phases, preview : Picks \cup {Nothing}]
        /\ view'.open /\ view'.phase = "idle"
    BY <1>1 DEF EmptyWidget, Phases
  <1>3. <<>> \in Urls
    BY DEF Urls
  <1>4. /\ chosen' \in Urls /\ saving' \subseteq Urls /\ handed' \subseteq Urls
        /\ AllReadable' /\ (parent = "form" => chosen' = <<>>)
    BY <1>1, <1>3, ChangeTyped
  <1>5. PickTypeOK'
    BY <1>1, <1>2, <1>4 DEF PickInv, PickTypeOK
  <1>6. OnlyWhatFits'
    BY <1>1 DEF PickInv, OnlyWhatFits
  <1>7. WidgetFollows'
    BY <1>1, <1>2 DEF PickInv, WidgetFollows, UnderWay, PickTypeOK, Uploads
  <1>8. ShownIsChosen'
    BY <1>1, <1>2, <1>4 DEF ShownIsChosen
  <1> QED
    BY <1>4, <1>5, <1>6, <1>7, <1>8 DEF PickInv

LEMMA RequestsKeep ==
    ASSUME PickInv, CreateProfile \/ ProfileCreated PROVE PickInv'
  <1>1. /\ saving' = {} \/ (saving' = {chosen} /\ chosen # <<>>)
        /\ handed' = handed \/ (handed' = handed \cup {chosen} /\ chosen # <<>>)
        /\ (chosen' = <<>> /\ blurred' = TRUE) \/ (chosen' = chosen /\ blurred' = blurred)
        /\ parent' = parent /\ publicBase' = publicBase /\ opens' = opens /\ picked' = picked
        /\ view' = view /\ uploads' = uploads /\ bucket' = bucket
    BY DEF CreateProfile, ProfileCreated
  <1>2. <<>> \in Urls
    BY DEF Urls
  <1>3. PickTypeOK'
    BY <1>1, <1>2 DEF PickInv, PickTypeOK
  <1>4. OnlyWhatFits'
    BY <1>1 DEF PickInv, OnlyWhatFits
  <1>5. AllReadable'
    <2>1. \A url : Readable(url) => Readable(url)'
      BY <1>1 DEF Readable, ObjectKeyOf
    <2>2. chosen' # <<>> => Readable(chosen)'
      BY <1>1, <2>1 DEF PickInv, AllReadable, Readable, ObjectKeyOf
    <2>3. \A url \in handed' : Readable(url)'
      BY <1>1, <2>1 DEF PickInv, AllReadable
    <2> QED
      BY <2>2, <2>3 DEF AllReadable
  <1>6. WidgetFollows'
    BY <1>1 DEF PickInv, WidgetFollows, UnderWay
  <1>7. ShownIsChosen'
    BY <1>1 DEF PickInv, ShownIsChosen, PublicUrl, PhotoKeyOf
  <1> QED
    BY <1>3, <1>4, <1>5, <1>6, <1>7 DEF PickInv

\* On a profile there is no form to follow.
LEMMA ProfileKeeps ==
    ASSUME PickInv, OpenWidget \/ CancelReplace \/ PhotoPatched PROVE PickInv'
  <1>1. /\ parent = "profile" /\ parent' = parent /\ publicBase' = publicBase
        /\ picked' = picked /\ uploads' = uploads
        /\ bucket' = bucket /\ chosen' = chosen /\ handed' = handed /\ blurred' = blurred
    BY DEF OpenWidget, CancelReplace, PhotoPatched
  <1>2. opens' \in 0..MaxOpens
    BY PickAssumption DEF OpenWidget, CancelReplace, PhotoPatched, PickInv, PickTypeOK
  <1>3. saving' \subseteq saving
    BY DEF OpenWidget, CancelReplace, PhotoPatched
  <1>4. view' \in [open : BOOLEAN, phase : Phases, preview : Picks \cup {Nothing}]
    <2>1. view \in [open : BOOLEAN, phase : Phases, preview : Picks \cup {Nothing}]
      BY DEF PickInv, PickTypeOK
    <2>2. view' = EmptyWidget \/ view' = view \/ view' = [view EXCEPT !.open = FALSE]
      BY DEF OpenWidget, CancelReplace, PhotoPatched
    <2>3. EmptyWidget \in [open : BOOLEAN, phase : Phases, preview : Picks \cup {Nothing}]
      BY DEF EmptyWidget, Phases
    <2>4. [view EXCEPT !.open = FALSE]
             \in [open : BOOLEAN, phase : Phases, preview : Picks \cup {Nothing}]
      BY <2>1
    <2> QED
      BY <2>1, <2>2, <2>3, <2>4
  <1>5. PickTypeOK'
    BY <1>1, <1>2, <1>3, <1>4 DEF PickInv, PickTypeOK
  <1>6. OnlyWhatFits'
    BY <1>1 DEF PickInv, OnlyWhatFits
  <1>7. AllReadable'
    BY <1>1, ReadableStays
  <1> QED
    BY <1>1, <1>5, <1>6, <1>7 DEF PickInv, WidgetFollows, ShownIsChosen

LEMMA PickSpecInv == PickSpec => []PickInv
  <1>1. PickInv /\ [PickNext]_pickVars => PickInv'
    <2> SUFFICES ASSUME PickInv, [PickNext]_pickVars PROVE PickInv'
      OBVIOUS
    <2>1. CASE UNCHANGED pickVars
      <3>1. /\ parent' = parent /\ publicBase' = publicBase /\ opens' = opens /\ view' = view
            /\ picked' = picked /\ uploads' = uploads /\ bucket' = bucket /\ chosen' = chosen
            /\ saving' = saving /\ handed' = handed /\ blurred' = blurred
        BY <2>1 DEF pickVars
      <3>2. PickTypeOK' /\ OnlyWhatFits'
        BY <3>1 DEF PickInv, PickTypeOK, OnlyWhatFits
      <3>3. AllReadable'
        BY <3>1, ReadableStays
      <3>4. WidgetFollows' /\ ShownIsChosen'
        BY <3>1 DEF PickInv, WidgetFollows, UnderWay, ShownIsChosen, PublicUrl, PhotoKeyOf
      <3> QED
        BY <3>2, <3>3, <3>4 DEF PickInv
    <2>2. CASE PickNext
      BY <2>2, PickKeeps, PickRefusedKeeps, ClearKeeps, CompressedKeeps, PresignedKeeps,
         UploadFailedKeeps, UploadedKeeps, RequestsKeep, ProfileKeeps DEF PickNext
    <2> QED
      BY <2>1, <2>2
  <1> QED
    BY PickStarts, <1>1, PTL DEF PickSpec

\* The widget, its uploads and the bucket stay typed (PickTypeOK).
THEOREM UploadsAreTyped == PickSpec => []PickTypeOK
  <1>1. PickInv => PickTypeOK
    BY DEF PickInv
  <1> QED
    BY PickSpecInv, <1>1, PTL

\* Every photo the backend is told of can be read by the AI service, and the
\* form's widget shows the photo that will be sent: whatever overlaps or fails
\* in photo-upload.tsx and uploadService.ts.
THEOREM PhotosDoArrive == PickSpec => []PhotosArrive
  <1>1. PickInv => PhotosArrive
    BY DEF PickInv, AllReadable, PhotosArrive, HandedIsReadable
  <1> QED
    BY PickSpecInv, <1>1, PTL

-----------------------------------------------------------------------------
\* The days of Dhaka divide the instants: an instant lies between the ends of
\* the one day its key names.
LEMMA DivisionTyped ==
    ASSUME NEW t \in Int
    PROVE  /\ DhakaDateKey(t) \in Int
           /\ DhakaDateKey(t) * DayTicks <= t + ZoneTicks
           /\ t + ZoneTicks < (DhakaDateKey(t) + 1) * DayTicks
  <1> DEFINE x == t + ZoneTicks
             q == x \div DayTicks
  <1>1. DayTicks \in Nat \ {0} /\ ZoneTicks \in Int /\ x \in Int
    BY DhakaAssumption
  <1> QED
    BY <1>1, SMT DEF DhakaDateKey

LEMMA DayOfInstant ==
    ASSUME NEW t \in Int, NEW k \in Int
    PROVE  /\ DayStart(k) \in Int /\ DayEnd(k) \in Int
           /\ (DayStart(k) <= t /\ t <= DayEnd(k)) <=> DhakaDateKey(t) = k
  <1> DEFINE q == DhakaDateKey(t)
  <1>1. DayTicks \in Nat \ {0} /\ ZoneTicks \in Int
    BY DhakaAssumption
  <1>2. q \in Int /\ q * DayTicks <= t + ZoneTicks /\ t + ZoneTicks < (q + 1) * DayTicks
    BY DivisionTyped
  <1>3. \A a, b \in Int : a < b => (a + 1) * DayTicks <= b * DayTicks
    <2> TAKE a, b \in Int
    <2> HAVE a < b
    <2> DEFINE d == b - (a + 1)
    <2>1. d \in Nat /\ b = (a + 1) + d
      OBVIOUS
    <2>2. d * DayTicks >= 0
      BY <1>1, <2>1
    <2>3. b * DayTicks = (a + 1) * DayTicks + d * DayTicks
      BY <1>1, <2>1
    <2> HIDE DEF d
    <2> QED
      BY <1>1, <2>1, <2>2, <2>3
  <1>4. (k + 1) * DayTicks = k * DayTicks + DayTicks /\ k * DayTicks \in Int
    BY <1>1
  <1>5. q * DayTicks \in Int /\ (q + 1) * DayTicks \in Int /\ (k + 1) * DayTicks \in Int
    BY <1>1, <1>2
  <1> HIDE DEF q
  <1>6. DayStart(k) = k * DayTicks - ZoneTicks /\ DayEnd(k) = k * DayTicks - ZoneTicks + DayTicks - 1
    BY DEF DayStart, DayEnd
  <1>7. (DayStart(k) <= t /\ t <= DayEnd(k))
          <=> (k * DayTicks <= t + ZoneTicks /\ t + ZoneTicks < (k + 1) * DayTicks)
    BY <1>1, <1>4, <1>6
  <1>8. ASSUME k * DayTicks <= t + ZoneTicks /\ t + ZoneTicks < (k + 1) * DayTicks
        PROVE  q = k
    <2>1. CASE q < k
      <3>1. (q + 1) * DayTicks <= k * DayTicks
        BY <1>2, <1>3, <2>1
      <3> QED
        BY <1>1, <1>2, <1>4, <1>5, <1>8, <3>1
    <2>2. CASE k < q
      <3>1. (k + 1) * DayTicks <= q * DayTicks
        BY <1>2, <1>3, <2>2
      <3> QED
        BY <1>1, <1>2, <1>4, <1>5, <1>8, <3>1
    <2> QED
      BY <1>2, <2>1, <2>2
  <1>9. DayStart(k) \in Int /\ DayEnd(k) \in Int
    BY <1>1, <1>4, <1>6
  <1>10. q = k => k * DayTicks <= t + ZoneTicks /\ t + ZoneTicks < (k + 1) * DayTicks
    BY <1>2
  <1> QED
    BY <1>7, <1>8, <1>9, <1>10 DEF q

\* The key of a day's beginning is that of the day.
LEMMA StartOfDay ==
    ASSUME NEW k \in Int PROVE DhakaDateKey(DayStart(k)) = k
  <1>1. DayTicks \in Nat \ {0}
    BY DhakaAssumption
  <1>2. DayStart(k) \in Int /\ DayEnd(k) \in Int /\ DayEnd(k) = DayStart(k) + DayTicks - 1
    BY DayOfInstant DEF DayEnd
  <1>3. DayStart(k) <= DayStart(k) /\ DayStart(k) <= DayEnd(k)
    BY <1>1, <1>2
  <1> QED
    BY <1>2, <1>3, DayOfInstant

OfDay(A, day) == {a \in A : DhakaDateKey(a.at) = day}

LEMMA WithinDay ==
    ASSUME NEW A, A \subseteq Arrivals, NEW day \in Int
    PROVE  Within(A, DayStart(day), DayEnd(day)) = OfDay(A, day)
  <1>1. \A a \in A : a.at \in Int
    <2>1. LastTick \in Int
      BY DhakaAssumption DEF LastTick
    <2> QED
      BY <2>1 DEF Arrivals
  <1>2. \A a \in A : (DayStart(day) <= a.at /\ a.at <= DayEnd(day)) <=> DhakaDateKey(a.at) = day
    BY <1>1, DayOfInstant
  <1> QED
    BY <1>2 DEF Within, OfDay

\* As many people as entries, at most.
LEMMA PeopleOfEntries ==
    ASSUME NEW A, IsFiniteSet(A)
    PROVE  IsFiniteSet(Whose(A)) /\ Cardinality(Whose(A)) <= Cardinality(A)
  <1> DEFINE f == [a \in A |-> a.who]
  <1>1. f \in Surjection(A, Whose(A))
    BY DEF Surjection, Whose
  <1> QED
    BY <1>1, FS_Surjection

-----------------------------------------------------------------------------
\* What the database has: never less.
ArrivalsHold ==
    /\ nowUtc \in DayTicks..LastTick /\ cutoff \in Cutoffs
    /\ arrivals \subseteq Arrivals /\ IsFiniteSet(arrivals)

\* What a count under way has been told is of the one day its range is of.
CountOf(day) ==
    /\ DOMAIN count \subseteq {"from", "to", "cutoff", "before", "present", "late"}
    /\ {"from", "to", "cutoff", "before"} \subseteq DOMAIN count
    /\ count = [x \in DOMAIN count |-> count[x]]
    /\ count.from = DayStart(day) /\ count.to = DayEnd(day)
    /\ count.before \subseteq arrivals
    /\ "present" \in DOMAIN count =>
         /\ Whose(OfDay(count.before, day)) \subseteq count.present
         /\ count.present \subseteq Whose(OfDay(arrivals, day))
    /\ "late" \in DOMAIN count => count.late \subseteq OfDay(arrivals, day)

CountHolds == count = NoFigures \/ \E day \in Int : CountOf(day)

KpisHold ==
    \/ kpis = NoFigures
    \/ /\ kpis = [day |-> kpis.day, present |-> kpis.present, late |-> kpis.late,
                  before |-> kpis.before, after |-> kpis.after]
       /\ kpis.day \in Int /\ kpis.after \subseteq Arrivals /\ IsFiniteSet(kpis.after)
       /\ Whose(OfDay(kpis.before, kpis.day)) \subseteq kpis.present
       /\ kpis.present \subseteq Whose(OfDay(kpis.after, kpis.day))
       /\ kpis.late \subseteq OfDay(kpis.after, kpis.day)

TrendHolds ==
    \/ trend = NoFigures
    \/ /\ DOMAIN trend = {"day", "bars", "of"}
       /\ trend.of \subseteq Arrivals
       /\ trend.day \in DOMAIN trend.bars /\ DOMAIN trend.bars \subseteq Int
       /\ \A k \in DOMAIN trend.bars : trend.bars[k] = Cardinality(OfDay(trend.of, k))

DayInv == ArrivalsHold /\ CountHolds /\ KpisHold /\ TrendHolds

LEMMA DayStarts == DayInit => DayInv
  <1> SUFFICES ASSUME DayInit PROVE DayInv
    OBVIOUS
  <1>1. DayTicks \in DayTicks..LastTick
    <2>1. DayTicks \in Nat /\ MaxDays \in Nat \ {0}
      BY DhakaAssumption
    <2>2. MaxDays * DayTicks = (MaxDays - 1) * DayTicks + DayTicks
      BY <2>1
    <2>3. (MaxDays - 1) * DayTicks >= 0 /\ (MaxDays - 1) * DayTicks \in Int
      BY <2>1
    <2> QED
      BY <2>1, <2>2, <2>3 DEF LastTick
  <1>2. IsFiniteSet({})
    BY FS_EmptySet
  <1>3. ArrivalsHold
    BY <1>1, <1>2 DEF DayInit, ArrivalsHold
  <1> QED
    BY <1>3 DEF DayInit, DayInv, CountHolds, KpisHold, TrendHolds

\* Entries that come in take nothing from what was counted.
LEMMA MoreArrivals ==
    ASSUME DayInv, arrivals \subseteq arrivals',
           UNCHANGED <<count, kpis, trend>>
    PROVE  CountHolds' /\ KpisHold' /\ TrendHolds'
  <1>0. count' = count /\ kpis' = kpis /\ trend' = trend
    OBVIOUS
  <1>1. ASSUME NEW day \in Int, CountOf(day) PROVE CountOf(day)'
    <2>1. OfDay(arrivals, day) \subseteq OfDay(arrivals, day)'
      BY DEF OfDay, DhakaDateKey
    <2>2. Whose(OfDay(arrivals, day)) \subseteq Whose(OfDay(arrivals, day))'
      BY <2>1 DEF Whose
    <2>3. OfDay(count.before, day)' = OfDay(count.before, day)
      BY <1>0 DEF OfDay, DhakaDateKey
    <2>4. Whose(OfDay(count.before, day))' = Whose(OfDay(count.before, day))
      BY <2>3 DEF Whose
    <2> QED
      BY <1>0, <1>1, <2>1, <2>2, <2>4 DEF CountOf, DayStart, DayEnd
  <1>2. CountHolds'
    BY <1>0, <1>1 DEF DayInv, CountHolds, NoFigures
  <1>3. KpisHold'
    BY <1>0 DEF DayInv, KpisHold, NoFigures, OfDay, Whose, DhakaDateKey
  <1>4. TrendHolds'
    BY <1>0 DEF DayInv, TrendHolds, NoFigures, OfDay, DhakaDateKey
  <1> QED
    BY <1>2, <1>3, <1>4

LEMMA ArrivalsKeep ==
    ASSUME DayInv,
           \/ Tick
           \/ \E who \in Workers, at \in {nowUtc - 1, nowUtc} : Arrive(who, at)
           \/ \E c \in Cutoffs : UpdateCutoff(c)
    PROVE  DayInv'
  <1>1. /\ DayTicks \in Nat \ {0} /\ MaxArrivals \in Nat \ {0} /\ LastTick \in Nat
        /\ nowUtc \in DayTicks..LastTick
    BY DhakaAssumption DEF LastTick, DayInv, ArrivalsHold
  <1>2. count' = count /\ kpis' = kpis /\ trend' = trend
    BY DEF Tick, Arrive, UpdateCutoff
  <1>3. /\ arrivals \subseteq arrivals' /\ arrivals' \subseteq Arrivals /\ IsFiniteSet(arrivals')
        /\ cutoff' \in Cutoffs /\ nowUtc' \in DayTicks..LastTick
    <2>1. arrivals \subseteq Arrivals /\ IsFiniteSet(arrivals) /\ cutoff \in Cutoffs
      BY DEF DayInv, ArrivalsHold
    <2>2. CASE Tick \/ \E c \in Cutoffs : UpdateCutoff(c)
      BY <1>1, <2>1, <2>2 DEF Tick, UpdateCutoff
    <2>3. CASE \E who \in Workers, at \in {nowUtc - 1, nowUtc} : Arrive(who, at)
      <3>1. PICK who \in Workers, at \in {nowUtc - 1, nowUtc} : Arrive(who, at)
        BY <2>3
      <3> DEFINE a == [who |-> who, at |-> at, id |-> Cardinality(arrivals) + 1]
      <3>2. /\ Cardinality(arrivals) < MaxArrivals /\ arrivals' = arrivals \cup {a}
            /\ nowUtc' = nowUtc /\ cutoff' = cutoff
        BY <3>1 DEF Arrive
      <3>3. Cardinality(arrivals) \in Nat
        BY <2>1, FS_CardinalityType
      <3>4. Cardinality(arrivals) + 1 \in 1..MaxArrivals /\ at \in 0..LastTick
        BY <1>1, <3>1, <3>2, <3>3
      <3>5. a \in Arrivals
        BY <3>1, <3>4 DEF Arrivals
      <3>6. IsFiniteSet(arrivals \cup {a})
        BY <2>1, FS_AddElement
      <3> QED
        BY <1>1, <2>1, <3>2, <3>5, <3>6
    <2> QED
      BY <2>2, <2>3
  <1>4. CountHolds' /\ KpisHold' /\ TrendHolds'
    BY <1>2, <1>3, MoreArrivals
  <1>5. LastTick' = LastTick
    OBVIOUS
  <1> QED
    BY <1>3, <1>4 DEF DayInv, ArrivalsHold

LEMMA KeyTyped ==
    ASSUME DayInv PROVE nowUtc \in Int /\ DhakaDateKey(nowUtc) \in Int
  <1>1. DayTicks \in Int /\ LastTick \in Int
    BY DhakaAssumption DEF LastTick
  <1>2. nowUtc \in Int
    BY <1>1 DEF DayInv, ArrivalsHold
  <1> QED
    BY <1>2, DivisionTyped

LEMMA CountBeginsKeeps ==
    ASSUME DayInv, CountBegins PROVE DayInv'
  <1>1. PICK day \in Int : day = DhakaDateKey(nowUtc)
    BY KeyTyped
  <1>2. /\ count' = [from |-> DayStart(day), to |-> DayEnd(day), cutoff |-> cutoff,
                     before |-> arrivals]
        /\ nowUtc' = nowUtc /\ arrivals' = arrivals /\ cutoff' = cutoff /\ kpis' = kpis
        /\ trend' = trend
    BY <1>1 DEF CountBegins
  <1>3. CountOf(day)'
    BY <1>2 DEF CountOf, DayStart, DayEnd
  <1> QED
    BY <1>2, <1>3 DEF DayInv, ArrivalsHold, CountHolds, KpisHold, TrendHolds, NoFigures,
                      OfDay, Whose, DhakaDateKey

\* A query of a count takes in the entries of the count's day, by its range.
LEMMA RangeIsOfDay ==
    ASSUME DayInv, CountBegun
    PROVE  \E day \in Int :
             /\ CountOf(day)
             /\ Within(arrivals, count.from, count.to) = OfDay(arrivals, day)
  <1>1. count # NoFigures
    BY DEF CountBegun, NoFigures
  <1>2. PICK day \in Int : CountOf(day)
    BY <1>1 DEF DayInv, CountHolds
  <1>3. Within(arrivals, count.from, count.to) = OfDay(arrivals, day)
    BY <1>2, WithinDay DEF CountOf, DayInv, ArrivalsHold
  <1> QED
    BY <1>2, <1>3

LEMMA QueriesKeep ==
    ASSUME DayInv, PresentRead \/ LateRead PROVE DayInv'
  <1>1. PICK day \in Int :
           /\ CountOf(day)
           /\ Within(arrivals, count.from, count.to) = OfDay(arrivals, day)
    BY RangeIsOfDay DEF PresentRead, LateRead
  <1>2. /\ nowUtc' = nowUtc /\ arrivals' = arrivals /\ cutoff' = cutoff /\ kpis' = kpis
        /\ trend' = trend
    BY DEF PresentRead, LateRead
  <1>3. \/ count' = With(count, "present", Whose(OfDay(arrivals, day)))
        \/ \E L : L \subseteq OfDay(arrivals, day) /\ count' = With(count, "late", L)
    <2>1. CASE PresentRead
      BY <1>1, <2>1 DEF PresentRead
    <2>2. CASE LateRead
      <3>1. count' = With(count, "late",
                        {a \in OfDay(arrivals, day) : IsLate(a, count.cutoff)})
        BY <1>1, <2>2 DEF LateRead
      <3> QED
        BY <3>1
    <2> QED
      BY <2>1, <2>2
  <1>4. CountOf(day)'
    <2>0. OfDay(arrivals, day)' = OfDay(arrivals, day)
      BY <1>2 DEF OfDay, DhakaDateKey
    <2>1. CASE count' = With(count, "present", Whose(OfDay(arrivals, day)))
      <3> DEFINE P == Whose(OfDay(arrivals, day))
      <3>1. /\ DOMAIN count' = DOMAIN count \cup {"present"}
            /\ count' = [x \in DOMAIN count' |-> count'[x]]
            /\ count'["present"] = P
            /\ \A x \in DOMAIN count : x # "present" => count'[x] = count[x]
        BY <2>1 DEF With
      <3>2. /\ count'.from = count.from /\ count'.to = count.to /\ count'.before = count.before
            /\ count'.present = P
            /\ "late" \in DOMAIN count' => "late" \in DOMAIN count /\ count'.late = count.late
        BY <1>1, <3>1 DEF CountOf
      <3>3. Whose(OfDay(count.before, day)) \subseteq P
        BY <1>1 DEF CountOf, Whose, OfDay
      <3>4. Whose(OfDay(arrivals, day))' = P
        BY <2>0 DEF Whose
      <3>5. Whose(OfDay(count.before, day))' = Whose(OfDay(count.before, day))
        BY <3>2 DEF Whose, OfDay, DhakaDateKey
      <3> HIDE DEF P
      <3> QED
        BY <1>1, <1>2, <2>0, <3>1, <3>2, <3>3, <3>4, <3>5 DEF CountOf, DayStart, DayEnd
    <2>2. CASE \E L : L \subseteq OfDay(arrivals, day) /\ count' = With(count, "late", L)
      <3>0. PICK L : L \subseteq OfDay(arrivals, day) /\ count' = With(count, "late", L)
        BY <2>2
      <3>1. /\ DOMAIN count' = DOMAIN count \cup {"late"}
            /\ count' = [x \in DOMAIN count' |-> count'[x]]
            /\ count'["late"] = L
            /\ \A x \in DOMAIN count : x # "late" => count'[x] = count[x]
        BY <3>0 DEF With
      <3>2. /\ count'.from = count.from /\ count'.to = count.to /\ count'.before = count.before
            /\ count'.late = L
            /\ "present" \in DOMAIN count' =>
                 "present" \in DOMAIN count /\ count'.present = count.present
        BY <1>1, <3>1 DEF CountOf
      <3>4. Whose(OfDay(arrivals, day))' = Whose(OfDay(arrivals, day))
        BY <2>0 DEF Whose
      <3>5. Whose(OfDay(count.before, day))' = Whose(OfDay(count.before, day))
        BY <3>2 DEF Whose, OfDay, DhakaDateKey
      <3> QED
        BY <1>1, <1>2, <2>0, <3>0, <3>1, <3>2, <3>4, <3>5 DEF CountOf, DayStart, DayEnd
    <2> QED
      BY <1>3, <2>1, <2>2
  <1> QED
    BY <1>2, <1>4 DEF DayInv, ArrivalsHold, CountHolds, KpisHold, TrendHolds, NoFigures,
                      OfDay, Whose, DhakaDateKey

LEMMA KpisArriveKeeps ==
    ASSUME DayInv, KpisArrive PROVE DayInv'
  <1>1. count # NoFigures
    BY DEF KpisArrive, NoFigures
  <1>2. PICK day \in Int : CountOf(day)
    BY <1>1 DEF DayInv, CountHolds
  <1>3. DhakaDateKey(count.from) = day
    BY <1>2, StartOfDay DEF CountOf
  <1>4. /\ kpis' = [day |-> day, present |-> count.present, late |-> count.late,
                    before |-> count.before, after |-> arrivals]
        /\ count' = NoFigures /\ nowUtc' = nowUtc /\ arrivals' = arrivals /\ cutoff' = cutoff
        /\ trend' = trend
    BY <1>3 DEF KpisArrive
  <1>5. /\ Whose(OfDay(count.before, day)) \subseteq count.present
        /\ count.present \subseteq Whose(OfDay(arrivals, day))
        /\ count.late \subseteq OfDay(arrivals, day)
    BY <1>2 DEF CountOf, KpisArrive
  <1>6. arrivals \subseteq Arrivals /\ IsFiniteSet(arrivals)
    BY DEF DayInv, ArrivalsHold
  <1>7. KpisHold'
    <2>1. /\ kpis'.day = day /\ kpis'.present = count.present /\ kpis'.late = count.late
          /\ kpis'.before = count.before /\ kpis'.after = arrivals
      BY <1>4
    <2>2. OfDay(kpis.before, kpis.day)' = OfDay(count.before, day)
      BY <2>1 DEF OfDay, DhakaDateKey
    <2>3. OfDay(kpis.after, kpis.day)' = OfDay(arrivals, day)
      BY <2>1 DEF OfDay, DhakaDateKey
    <2>4. /\ Whose(OfDay(kpis.before, kpis.day))' = Whose(OfDay(count.before, day))
          /\ Whose(OfDay(kpis.after, kpis.day))' = Whose(OfDay(arrivals, day))
      BY <2>2, <2>3 DEF Whose
    <2> QED
      BY <1>4, <1>5, <1>6, <2>1, <2>3, <2>4 DEF KpisHold
  <1> QED
    BY <1>4, <1>7 DEF DayInv, ArrivalsHold, CountHolds, TrendHolds, NoFigures,
                      OfDay, DhakaDateKey

LEMMA TrendArrivesKeeps ==
    ASSUME DayInv, TrendArrives PROVE DayInv'
  <1> DEFINE today == DhakaDateKey(nowUtc)
             keys == LastKeys(nowUtc, TrendDays)
             rows == {a \in arrivals : a.at >= DayStart(today - TrendDays + 1)}
  <1>1. /\ trend' = [day |-> today, of |-> arrivals,
                     bars |-> [k \in keys |->
                                 Cardinality({a \in rows : DhakaDateKey(a.at) = k})]]
        /\ nowUtc' = nowUtc /\ arrivals' = arrivals /\ cutoff' = cutoff /\ count' = count
        /\ kpis' = kpis
    BY DEF TrendArrives
  <1>2. today \in Int /\ TrendDays \in Nat \ {0}
    BY KeyTyped, DhakaAssumption
  <1>3. today \in keys /\ keys \subseteq Int /\ \A k \in keys : today - TrendDays + 1 <= k
    BY <1>2 DEF LastKeys
  <1>4. arrivals \subseteq Arrivals
    BY DEF DayInv, ArrivalsHold
  <1>5. ASSUME NEW k \in keys
        PROVE  {a \in rows : DhakaDateKey(a.at) = k} = OfDay(arrivals, k)
    <2> DEFINE first == today - TrendDays + 1
    <2>1. k \in Int /\ first \in Int /\ first <= k
      BY <1>2, <1>3
    <2>2. \A a \in arrivals : a.at \in Int
      <3>1. LastTick \in Int
        BY DhakaAssumption DEF LastTick
      <3> QED
        BY <1>4, <3>1 DEF Arrivals
    <2>3. DayStart(first) <= DayStart(k)
      <3>1. DayTicks \in Nat /\ ZoneTicks \in Int
        BY DhakaAssumption
      <3> DEFINE d == k - first
      <3>2. d \in Nat /\ k = first + d
        BY <2>1
      <3>3. d * DayTicks \in Nat
        BY <3>1, <3>2
      <3>4. k * DayTicks = first * DayTicks + d * DayTicks
        BY <2>1, <3>1, <3>2
      <3>5. first * DayTicks \in Int /\ k * DayTicks \in Int
        BY <2>1, <3>1
      <3> HIDE DEF d, first
      <3> QED
        BY <3>1, <3>3, <3>4, <3>5 DEF DayStart
    <2>4. ASSUME NEW a \in arrivals, DhakaDateKey(a.at) = k PROVE a.at >= DayStart(first)
      <3>1. DayStart(k) <= a.at /\ DayStart(k) \in Int /\ DayStart(first) \in Int
        BY <2>1, <2>2, <2>4, DayOfInstant
      <3> HIDE DEF first
      <3> QED
        BY <2>2, <2>3, <3>1
    <2> QED
      BY <2>4 DEF OfDay
  <1>6. TrendHolds'
    <2> HIDE DEF keys, today
    <2>1. /\ DOMAIN trend' = {"day", "bars", "of"} /\ trend'.of = arrivals
          /\ trend'.day = today /\ DOMAIN trend'.bars = keys
      BY <1>1
    <2>2. \A k \in keys : trend'.bars[k] = Cardinality(OfDay(arrivals, k))
      BY <1>1, <1>5
    <2>3. \A k : OfDay(trend.of, k)' = OfDay(arrivals, k)
      BY <2>1 DEF OfDay, DhakaDateKey
    <2> QED
      BY <1>3, <1>4, <2>1, <2>2, <2>3 DEF TrendHolds
  <1> QED
    BY <1>1, <1>6, MoreArrivals DEF DayInv, ArrivalsHold, CountHolds, KpisHold, NoFigures,
       CountOf, OfDay, Whose, DhakaDateKey, DayStart, DayEnd

LEMMA DaySpecInv == DaySpec => []DayInv
  <1>1. DayInv /\ [DayNext]_dayVars => DayInv'
    <2> SUFFICES ASSUME DayInv, [DayNext]_dayVars PROVE DayInv'
      OBVIOUS
    <2>1. CASE UNCHANGED dayVars
      <3>1. /\ nowUtc' = nowUtc /\ arrivals' = arrivals /\ cutoff' = cutoff /\ count' = count
            /\ kpis' = kpis /\ trend' = trend
        BY <2>1 DEF dayVars
      <3>2. CountHolds' /\ KpisHold' /\ TrendHolds'
        BY <3>1, MoreArrivals
      <3> QED
        BY <3>1, <3>2 DEF DayInv, ArrivalsHold
    <2>2. CASE DayNext
      BY <2>2, ArrivalsKeep, CountBeginsKeeps, QueriesKeep, KpisArriveKeeps, TrendArrivesKeeps
         DEF DayNext
    <2> QED
      BY <2>1, <2>2
  <1> QED
    BY DayStarts, <1>1, PTL DEF DaySpec

LEMMA DayInvTypes == DayInv => DayTypeOK
  <1> SUFFICES ASSUME DayInv PROVE DayTypeOK
    OBVIOUS
  <1>1. DayTicks \in Nat /\ LastTick \in Int
    BY DhakaAssumption DEF LastTick
  <1>2. nowUtc \in 0..LastTick /\ arrivals \subseteq Arrivals /\ cutoff \in Cutoffs
    BY <1>1 DEF DayInv, ArrivalsHold
  <1>3. DOMAIN NoFigures = {}
    BY DEF NoFigures
  <1>4. DOMAIN count \subseteq {"from", "to", "cutoff", "before", "present", "late"}
    BY <1>3 DEF DayInv, CountHolds, CountOf
  <1>5. DOMAIN kpis \subseteq {"day", "present", "late", "before", "after"}
    <2>1. CASE kpis = NoFigures
      BY <1>3, <2>1
    <2>2. CASE kpis # NoFigures
      BY <2>2 DEF DayInv, KpisHold
    <2> QED
      BY <2>1, <2>2
  <1>6. DOMAIN trend \subseteq {"day", "bars", "of"}
    BY <1>3 DEF DayInv, TrendHolds
  <1> QED
    BY <1>2, <1>4, <1>5, <1>6 DEF DayTypeOK

LEMMA DayInvCounts == DayInv => DaysCounted
  <1> SUFFICES ASSUME DayInv PROVE DaysCounted
    OBVIOUS
  <1>1. TrendComplete
    BY WithinDay DEF TrendComplete, DayInv, TrendHolds
  <1>2. KpisOfOneDay
    BY DEF KpisOfOneDay, DayInv, KpisHold, OfDay
  <1>3. ASSUME kpis # NoFigures, trend # NoFigures, kpis.day = trend.day,
               trend.of \subseteq kpis.before
        PROVE  /\ trend.bars[trend.day] > 0 => kpis.present # {}
               /\ trend.of = kpis.after =>
                    Cardinality(kpis.present) <= trend.bars[trend.day]
    <2> DEFINE day == kpis.day
    <2>1. trend.bars[trend.day] = Cardinality(OfDay(trend.of, day))
      BY <1>3 DEF DayInv, TrendHolds
    <2>2. /\ Whose(OfDay(kpis.before, day)) \subseteq kpis.present
          /\ kpis.present \subseteq Whose(OfDay(kpis.after, day))
          /\ IsFiniteSet(kpis.after)
      BY <1>3 DEF DayInv, KpisHold
    <2>3. ASSUME kpis.present = {} PROVE ~(trend.bars[trend.day] > 0)
      <3>1. OfDay(trend.of, day) = {}
        BY <1>3, <2>2, <2>3 DEF Whose, OfDay
      <3>2. Cardinality({}) = 0
        BY FS_EmptySet
      <3> QED
        BY <2>1, <3>1, <3>2
    <2>4. ASSUME trend.of = kpis.after
          PROVE  Cardinality(kpis.present) <= trend.bars[trend.day]
      <3> DEFINE A == OfDay(kpis.after, day)
      <3>1. IsFiniteSet(A)
        <4>1. A \in SUBSET kpis.after
          BY DEF OfDay
        <4> QED
          BY <2>2, <4>1, FS_Subset
      <3>2. IsFiniteSet(Whose(A)) /\ Cardinality(Whose(A)) <= Cardinality(A)
        BY <3>1, PeopleOfEntries
      <3>3. IsFiniteSet(kpis.present) /\ Cardinality(kpis.present) <= Cardinality(Whose(A))
        BY <2>2, <3>2, FS_Subset
      <3>4. Cardinality(A) \in Nat /\ Cardinality(Whose(A)) \in Nat /\ Cardinality(kpis.present) \in Nat
        BY <3>1, <3>2, <3>3, FS_CardinalityType
      <3>5. trend.bars[trend.day] = Cardinality(A)
        BY <2>1, <2>4
      <3> HIDE DEF A
      <3> QED
        BY <3>2, <3>3, <3>4, <3>5
    <2> QED
      BY <2>3, <2>4
  <1>4. HeadcountMeetsTrend
    BY <1>3 DEF HeadcountMeetsTrend
  <1> QED
    BY <1>1, <1>2, <1>4 DEF DaysCounted

\* The dashboard's caches and its counts under way stay typed (DayTypeOK).
THEOREM FiguresTyped == DaySpec => []DayTypeOK
  BY DaySpecInv, DayInvTypes, PTL

\* The figures of dashboardService.ts are of Dhaka's days, whichever instant
\* each query falls on, and the tile's two agree.
THEOREM DaysAreCounted == DaySpec => []DaysCounted
  BY DaySpecInv, DayInvCounts, PTL

-----------------------------------------------------------------------------
\* What holds of 0, and of n + 1 when it does of n, holds of every number.
LEMMA NumbersInTurn ==
    ASSUME NEW P, 0 \in P, \A n \in Nat : n \in P => n + 1 \in P
    PROVE  \A n \in Nat : n \in P
  <1> SUFFICES ASSUME NEW k \in Nat, k \notin P PROVE FALSE
    OBVIOUS
  <1> DEFINE S == {n \in Nat : n \notin P}
  <1>1. S \subseteq Nat /\ S # {}
    OBVIOUS
  <1>2. PICK i \in S : \A j \in S : ~ (<<j, i>> \in OpToRel(<, Nat))
    BY <1>1, NatLessThanWellFounded, WFMin, Zenon
  <1>3. \A j \in S : ~ (j < i)
    <2> TAKE j \in S
    <2>1. <<j, i>> \in Nat \X Nat
      OBVIOUS
    <2>2. ~ (<<j, i>> \in OpToRel(<, Nat))
      BY <1>2
    <2> QED
      BY <2>1, <2>2, Zenon DEF OpToRel
  <1>4. i \in Nat /\ i \notin P
    BY <1>2, Zenon
  <1>5. i - 1 \in Nat /\ i = (i - 1) + 1
    BY <1>4
  <1>6. i - 1 \in S
    BY <1>4, <1>5
  <1> QED
    BY <1>3, <1>4, <1>5, <1>6

\* A set's sum, taking one element after another.
Taken(S) == CHOOSE x \in S : TRUE
SumsOf(f, S, g) ==
    g = [s \in SUBSET S |-> IF s = {} THEN 0 ELSE f[Taken(s)] + g[s \ {Taken(s)}]]

LEMMA SumIsTaken ==
    ASSUME NEW f, NEW S
    PROVE  SumFunctionOnSet(f, S) = (CHOOSE g : SumsOf(f, S, g))[S]
  BY DEF SumFunctionOnSet, FoldFunctionOnSet, MapThenFoldSet, SumsOf, Taken

\* The sums of the subsets of at most n elements of T.
Small(T, n) == {s \in SUBSET T : Cardinality(s) <= n}
SumsUpTo(f, T, n, h) ==
    /\ h \in [Small(T, n) -> Int]
    /\ \A s \in Small(T, n) : h[s] = IF s = {} THEN 0 ELSE f[Taken(s)] + h[s \ {Taken(s)}]

\* Without the element taken a set has one fewer.
LEMMA OneFewer ==
    ASSUME NEW s, IsFiniteSet(s), s # {}
    PROVE  /\ Taken(s) \in s
           /\ IsFiniteSet(s \ {Taken(s)}) /\ Cardinality(s \ {Taken(s)}) = Cardinality(s) - 1
           /\ Cardinality(s) \in Nat /\ Cardinality(s) > 0
  <1>1. Taken(s) \in s
    BY DEF Taken
  <1> QED
    BY <1>1, FS_RemoveElement, FS_CardinalityType, FS_EmptySet

LEMMA SumsExistUpTo ==
    ASSUME NEW T, IsFiniteSet(T), NEW f \in [T -> Int]
    PROVE  \A n \in Nat : \E h : SumsUpTo(f, T, n, h)
  <1> DEFINE P == {n \in Nat : \E h : SumsUpTo(f, T, n, h)}
  <1>0. \A s \in SUBSET T : IsFiniteSet(s) /\ Cardinality(s) \in Nat /\ (Cardinality(s) = 0 => s = {})
    BY FS_Subset, FS_CardinalityType, FS_EmptySet
  <1>1. 0 \in P
    <2> DEFINE h == [s \in Small(T, 0) |-> 0]
    <2>1. \A s \in Small(T, 0) : s = {}
      BY <1>0 DEF Small
    <2>2. h \in [Small(T, 0) -> Int] /\ \A s \in Small(T, 0) : h[s] = 0
      OBVIOUS
    <2>3. SumsUpTo(f, T, 0, h)
      BY <2>1, <2>2 DEF SumsUpTo
    <2> QED
      BY <2>3
  <1>2. ASSUME NEW n \in Nat, n \in P PROVE n + 1 \in P
    <2>1. PICK h : SumsUpTo(f, T, n, h)
      BY <1>2
    <2> DEFINE g == [s \in Small(T, n + 1) |->
                       IF s = {} THEN 0 ELSE f[Taken(s)] + h[s \ {Taken(s)}]]
    <2>2. ASSUME NEW s \in Small(T, n + 1), s # {}
          PROVE  Taken(s) \in T /\ s \ {Taken(s)} \in Small(T, n)
      BY <1>0, <2>2, OneFewer DEF Small
    <2>3. g \in [Small(T, n + 1) -> Int]
      BY <2>1, <2>2 DEF SumsUpTo
    <2>4. ASSUME NEW s \in Small(T, n) PROVE s \in Small(T, n + 1) /\ g[s] = h[s]
      <3>1. s \in Small(T, n + 1)
        BY <1>0 DEF Small
      <3> QED
        BY <2>1, <3>1 DEF SumsUpTo
    <2>5. \A s \in Small(T, n + 1) : g[s] = IF s = {} THEN 0 ELSE f[Taken(s)] + g[s \ {Taken(s)}]
      BY <2>2, <2>4
    <2>6. SumsUpTo(f, T, n + 1, g)
      BY <2>3, <2>5 DEF SumsUpTo
    <2> HIDE DEF g
    <2> QED
      BY <2>6
  <1> HIDE DEF P
  <1>3. \A n \in Nat : n \in P
    BY <1>1, <1>2, NumbersInTurn
  <1> QED
    BY <1>3 DEF P

\* There is a sum of every subset, and it is the one taken.
LEMMA SumsExist ==
    ASSUME NEW T, IsFiniteSet(T), NEW f \in [T -> Int]
    PROVE  \E g : SumsOf(f, T, g) /\ g \in [SUBSET T -> Int]
  <1>1. Cardinality(T) \in Nat
    BY FS_CardinalityType
  <1>2. PICK h : SumsUpTo(f, T, Cardinality(T), h)
    BY <1>1, SumsExistUpTo
  <1>3. Small(T, Cardinality(T)) = SUBSET T
    BY FS_Subset DEF Small
  <1> QED
    BY <1>2, <1>3 DEF SumsUpTo, SumsOf

LEMMA SumsAgree ==
    ASSUME NEW T, IsFiniteSet(T), NEW S \in SUBSET T, NEW f \in [T -> Int],
           NEW g, SumsOf(f, S, g), NEW h, SumsOf(f, T, h)
    PROVE  g[S] = h[S]
  <1> DEFINE P == {n \in Nat : \A s \in SUBSET S : Cardinality(s) <= n => g[s] = h[s]}
  <1>0. \A s \in SUBSET S : IsFiniteSet(s) /\ Cardinality(s) \in Nat /\ (Cardinality(s) = 0 => s = {})
    BY FS_Subset, FS_CardinalityType, FS_EmptySet
  <1>1. \A s \in SUBSET S : g[s] = IF s = {} THEN 0 ELSE f[Taken(s)] + g[s \ {Taken(s)}]
    BY DEF SumsOf
  <1>2. \A s \in SUBSET S : h[s] = IF s = {} THEN 0 ELSE f[Taken(s)] + h[s \ {Taken(s)}]
    BY DEF SumsOf
  <1>3. 0 \in P
    <2>1. \A s \in SUBSET S : Cardinality(s) <= 0 => s = {}
      BY <1>0
    <2>2. g[{}] = 0 /\ h[{}] = 0
      BY <1>1, <1>2
    <2> QED
      BY <2>1, <2>2
  <1>4. ASSUME NEW n \in Nat, n \in P PROVE n + 1 \in P
    <2>1. ASSUME NEW s \in SUBSET S, Cardinality(s) <= n + 1 PROVE g[s] = h[s]
      <3>1. CASE s = {}
        BY <1>1, <1>2, <3>1
      <3>2. CASE s # {}
        <4>1. s \ {Taken(s)} \in SUBSET S /\ Cardinality(s \ {Taken(s)}) <= n
          BY <1>0, <2>1, <3>2, OneFewer
        <4>2. g[s \ {Taken(s)}] = h[s \ {Taken(s)}]
          BY <1>4, <4>1
        <4> QED
          BY <1>1, <1>2, <3>2, <4>2
      <3> QED
        BY <3>1, <3>2
    <2> QED
      BY <2>1
  <1> HIDE DEF P
  <1>5. \A n \in Nat : n \in P
    BY <1>3, <1>4, NumbersInTurn
  <1> QED
    BY <1>0, <1>5 DEF P

\* A sum is its first term and the sum of the others.
LEMMA SumUnfolds ==
    ASSUME NEW T, IsFiniteSet(T), NEW f \in [T -> Int]
    PROVE  \A S \in SUBSET T :
             /\ SumFunctionOnSet(f, S) \in Int
             /\ SumFunctionOnSet(f, S) =
                  IF S = {} THEN 0
                  ELSE f[Taken(S)] + SumFunctionOnSet(f, S \ {Taken(S)})
  <1>1. PICK h : SumsOf(f, T, h) /\ h \in [SUBSET T -> Int]
    BY SumsExist
  <1>2. ASSUME NEW S \in SUBSET T PROVE SumFunctionOnSet(f, S) = h[S]
    <2>1. IsFiniteSet(S)
      BY FS_Subset
    <2>2. [x \in S |-> f[x]] \in [S -> Int]
      OBVIOUS
    <2>3. PICK k : SumsOf([x \in S |-> f[x]], S, k)
      BY <2>1, <2>2, SumsExist
    <2>4. SumsOf(f, S, k)
      <3>1. \A s \in SUBSET S : s # {} => Taken(s) \in S
        BY DEF Taken
      <3>2. \A s \in SUBSET S : s # {} => [x \in S |-> f[x]][Taken(s)] = f[Taken(s)]
        BY <3>1
      <3> QED
        BY <2>3, <3>2 DEF SumsOf
    <2>5. SumsOf(f, S, CHOOSE g : SumsOf(f, S, g))
      BY <2>4
    <2> QED
      BY <1>1, <2>5, SumIsTaken, SumsAgree
  <1>3. \A S \in SUBSET T : S # {} => S \ {Taken(S)} \in SUBSET T
    OBVIOUS
  <1>4. \A S \in SUBSET T : h[S] = IF S = {} THEN 0 ELSE f[Taken(S)] + h[S \ {Taken(S)}]
    BY <1>1 DEF SumsOf
  <1> QED
    BY <1>1, <1>2, <1>3, <1>4

\* Where one term grows by d, so does each sum it is in.
LEMMA SumGrows ==
    ASSUME NEW T, IsFiniteSet(T), NEW f \in [T -> Int], NEW g \in [T -> Int],
           NEW x \in T, NEW d \in Int, g[x] = f[x] + d, \A y \in T \ {x} : g[y] = f[y]
    PROVE  \A S \in SUBSET T :
             SumFunctionOnSet(g, S) = SumFunctionOnSet(f, S) + (IF x \in S THEN d ELSE 0)
  <1> DEFINE Grows(S) ==
               SumFunctionOnSet(g, S) = SumFunctionOnSet(f, S) + (IF x \in S THEN d ELSE 0)
             P == {n \in Nat : \A S \in SUBSET T : Cardinality(S) <= n => Grows(S)}
  <1>0. \A s \in SUBSET T : IsFiniteSet(s) /\ Cardinality(s) \in Nat /\ (Cardinality(s) = 0 => s = {})
    BY FS_Subset, FS_CardinalityType, FS_EmptySet
  <1>1. Grows({})
    <2>1. {} \in SUBSET T
      OBVIOUS
    <2>2. SumFunctionOnSet(f, {}) = 0 /\ SumFunctionOnSet(g, {}) = 0
      BY <2>1, SumUnfolds
    <2> QED
      BY <2>2
  <1>2. 0 \in P
    BY <1>0, <1>1
  <1>3. ASSUME NEW n \in Nat, n \in P PROVE n + 1 \in P
    <2>1. ASSUME NEW S \in SUBSET T, Cardinality(S) <= n + 1, S # {} PROVE Grows(S)
      <3>1. PICK t \in S : t = Taken(S)
        BY <2>1 DEF Taken
      <3>2. S \ {t} \in SUBSET T /\ Cardinality(S \ {t}) <= n
        BY <1>0, <2>1, <3>1, OneFewer
      <3>3. Grows(S \ {t})
        BY <1>3, <3>2
      <3>4. /\ SumFunctionOnSet(f, S) = f[t] + SumFunctionOnSet(f, S \ {t})
            /\ SumFunctionOnSet(f, S \ {t}) \in Int
        BY <2>1, <3>1, <3>2, SumUnfolds
      <3>5. /\ SumFunctionOnSet(g, S) = g[t] + SumFunctionOnSet(g, S \ {t})
            /\ SumFunctionOnSet(g, S \ {t}) \in Int
        BY <2>1, <3>1, <3>2, SumUnfolds
      <3>6. f[t] \in Int /\ g[t] \in Int
        OBVIOUS
      <3>7. CASE t = x
        BY <3>3, <3>4, <3>5, <3>6, <3>7
      <3>8. CASE t # x
        <4>1. g[t] = f[t]
          BY <3>8
        <4>2. x \in S <=> x \in S \ {t}
          BY <3>8
        <4> QED
          BY <3>3, <3>4, <3>5, <3>6, <4>1, <4>2
      <3> QED
        BY <3>7, <3>8
    <2> QED
      BY <1>1, <2>1
  <1> HIDE DEF P
  <1>4. \A n \in Nat : n \in P
    BY <1>2, <1>3, NumbersInTurn
  <1> QED
    BY <1>0, <1>4 DEF P

-----------------------------------------------------------------------------
LeaveInv == LeaveTypeOK /\ ApprovalsCharged

LeaveWork == Requests \X Decisions \X {"count", "notify"}
IsCounting(job, r) == job # NoLeaveJob /\ job[1] = r /\ job[3] = "count"

LEMMA CountingFinite ==
    \A r : IsFiniteSet(Counting(r)) /\ Cardinality(Counting(r)) \in Nat
  <1> SUFFICES ASSUME NEW r PROVE IsFiniteSet(Counting(r)) /\ Cardinality(Counting(r)) \in Nat
    OBVIOUS
  <1>1. Counting(r) \subseteq LeaveSlots
    BY DEF Counting
  <1> QED
    BY <1>1, RequestsAssumption, FS_Subset, FS_CardinalityType

\* One handler goes on to job: who counts changes by that handler.
LEMMA OneJobChanges ==
    ASSUME LeaveTypeOK, NEW s \in LeaveSlots, NEW job \in LeaveWork \cup {NoLeaveJob},
           leaveJobs' = [leaveJobs EXCEPT ![s] = job]
    PROVE  /\ leaveJobs' \in [LeaveSlots -> LeaveWork \cup {NoLeaveJob}]
           /\ \A r : Cardinality(Counting(r)') =
                Cardinality(Counting(r)) + (IF IsCounting(job, r) THEN 1 ELSE 0)
                                         - (IF IsCounting(leaveJobs[s], r) THEN 1 ELSE 0)
  <1>1. /\ leaveJobs'[s] = job /\ \A t \in LeaveSlots \ {s} : leaveJobs'[t] = leaveJobs[t]
        /\ leaveJobs' \in [LeaveSlots -> LeaveWork \cup {NoLeaveJob}]
    BY DEF LeaveTypeOK, LeaveWork
  <1>2. ASSUME NEW r
        PROVE  Cardinality(Counting(r)') =
                 Cardinality(Counting(r)) + (IF IsCounting(job, r) THEN 1 ELSE 0)
                                          - (IF IsCounting(leaveJobs[s], r) THEN 1 ELSE 0)
    <2>1. \A t \in LeaveSlots \ {s} : t \in Counting(r)' <=> t \in Counting(r)
      BY <1>1 DEF Counting
    <2>2. /\ s \in Counting(r)' <=> IsCounting(job, r)
          /\ s \in Counting(r) <=> IsCounting(leaveJobs[s], r)
      BY <1>1 DEF Counting, IsCounting
    <2>3. Counting(r) \subseteq LeaveSlots /\ Counting(r)' \subseteq LeaveSlots
      BY DEF Counting
    <2>4. IsFiniteSet(Counting(r)) /\ Cardinality(Counting(r)) \in Nat
      BY CountingFinite
    <2>5. CASE s \in Counting(r) /\ s \notin Counting(r)'
      <3>1. Counting(r)' = Counting(r) \ {s}
        BY <2>1, <2>3, <2>5
      <3>2. Cardinality(Counting(r)') = Cardinality(Counting(r)) - 1
        BY <2>4, <2>5, <3>1, FS_RemoveElement
      <3> QED
        BY <2>2, <2>4, <2>5, <3>2
    <2>6. CASE s \notin Counting(r) /\ s \in Counting(r)'
      <3>1. Counting(r)' = Counting(r) \cup {s}
        BY <2>1, <2>3, <2>6
      <3>2. Cardinality(Counting(r)') = Cardinality(Counting(r)) + 1
        BY <2>4, <2>6, <3>1, FS_AddElement
      <3> QED
        BY <2>2, <2>4, <2>6, <3>2
    <2>7. CASE s \in Counting(r) <=> s \in Counting(r)'
      <3>1. Counting(r)' = Counting(r)
        BY <2>1, <2>3, <2>7
      <3> QED
        BY <2>2, <2>4, <2>7, <3>1
    <2> QED
      BY <2>5, <2>6, <2>7
  <1> QED
    BY <1>1, <1>2

LEMMA ChargesTyped ==
    ASSUME LeaveTypeOK, NEW r \in Requests
    PROVE  /\ Charge(r) \in Nat /\ Charged(r) \in Int /\ r.key \in LeaveKeys
           /\ Charge(r)' = Charge(r)
  <1>1. r.days \in Int /\ r.key \in LeaveKeys
    BY RequestsAssumption
  <1>2. Charge(r) \in Nat /\ Charge(r)' = Charge(r)
    BY <1>1 DEF Charge
  <1>3. approvals[r] - Cardinality(Counting(r)) - uncounted[r] \in Int
    BY CountingFinite DEF LeaveTypeOK
  <1>4. \A c \in Nat, n \in Int : c * n \in Int
    OBVIOUS
  <1> QED
    BY <1>1, <1>2, <1>3, <1>4 DEF Charged

\* Where approvals, losses and those counting balance, so do the sums.
LEMMA ChargesStand ==
    ASSUME LeaveInv, leaveUsed' = leaveUsed,
           \A r \in Requests :
               approvals'[r] - Cardinality(Counting(r)') - uncounted'[r]
                 = approvals[r] - Cardinality(Counting(r)) - uncounted[r]
    PROVE  ApprovalsCharged'
  <1>1. \A r \in Requests : Charged(r)' = Charged(r)
    BY ChargesTyped DEF LeaveInv, Charged
  <1>2. [r \in Requests |-> Charged(r)]' = [r \in Requests |-> Charged(r)]
    BY <1>1
  <1> QED
    BY <1>2 DEF LeaveInv, ApprovalsCharged

LEMMA LeaveStarts == LeaveInit => LeaveInv
  <1> SUFFICES ASSUME LeaveInit PROVE LeaveInv
    OBVIOUS
  <1>1. LeaveTypeOK
    BY DEF LeaveInit, LeaveTypeOK, LeaveStatuses
  <1>2. \A r \in Requests : Charged(r) = 0
    <2> SUFFICES ASSUME NEW r \in Requests PROVE Charged(r) = 0
      OBVIOUS
    <2>1. Counting(r) = {}
      BY DEF LeaveInit, Counting
    <2>2. Cardinality(Counting(r)) = 0 /\ approvals[r] = 0 /\ uncounted[r] = 0
      BY <2>1, FS_EmptySet DEF LeaveInit
    <2>3. Charge(r) \in Nat
      BY <1>1, ChargesTyped
    <2>4. \A c \in Nat : c * (0 - 0 - 0) = 0
      OBVIOUS
    <2> QED
      BY <2>2, <2>3, <2>4 DEF Charged
  <1>3. ApprovalsCharged
    <2> DEFINE none == [r \in Requests |-> 0]
               P == {n \in Nat : \A S \in SUBSET Requests :
                                     Cardinality(S) <= n => SumFunctionOnSet(none, S) = 0}
    <2>0. \A S \in SUBSET Requests :
            IsFiniteSet(S) /\ Cardinality(S) \in Nat /\ (Cardinality(S) = 0 => S = {})
      BY RequestsAssumption, FS_Subset, FS_CardinalityType, FS_EmptySet
    <2>1. none \in [Requests -> Int] /\ IsFiniteSet(Requests)
      BY RequestsAssumption
    <2>2. {} \in SUBSET Requests /\ \A S \in SUBSET Requests : Cardinality(S) <= 0 => S = {}
      BY <2>0
    <2> HIDE DEF none
    <2>3. SumFunctionOnSet(none, {}) = 0
      BY <2>1, <2>2, SumUnfolds
    <2>4. 0 \in P
      BY <2>2, <2>3
    <2>5. ASSUME NEW n \in Nat, n \in P PROVE n + 1 \in P
      <3>1. ASSUME NEW S \in SUBSET Requests, Cardinality(S) <= n + 1, S # {}
            PROVE  SumFunctionOnSet(none, S) = 0
        <4>1. PICK t \in S : t = Taken(S)
          BY <3>1 DEF Taken
        <4>2. S \ {t} \in SUBSET Requests /\ Cardinality(S \ {t}) <= n
          BY <2>0, <3>1, <4>1, OneFewer
        <4>3. SumFunctionOnSet(none, S \ {t}) = 0
          BY <2>5, <4>2
        <4>4. SumFunctionOnSet(none, S) = none[t] + SumFunctionOnSet(none, S \ {t})
          BY <2>1, <3>1, <4>1, SumUnfolds
        <4>5. none[t] = 0
          BY DEF none
        <4> QED
          BY <4>3, <4>4, <4>5
      <3> QED
        BY <2>3, <3>1
    <2> HIDE DEF P
    <2>6. \A n \in Nat : n \in P
      BY <2>4, <2>5, NumbersInTurn
    <2>7. \A S \in SUBSET Requests : SumFunctionOnSet(none, S) = 0
      BY <2>0, <2>6 DEF P
    <2>8. [r \in Requests |-> Charged(r)] = none
      BY <1>2 DEF none
    <2>9. \A k \in LeaveKeys : leaveUsed[k] = 0
      BY DEF LeaveInit
    <2>10. \A k : {r \in Requests : r.key = k} \in SUBSET Requests
      OBVIOUS
    <2> QED
      BY <2>7, <2>8, <2>9, <2>10 DEF ApprovalsCharged
  <1> QED
    BY <1>1, <1>3 DEF LeaveInv

LEMMA DecideLeaveKeeps ==
    ASSUME LeaveInv, NEW c \in LeaveConsoles, NEW s \in LeaveSlots, NEW r \in Requests,
           NEW d \in Decisions, DecideLeave(c, s, r, d)
    PROVE  LeaveInv'
  <1>1. /\ leaveJobs[s] = NoLeaveJob /\ leaveStatus' = [leaveStatus EXCEPT ![r] = d]
        /\ leaveUsed' = leaveUsed /\ queueRows' = queueRows /\ notices' = notices
        /\ uncounted' = uncounted
    BY DEF DecideLeave
  <1>2. LeaveTypeOK
    BY DEF LeaveInv
  <1>3. leaveStatus' \in [Requests -> LeaveStatuses]
    BY <1>1, <1>2 DEF LeaveTypeOK, LeaveStatuses
  <1>4. \A q : ~IsCounting(leaveJobs[s], q)
    BY <1>1 DEF IsCounting
  <1>5. CASE /\ approvals' = [approvals EXCEPT ![r] = @ + 1]
             /\ leaveJobs' = [leaveJobs EXCEPT ![s] = <<r, d, "count">>]
    <2>1. <<r, d, "count">> \in LeaveWork /\ \A q : IsCounting(<<r, d, "count">>, q) <=> q = r
      BY DEF LeaveWork, IsCounting, NoLeaveJob
    <2>2. /\ leaveJobs' \in [LeaveSlots -> LeaveWork \cup {NoLeaveJob}]
          /\ \A q : Cardinality(Counting(q)') = Cardinality(Counting(q)) + (IF q = r THEN 1 ELSE 0)
      <3>1. <<r, d, "count">> \in LeaveWork \cup {NoLeaveJob}
        BY <2>1
      <3>2. /\ leaveJobs' \in [LeaveSlots -> LeaveWork \cup {NoLeaveJob}]
            /\ \A q : Cardinality(Counting(q)') =
                 Cardinality(Counting(q)) + (IF IsCounting(<<r, d, "count">>, q) THEN 1 ELSE 0)
                                          - (IF IsCounting(leaveJobs[s], q) THEN 1 ELSE 0)
        BY <1>2, <1>5, <3>1, OneJobChanges
      <3> QED
        BY <1>4, <2>1, <3>2, CountingFinite
    <2>3. /\ approvals' \in [Requests -> Nat]
          /\ \A q \in Requests : approvals'[q] = approvals[q] + (IF q = r THEN 1 ELSE 0)
      BY <1>2, <1>5 DEF LeaveTypeOK
    <2>4. ApprovalsCharged'
      <3>1. \A q \in Requests : approvals[q] \in Nat /\ uncounted[q] \in Nat
        BY <1>2 DEF LeaveTypeOK
      <3> QED
        BY <1>1, <2>2, <2>3, <3>1, CountingFinite, ChargesStand
    <2> QED
      BY <1>1, <1>2, <1>3, <2>2, <2>3, <2>4 DEF LeaveInv, LeaveTypeOK, LeaveWork
  <1>6. CASE /\ approvals' = approvals
             /\ leaveJobs' = [leaveJobs EXCEPT ![s] = <<r, d, "notify">>]
    <2>1. <<r, d, "notify">> \in LeaveWork /\ \A q : ~IsCounting(<<r, d, "notify">>, q)
      BY DEF LeaveWork, IsCounting, NoLeaveJob
    <2>2. /\ leaveJobs' \in [LeaveSlots -> LeaveWork \cup {NoLeaveJob}]
          /\ \A q : Cardinality(Counting(q)') = Cardinality(Counting(q))
      <3>1. <<r, d, "notify">> \in LeaveWork \cup {NoLeaveJob}
        BY <2>1
      <3>2. /\ leaveJobs' \in [LeaveSlots -> LeaveWork \cup {NoLeaveJob}]
            /\ \A q : Cardinality(Counting(q)') =
                 Cardinality(Counting(q)) + (IF IsCounting(<<r, d, "notify">>, q) THEN 1 ELSE 0)
                                          - (IF IsCounting(leaveJobs[s], q) THEN 1 ELSE 0)
        BY <1>2, <1>6, <3>1, OneJobChanges
      <3> QED
        BY <1>4, <2>1, <3>2, CountingFinite
    <2>3. ApprovalsCharged'
      BY <1>1, <1>6, <2>2, ChargesStand
    <2> QED
      BY <1>1, <1>2, <1>3, <1>6, <2>2, <2>3 DEF LeaveInv, LeaveTypeOK, LeaveWork
  <1> QED
    BY <1>5, <1>6 DEF DecideLeave

LEMMA CountDaysKeeps ==
    ASSUME LeaveInv, NEW s \in LeaveSlots, CountDays(s)
    PROVE  LeaveInv'
  <1>1. LeaveTypeOK
    BY DEF LeaveInv
  <1>2. /\ leaveJobs[s] # NoLeaveJob /\ leaveJobs[s][3] = "count"
        /\ leaveStatus' = leaveStatus /\ queueRows' = queueRows /\ notices' = notices
        /\ approvals' = approvals
    BY DEF CountDays
  <1>3. leaveJobs[s] \in LeaveWork
    BY <1>1, <1>2 DEF LeaveTypeOK, LeaveWork
  <1>4. PICK r \in Requests, d \in Decisions : leaveJobs[s] = <<r, d, "count">>
    BY <1>2, <1>3 DEF LeaveWork
  <1>5. \A q : IsCounting(leaveJobs[s], q) <=> q = r
    BY <1>2, <1>4 DEF IsCounting
  <1>6. \A q \in Requests : approvals[q] \in Nat /\ uncounted[q] \in Nat
    BY <1>1 DEF LeaveTypeOK
  <1>7. CASE /\ leaveUsed' = [leaveUsed EXCEPT ![r.key] = @ + Charge(r)]
             /\ leaveJobs' = [leaveJobs EXCEPT ![s][3] = "notify"]
             /\ uncounted' = uncounted
    <2>1. <<r, d, "notify">> \in LeaveWork /\ \A q : ~IsCounting(<<r, d, "notify">>, q)
      BY DEF LeaveWork, IsCounting, NoLeaveJob
    <2>2. leaveJobs' = [leaveJobs EXCEPT ![s] = <<r, d, "notify">>]
      <3>1. [<<r, d, "count">> EXCEPT ![3] = "notify"] = <<r, d, "notify">>
        OBVIOUS
      <3>2. leaveJobs' = [leaveJobs EXCEPT ![s] = [leaveJobs[s] EXCEPT ![3] = "notify"]]
        BY <1>7
      <3> QED
        BY <1>4, <3>1, <3>2
    <2>3. /\ leaveJobs' \in [LeaveSlots -> LeaveWork \cup {NoLeaveJob}]
          /\ \A q : Cardinality(Counting(q)') = Cardinality(Counting(q)) - (IF q = r THEN 1 ELSE 0)
      <3>1. <<r, d, "notify">> \in LeaveWork \cup {NoLeaveJob}
        BY <2>1
      <3>2. /\ leaveJobs' \in [LeaveSlots -> LeaveWork \cup {NoLeaveJob}]
            /\ \A q : Cardinality(Counting(q)') =
                 Cardinality(Counting(q)) + (IF IsCounting(<<r, d, "notify">>, q) THEN 1 ELSE 0)
                                          - (IF IsCounting(leaveJobs[s], q) THEN 1 ELSE 0)
        BY <1>1, <2>2, <3>1, OneJobChanges
      <3> QED
        BY <1>5, <2>1, <3>2, CountingFinite
    <2>4. \A q \in Requests \ {r} : Charged(q)' = Charged(q)
      BY <1>1, <1>2, <1>7, <2>3, CountingFinite, ChargesTyped DEF Charged
    <2>5. Charged(r)' = Charged(r) + Charge(r)
      <3> DEFINE n == approvals[r] - Cardinality(Counting(r)) - uncounted[r]
      <3>1. n \in Int /\ Charge(r) \in Nat /\ Charge(r)' = Charge(r)
        BY <1>1, <1>6, CountingFinite, ChargesTyped
      <3>2. approvals'[r] - Cardinality(Counting(r)') - uncounted'[r] = n + 1
        BY <1>2, <1>6, <1>7, <2>3, CountingFinite
      <3>3. \A c \in Nat, m \in Int : c * (m + 1) = c * m + c
        OBVIOUS
      <3>4. Charged(r) = Charge(r) * n /\ Charged(r)' = Charge(r) * (n + 1)
        BY <3>1, <3>2 DEF Charged
      <3> QED
        BY <3>1, <3>3, <3>4
    <2> DEFINE before == [q \in Requests |-> Charged(q)]
               after == [q \in Requests |-> Charged(q)']
    <2>6. before \in [Requests -> Int] /\ after \in [Requests -> Int]
      <3>1. \A q \in Requests : Charged(q) \in Int /\ Charge(r) \in Int
        BY <1>1, ChargesTyped
      <3>2. \A q \in Requests : Charged(q)' \in Int
        BY <2>4, <2>5, <3>1
      <3> QED
        BY <3>1, <3>2
    <2>7. after[r] = before[r] + Charge(r) /\ \A q \in Requests \ {r} : after[q] = before[q]
      BY <2>4, <2>5
    <2>8. Charge(r) \in Int /\ Charge(r) \in Nat /\ r.key \in LeaveKeys /\ IsFiniteSet(Requests)
      BY <1>1, ChargesTyped, RequestsAssumption
    <2> HIDE DEF before, after
    <2>9. \A S \in SUBSET Requests :
            SumFunctionOnSet(after, S) = SumFunctionOnSet(before, S) + (IF r \in S THEN Charge(r) ELSE 0)
      BY <2>6, <2>7, <2>8, SumGrows
    <2>10. /\ leaveUsed' \in [LeaveKeys -> Nat]
           /\ \A k \in LeaveKeys : leaveUsed'[k] = leaveUsed[k] + (IF k = r.key THEN Charge(r) ELSE 0)
      <3>1. leaveUsed \in [LeaveKeys -> Nat]
        BY <1>1 DEF LeaveTypeOK
      <3> QED
        BY <1>7, <2>8, <3>1
    <2>11. \A k \in LeaveKeys :
             leaveUsed'[k] = SumFunctionOnSet(after, {q \in Requests : q.key = k})
      <3> SUFFICES ASSUME NEW k \in LeaveKeys
                   PROVE  leaveUsed'[k] = SumFunctionOnSet(after, {q \in Requests : q.key = k})
        OBVIOUS
      <3> DEFINE S == {q \in Requests : q.key = k}
      <3>1. S \in SUBSET Requests /\ (r \in S <=> k = r.key)
        OBVIOUS
      <3>2. leaveUsed[k] = SumFunctionOnSet(before, S)
        BY DEF LeaveInv, ApprovalsCharged, before
      <3> HIDE DEF S
      <3>3. leaveUsed'[k] = SumFunctionOnSet(after, S)
        BY <2>9, <2>10, <3>1, <3>2
      <3> QED
        BY <3>3 DEF S
    <2>12. ApprovalsCharged'
      BY <2>11 DEF ApprovalsCharged, after
    <2> QED
      BY <1>1, <1>2, <1>7, <2>3, <2>10, <2>12 DEF LeaveInv, LeaveTypeOK, LeaveWork
  <1>8. CASE /\ leaveJobs' = [leaveJobs EXCEPT ![s] = NoLeaveJob]
             /\ uncounted' = [uncounted EXCEPT ![r] = @ + 1]
             /\ leaveUsed' = leaveUsed
    <2>1. \A q : ~IsCounting(NoLeaveJob, q)
      BY DEF IsCounting
    <2>2. /\ leaveJobs' \in [LeaveSlots -> LeaveWork \cup {NoLeaveJob}]
          /\ \A q : Cardinality(Counting(q)') = Cardinality(Counting(q)) - (IF q = r THEN 1 ELSE 0)
      <3>1. NoLeaveJob \in LeaveWork \cup {NoLeaveJob}
        OBVIOUS
      <3>2. /\ leaveJobs' \in [LeaveSlots -> LeaveWork \cup {NoLeaveJob}]
            /\ \A q : Cardinality(Counting(q)') =
                 Cardinality(Counting(q)) + (IF IsCounting(NoLeaveJob, q) THEN 1 ELSE 0)
                                          - (IF IsCounting(leaveJobs[s], q) THEN 1 ELSE 0)
        BY <1>1, <1>8, <3>1, OneJobChanges
      <3> QED
        BY <1>5, <2>1, <3>2, CountingFinite
    <2>3. /\ uncounted' \in [Requests -> Nat]
          /\ \A q \in Requests : uncounted'[q] = uncounted[q] + (IF q = r THEN 1 ELSE 0)
      BY <1>1, <1>8 DEF LeaveTypeOK
    <2>4. ApprovalsCharged'
      BY <1>2, <1>6, <1>8, <2>2, <2>3, CountingFinite, ChargesStand
    <2> QED
      BY <1>1, <1>2, <1>8, <2>2, <2>3, <2>4 DEF LeaveInv, LeaveTypeOK, LeaveWork
  <1> QED
    BY <1>4, <1>7, <1>8 DEF CountDays

LEMMA NotifyEmployeeKeeps ==
    ASSUME LeaveInv, NEW s \in LeaveSlots, NotifyEmployee(s)
    PROVE  LeaveInv'
  <1>1. LeaveTypeOK
    BY DEF LeaveInv
  <1>2. /\ leaveJobs[s] # NoLeaveJob /\ leaveJobs[s][3] = "notify"
        /\ leaveJobs' = [leaveJobs EXCEPT ![s] = NoLeaveJob]
        /\ leaveStatus' = leaveStatus /\ leaveUsed' = leaveUsed /\ queueRows' = queueRows
        /\ approvals' = approvals /\ uncounted' = uncounted
    BY DEF NotifyEmployee
  <1>3. leaveJobs[s] \in LeaveWork
    BY <1>1, <1>2 DEF LeaveTypeOK, LeaveWork
  <1>4. notices' \subseteq Requests \X Decisions
    BY <1>1, <1>3 DEF NotifyEmployee, LeaveTypeOK, LeaveWork
  <1>5. \A q : ~IsCounting(NoLeaveJob, q) /\ ~IsCounting(leaveJobs[s], q)
    BY <1>2 DEF IsCounting
  <1>6. /\ leaveJobs' \in [LeaveSlots -> LeaveWork \cup {NoLeaveJob}]
        /\ \A q : Cardinality(Counting(q)') = Cardinality(Counting(q))
    <2>1. NoLeaveJob \in LeaveWork \cup {NoLeaveJob}
      OBVIOUS
    <2>2. /\ leaveJobs' \in [LeaveSlots -> LeaveWork \cup {NoLeaveJob}]
          /\ \A q : Cardinality(Counting(q)') =
               Cardinality(Counting(q)) + (IF IsCounting(NoLeaveJob, q) THEN 1 ELSE 0)
                                        - (IF IsCounting(leaveJobs[s], q) THEN 1 ELSE 0)
      BY <1>1, <1>2, <2>1, OneJobChanges
    <2> QED
      BY <1>5, <2>2, CountingFinite
  <1>7. ApprovalsCharged'
    BY <1>2, <1>6, ChargesStand
  <1> QED
    BY <1>1, <1>2, <1>4, <1>6, <1>7 DEF LeaveInv, LeaveTypeOK, LeaveWork

LEMMA LeaveCrashKeeps ==
    ASSUME LeaveInv, LeaveCrash
    PROVE  LeaveInv'
  <1>1. LeaveTypeOK
    BY DEF LeaveInv
  <1>2. /\ leaveJobs' = [s \in LeaveSlots |-> NoLeaveJob]
        /\ uncounted' = [r \in Requests |-> uncounted[r] + Cardinality(Counting(r))]
        /\ leaveStatus' = leaveStatus /\ leaveUsed' = leaveUsed /\ queueRows' = queueRows
        /\ notices' = notices /\ approvals' = approvals
    BY DEF LeaveCrash
  <1>3. \A r : Counting(r)' = {}
    BY <1>2 DEF Counting
  <1>4. \A r : Cardinality(Counting(r)') = 0
    BY <1>3, FS_EmptySet
  <1>5. \A r \in Requests : approvals[r] \in Nat /\ uncounted[r] \in Nat
    BY <1>1 DEF LeaveTypeOK
  <1>6. uncounted' \in [Requests -> Nat]
    BY <1>2, <1>5, CountingFinite
  <1>7. ApprovalsCharged'
    BY <1>2, <1>4, <1>5, CountingFinite, ChargesStand
  <1> QED
    BY <1>1, <1>2, <1>6, <1>7 DEF LeaveInv, LeaveTypeOK

LEMMA LeaveKeeps == LeaveInv /\ [LeaveNext]_leaveVars => LeaveInv'
  <1> SUFFICES ASSUME LeaveInv, [LeaveNext]_leaveVars PROVE LeaveInv'
    OBVIOUS
  <1>1. ASSUME UNCHANGED <<leaveUsed, leaveJobs, notices, approvals, uncounted>>,
               leaveStatus' \in [Requests -> LeaveStatuses],
               queueRows' \in [LeaveConsoles -> [Requests -> LeaveStatuses]]
        PROVE  LeaveInv'
    <2>1. \A r : Counting(r)' = Counting(r)
      BY <1>1 DEF Counting
    <2>2. ApprovalsCharged'
      BY <1>1, <2>1, ChargesStand
    <2> QED
      BY <1>1, <2>2 DEF LeaveInv, LeaveTypeOK
  <1>2. /\ leaveStatus \in [Requests -> LeaveStatuses]
        /\ queueRows \in [LeaveConsoles -> [Requests -> LeaveStatuses]]
    BY DEF LeaveInv, LeaveTypeOK
  <1>3. ASSUME NEW r \in Requests, Submit(r) PROVE LeaveInv'
    BY <1>1, <1>2, <1>3 DEF Submit, LeaveStatuses
  <1>4. ASSUME NEW c \in LeaveConsoles, FetchQueue(c) PROVE LeaveInv'
    BY <1>1, <1>2, <1>4 DEF FetchQueue
  <1>5. CASE UNCHANGED leaveVars
    BY <1>1, <1>2, <1>5 DEF leaveVars
  <1> QED
    BY <1>3, <1>4, <1>5, DecideLeaveKeeps, CountDaysKeeps, NotifyEmployeeKeeps, LeaveCrashKeeps
       DEF LeaveNext

LEMMA LeaveInvariant == LeaveSpec => []LeaveInv
  BY LeaveStarts, LeaveKeeps, PTL DEF LeaveSpec

\* Leave requests, balances and decisions keep their shape: leaveService.ts.
THEOREM LeavesTyped == LeaveSpec => []LeaveTypeOK
  <1>1. LeaveInv => LeaveTypeOK
    BY DEF LeaveInv
  <1> QED
    BY <1>1, LeaveInvariant, PTL

\* A balance is what its approvals cost, less what is still being counted or
\* was lost, for any number of requests, consoles and handlers: setLeaveStatus
\* and the upsert of the balance, whatever is decided twice or crashes.
THEOREM ApprovalsAreCharged == LeaveSpec => []ApprovalsCharged
  <1>1. LeaveInv => ApprovalsCharged
    BY DEF LeaveInv
  <1> QED
    BY <1>1, LeaveInvariant, PTL

-----------------------------------------------------------------------------
\* Rows that match, found one entry after another.
Ids == 1..MaxEntries
KeepsOne(entries, f, rows, i) ==
    IF Matches(entries[i], f) THEN Append(rows, entries[i].id) ELSE rows
KeptUpTo(entries, f, n, kept) ==
    kept = [i \in 0..n |-> IF i = 0 THEN <<>>
                           ELSE IF Matches(entries[i], f) THEN Append(kept[i - 1], entries[i].id)
                           ELSE kept[i - 1]]

LEMMA KeptExistsUpTo ==
    ASSUME NEW entries, NEW f
    PROVE  \A n \in Nat : \E kept : KeptUpTo(entries, f, n, kept)
  <1> DEFINE P == {n \in Nat : \E kept : KeptUpTo(entries, f, n, kept)}
  <1>1. 0 \in P
    <2> DEFINE kept == [i \in 0..0 |-> <<>>]
    <2>1. KeptUpTo(entries, f, 0, kept)
      BY DEF KeptUpTo
    <2> HIDE DEF kept
    <2> QED
      BY <2>1
  <1>2. ASSUME NEW n \in Nat, n \in P PROVE n + 1 \in P
    <2>1. PICK kept : KeptUpTo(entries, f, n, kept)
      BY <1>2
    <2> DEFINE more == [i \in 0..(n + 1) |-> IF i <= n THEN kept[i]
                                             ELSE KeepsOne(entries, f, kept[n], n + 1)]
    <2>2. \A i \in 0..n : more[i] = kept[i]
      OBVIOUS
    <2>3. more[n + 1] = KeepsOne(entries, f, more[n], n + 1)
      OBVIOUS
    <2>4. \A i \in 0..n : kept[i] = IF i = 0 THEN <<>> ELSE KeepsOne(entries, f, kept[i - 1], i)
      BY <2>1 DEF KeptUpTo, KeepsOne
    <2>5. \A i \in 0..(n + 1) :
              more[i] = IF i = 0 THEN <<>> ELSE KeepsOne(entries, f, more[i - 1], i)
      <3> TAKE i \in 0..(n + 1)
      <3> HIDE DEF more
      <3>1. CASE i = 0
        BY <2>2, <2>4, <3>1
      <3>2. CASE i # 0 /\ i <= n
        <4>1. i \in 0..n /\ i - 1 \in 0..n
          BY <3>2
        <4>2. more[i] = kept[i] /\ more[i - 1] = kept[i - 1]
          BY <2>2, <4>1
        <4> QED
          BY <2>4, <3>2, <4>1, <4>2
      <3>3. CASE i = n + 1
        BY <2>3, <3>3
      <3> QED
        BY <3>1, <3>2, <3>3
    <2>6. more = [i \in 0..(n + 1) |-> more[i]]
      OBVIOUS
    <2> HIDE DEF more
    <2>7. KeptUpTo(entries, f, n + 1, more)
      <3>1. [i \in 0..(n + 1) |-> more[i]]
              = [i \in 0..(n + 1) |-> IF i = 0 THEN <<>> ELSE KeepsOne(entries, f, more[i - 1], i)]
        BY <2>5
      <3> QED
        BY <2>6, <3>1 DEF KeptUpTo, KeepsOne
    <2> QED
      BY <2>7
  <1> HIDE DEF P
  <1>3. \A n \in Nat : n \in P
    BY <1>1, <1>2, NumbersInTurn
  <1> QED
    BY <1>3 DEF P

LEMMA KeptSteps ==
    ASSUME NEW entries, NEW f, NEW n \in Nat, NEW kept, KeptUpTo(entries, f, n, kept)
    PROVE  /\ kept[0] = <<>>
           /\ \A i \in 1..n : kept[i] = KeepsOne(entries, f, kept[i - 1], i)
  <1>1. \A i \in 0..n : kept[i] = IF i = 0 THEN <<>> ELSE KeepsOne(entries, f, kept[i - 1], i)
    BY DEF KeptUpTo, KeepsOne
  <1> QED
    BY <1>1

\* The recursive definition, unfolded once.
LEMMA KeptUnfolds ==
    ASSUME NEW entries, Len(entries) \in Nat, NEW f
    PROVE  /\ Kept(entries, f)[0] = <<>>
           /\ \A i \in 1..Len(entries) :
                 Kept(entries, f)[i] = KeepsOne(entries, f, Kept(entries, f)[i - 1], i)
  <1> DEFINE n == Len(entries)
  <1>1. PICK kept : KeptUpTo(entries, f, n, kept)
    BY KeptExistsUpTo
  <1>2. Kept(entries, f) = CHOOSE k : KeptUpTo(entries, f, n, k)
    BY DEF Kept, KeptUpTo
  <1>3. KeptUpTo(entries, f, n, Kept(entries, f))
    BY <1>1, <1>2
  <1> QED
    BY <1>3, KeptSteps

\* What the first entries that match are: ids, and no more than the entries.
LEMMA KeptTyped ==
    ASSUME NEW entries \in Seq(Entry), NEW f
    PROVE  \A n \in 0..Len(entries) :
               Kept(entries, f)[n] \in Seq(Ids) /\ Len(Kept(entries, f)[n]) <= n
  <1> DEFINE K == Kept(entries, f)
             P == {n \in Nat : n <= Len(entries) => K[n] \in Seq(Ids) /\ Len(K[n]) <= n}
  <1>1. /\ Len(entries) \in Nat
        /\ K[0] = <<>>
        /\ \A i \in 1..Len(entries) : K[i] = KeepsOne(entries, f, K[i - 1], i)
    BY KeptUnfolds
  <1> HIDE DEF K
  <1>2. 0 \in P
    <2>1. K[0] \in Seq(Ids) /\ Len(K[0]) = 0
      BY <1>1, EmptySeq
    <2> QED
      BY <2>1
  <1>3. ASSUME NEW n \in Nat, n \in P PROVE n + 1 \in P
    <2> SUFFICES ASSUME n + 1 <= Len(entries)
                 PROVE  K[n + 1] \in Seq(Ids) /\ Len(K[n + 1]) <= n + 1
      OBVIOUS
    <2>1. K[n] \in Seq(Ids) /\ Len(K[n]) <= n
      BY <1>1, <1>3
    <2>2. n + 1 \in 1..Len(entries) /\ (n + 1) - 1 = n
      BY <1>1
    <2>3. K[n + 1] = KeepsOne(entries, f, K[n], n + 1)
      BY <1>1, <2>2
    <2>4. entries[n + 1].id \in Ids
      <3>1. entries[n + 1] \in Entry
        BY <2>2, ElementOfSeq
      <3> QED
        BY <3>1 DEF Entry, Ids
    <2>5. /\ Append(K[n], entries[n + 1].id) \in Seq(Ids)
          /\ Len(Append(K[n], entries[n + 1].id)) = Len(K[n]) + 1
      BY <2>1, <2>4, AppendProperties
    <2>6. Len(K[n]) \in Nat
      BY <2>1
    <2> QED
      BY <2>1, <2>3, <2>5, <2>6 DEF KeepsOne
  <1> HIDE DEF P
  <1>4. \A n \in Nat : n \in P
    BY <1>2, <1>3, NumbersInTurn
  <1> QED
    BY <1>1, <1>4 DEF P, K

\* One row more, the others in their order, none of them ahead of its place.
Grown(M, N) ==
    /\ Len(N) = Len(M) + 1
    /\ \A i \in 1..Len(M) : N[i] = M[i] \/ N[i + 1] = M[i]

LEMMA GrownAlike ==
    ASSUME NEW M \in Seq(Ids), NEW N \in Seq(Ids), Grown(M, N), NEW x \in Ids
    PROVE  Grown(Append(M, x), Append(N, x))
  <1>1. /\ Len(M) \in Nat /\ Len(N) = Len(M) + 1
        /\ Len(Append(M, x)) = Len(M) + 1 /\ Len(Append(N, x)) = Len(N) + 1
        /\ \A i \in 1..Len(M) : Append(M, x)[i] = M[i]
        /\ \A i \in 1..Len(N) : Append(N, x)[i] = N[i]
        /\ Append(M, x)[Len(M) + 1] = x /\ Append(N, x)[Len(N) + 1] = x
    BY AppendProperties DEF Grown
  <1>2. ASSUME NEW i \in 1..(Len(M) + 1)
        PROVE  Append(N, x)[i] = Append(M, x)[i] \/ Append(N, x)[i + 1] = Append(M, x)[i]
    <2>1. CASE i = Len(M) + 1
      BY <1>1, <2>1
    <2>2. CASE i # Len(M) + 1
      <3>1. i \in 1..Len(M) /\ i \in 1..Len(N) /\ i + 1 \in 1..Len(N)
        BY <1>1, <2>2
      <3>2. N[i] = M[i] \/ N[i + 1] = M[i]
        BY <3>1 DEF Grown
      <3> QED
        BY <1>1, <3>1, <3>2
    <2> QED
      BY <2>1, <2>2
  <1> QED
    BY <1>1, <1>2 DEF Grown

LEMMA GrownByLast ==
    ASSUME NEW M \in Seq(Ids), NEW x \in Ids
    PROVE  Grown(M, Append(M, x))
  BY AppendProperties DEF Grown

\* Entries alike from one place on keep alike what was kept until there.
Alike(e, g, f) == e.id = g.id /\ (Matches(e, f) <=> Matches(g, f))

AlikeAfter(K, L, a, b, k) ==
    /\ K[a] = L[b] => K[a + k] = L[b + k]
    /\ Grown(K[a], L[b]) => Grown(K[a + k], L[b + k])

LEMMA AlikeOnwards ==
    ASSUME NEW s \in Seq(Entry), NEW t \in Seq(Entry), NEW f,
           NEW a \in 0..Len(s), NEW b \in 0..Len(t), NEW n \in Nat,
           a + n <= Len(s), b + n <= Len(t),
           \A k \in 1..n : Alike(s[a + k], t[b + k], f)
    PROVE  AlikeAfter(Kept(s, f), Kept(t, f), a, b, n)
  <1> DEFINE K == Kept(s, f)
             L == Kept(t, f)
             P == {k \in Nat : k <= n => AlikeAfter(K, L, a, b, k)}
  <1>1. /\ Len(s) \in Nat /\ Len(t) \in Nat
        /\ \A i \in 1..Len(s) : K[i] = KeepsOne(s, f, K[i - 1], i)
        /\ \A i \in 1..Len(t) : L[i] = KeepsOne(t, f, L[i - 1], i)
    BY KeptUnfolds
  <1>2. /\ \A i \in 0..Len(s) : K[i] \in Seq(Ids)
        /\ \A i \in 0..Len(t) : L[i] \in Seq(Ids)
    BY KeptTyped
  <1> HIDE DEF K, L
  <1>3. 0 \in P
    <2>1. a + 0 = a /\ b + 0 = b
      OBVIOUS
    <2> QED
      BY <2>1 DEF AlikeAfter
  <1>4. ASSUME NEW k \in Nat, k \in P PROVE k + 1 \in P
    <2> SUFFICES ASSUME k + 1 <= n PROVE AlikeAfter(K, L, a, b, k + 1)
      OBVIOUS
    <2>1. k <= n
      OBVIOUS
    <2>2. AlikeAfter(K, L, a, b, k)
      BY <1>4, <2>1
    <2>3. /\ a + (k + 1) \in 1..Len(s) /\ (a + (k + 1)) - 1 = a + k /\ a + k \in 0..Len(s)
          /\ b + (k + 1) \in 1..Len(t) /\ (b + (k + 1)) - 1 = b + k /\ b + k \in 0..Len(t)
          /\ k + 1 \in 1..n
      BY <1>1
    <2>4. /\ K[a + (k + 1)] = KeepsOne(s, f, K[a + k], a + (k + 1))
          /\ L[b + (k + 1)] = KeepsOne(t, f, L[b + k], b + (k + 1))
      BY <1>1, <2>3
    <2>5. Alike(s[a + (k + 1)], t[b + (k + 1)], f) /\ s[a + (k + 1)].id \in Ids
      <3>1. s[a + (k + 1)] \in Entry
        BY <2>3, ElementOfSeq
      <3>2. s[a + (k + 1)].id \in Ids
        BY <3>1 DEF Entry, Ids
      <3> QED
        BY <2>3, <3>2
    <2>6. K[a + k] \in Seq(Ids) /\ L[b + k] \in Seq(Ids)
      BY <1>2, <2>3
    <2>7. CASE Matches(s[a + (k + 1)], f)
      <3>1. /\ K[a + (k + 1)] = Append(K[a + k], s[a + (k + 1)].id)
            /\ L[b + (k + 1)] = Append(L[b + k], s[a + (k + 1)].id)
        BY <2>4, <2>5, <2>7 DEF KeepsOne, Alike
      <3> QED
        BY <2>2, <2>5, <2>6, <3>1, GrownAlike DEF AlikeAfter
    <2>8. CASE ~ Matches(s[a + (k + 1)], f)
      <3>1. K[a + (k + 1)] = K[a + k] /\ L[b + (k + 1)] = L[b + k]
        BY <2>4, <2>5, <2>8 DEF KeepsOne, Alike
      <3> QED
        BY <2>2, <3>1 DEF AlikeAfter
    <2> QED
      BY <2>7, <2>8
  <1> HIDE DEF P
  <1>5. \A k \in Nat : k \in P
    BY <1>3, <1>4, NumbersInTurn
  <1>6. n \in P /\ n <= n
    BY <1>5
  <1> QED
    BY <1>6 DEF P, K, L

\* A check-in at any place, as it is sorted in.
LEMMA SortedIn ==
    ASSUME NEW s \in Seq(Entry), NEW e \in Entry, NEW p \in 1..(Len(s) + 1)
    PROVE  /\ InsertAt(s, p, e) \in Seq(Entry)
           /\ Len(InsertAt(s, p, e)) = Len(s) + 1
           /\ \A i \in 1..(p - 1) : InsertAt(s, p, e)[i] = s[i]
           /\ InsertAt(s, p, e)[p] = e
           /\ \A i \in p..Len(s) : InsertAt(s, p, e)[i + 1] = s[i]
  <1> DEFINE before == SubSeq(s, 1, p - 1)
             after  == SubSeq(s, p, Len(s))
             front  == before \o <<e>>
             t      == front \o after
  <1>1. Len(s) \in Nat /\ p \in Int /\ p >= 1 /\ p <= Len(s) + 1 /\ p - 1 \in Int /\ Len(s) \in Int
    OBVIOUS
  <1>2. InsertAt(s, p, e) = t
    BY DEF InsertAt
  <1>3. \A i \in 1..Len(s) : s[i] \in Entry
    BY ElementOfSeq
  <1>4. \A i \in 1..(p - 1) : s[i] \in Entry
    BY <1>1, <1>3
  <1>5. /\ before \in Seq(Entry)
        /\ Len(before) = IF 1 <= p - 1 THEN (p - 1) - 1 + 1 ELSE 0
        /\ \A i \in 1..((p - 1) - 1 + 1) : before[i] = s[1 + i - 1]
    BY <1>1, <1>4, SubSeqProperties
  <1>6. \A i \in p..Len(s) : s[i] \in Entry
    BY <1>1, <1>3
  <1>7. /\ after \in Seq(Entry)
        /\ Len(after) = IF p <= Len(s) THEN Len(s) - p + 1 ELSE 0
        /\ \A i \in 1..(Len(s) - p + 1) : after[i] = s[p + i - 1]
    BY <1>1, <1>6, SubSeqProperties
  <1> HIDE DEF before, after
  <1>8. Len(before) = p - 1 /\ \A i \in 1..(p - 1) : before[i] = s[i]
    BY <1>1, <1>5
  <1>9. Len(after) = Len(s) - p + 1 /\ \A i \in p..Len(s) : after[i - p + 1] = s[i]
    <2>1. Len(after) = Len(s) - p + 1
      BY <1>1, <1>7
    <2>2. ASSUME NEW i \in p..Len(s) PROVE after[i - p + 1] = s[i]
      <3>1. i - p + 1 \in 1..(Len(s) - p + 1) /\ p + (i - p + 1) - 1 = i
        BY <1>1
      <3> QED
        BY <1>7, <3>1
    <2> QED
      BY <2>1, <2>2
  <1>10. <<e>> \in Seq(Entry) /\ Len(<<e>>) = 1 /\ <<e>>[1] = e
    OBVIOUS
  <1>11. /\ front \in Seq(Entry) /\ Len(front) = Len(before) + Len(<<e>>)
         /\ \A i \in 1..(Len(before) + Len(<<e>>)) :
                front[i] = IF i <= Len(before) THEN before[i] ELSE <<e>>[i - Len(before)]
    BY <1>5, <1>10, ConcatProperties
  <1> HIDE DEF front
  <1>12. /\ t \in Seq(Entry) /\ Len(t) = Len(front) + Len(after)
         /\ \A i \in 1..(Len(front) + Len(after)) :
                t[i] = IF i <= Len(front) THEN front[i] ELSE after[i - Len(front)]
    <2>1. after \in Seq(Entry) /\ front \in Seq(Entry)
      BY <1>7, <1>11
    <2> QED
      BY <2>1, ConcatProperties
  <1> HIDE DEF t
  <1>13. Len(front) = p /\ front[p] = e /\ \A i \in 1..(p - 1) : front[i] = s[i]
    BY <1>1, <1>8, <1>10, <1>11
  <1>14. Len(t) = Len(s) + 1
    BY <1>1, <1>9, <1>12, <1>13
  <1>15. t[p] = e /\ \A i \in 1..(p - 1) : t[i] = s[i]
    BY <1>1, <1>9, <1>12, <1>13
  <1>16. ASSUME NEW i \in p..Len(s) PROVE t[i + 1] = s[i]
    <2>1. i + 1 \in 1..(Len(front) + Len(after)) /\ ~ (i + 1 <= Len(front))
          /\ (i + 1) - Len(front) = i - p + 1
      BY <1>1, <1>9, <1>13
    <2> QED
      BY <1>9, <1>12, <2>1
  <1> QED
    BY <1>2, <1>12, <1>14, <1>15, <1>16

LEMMA CheckInGrows ==
    ASSUME NEW s \in Seq(Entry), NEW e \in Entry, NEW p \in 1..(Len(s) + 1), NEW f,
           NEW t, t = InsertAt(s, p, e)
    PROVE  /\ ~ Matches(e, f) => Kept(t, f)[Len(t)] = Kept(s, f)[Len(s)]
           /\ Matches(e, f) => Grown(Kept(s, f)[Len(s)], Kept(t, f)[Len(t)])
  <1>1. Len(s) \in Nat /\ p \in Nat /\ p >= 1 /\ p <= Len(s) + 1 /\ p - 1 \in Nat
    OBVIOUS
  <1>2. /\ t \in Seq(Entry) /\ Len(t) = Len(s) + 1
        /\ \A i \in 1..(p - 1) : t[i] = s[i]
        /\ t[p] = e
        /\ \A i \in p..Len(s) : t[i + 1] = s[i]
    BY SortedIn
  <1>3. Kept(s, f)[0] = <<>> /\ Kept(t, f)[0] = <<>>
    BY <1>1, <1>2, KeptUnfolds
  <1>4. AlikeAfter(Kept(s, f), Kept(t, f), 0, 0, p - 1)
    <2>1. \A k \in 1..(p - 1) : Alike(s[0 + k], t[0 + k], f)
      BY <1>1, <1>2 DEF Alike
    <2>2. 0 \in 0..Len(s) /\ 0 \in 0..Len(t) /\ 0 + (p - 1) <= Len(s) /\ 0 + (p - 1) <= Len(t)
      BY <1>1, <1>2
    <2> QED
      BY <1>1, <1>2, <2>1, <2>2, AlikeOnwards
  <1>5. Kept(s, f)[p - 1] = Kept(t, f)[p - 1]
    <2>1. 0 + (p - 1) = p - 1
      BY <1>1
    <2> QED
      BY <1>3, <1>4, <2>1 DEF AlikeAfter
  <1>6. Kept(t, f)[p] = KeepsOne(t, f, Kept(s, f)[p - 1], p)
    <2>1. p \in 1..Len(t) /\ Len(t) \in Nat
      BY <1>1, <1>2
    <2> QED
      BY <1>5, <2>1, KeptUnfolds
  <1>7. Kept(s, f)[p - 1] \in Seq(Ids) /\ e.id \in Ids
    <2>1. p - 1 \in 0..Len(s)
      BY <1>1
    <2> QED
      BY <2>1, KeptTyped DEF Entry, Ids
  <1>8. AlikeAfter(Kept(s, f), Kept(t, f), p - 1, p, Len(s) - (p - 1))
    <2>1. ASSUME NEW k \in 1..(Len(s) - (p - 1)) PROVE Alike(s[(p - 1) + k], t[p + k], f)
      <3>1. (p - 1) + k \in p..Len(s) /\ ((p - 1) + k) + 1 = p + k
        BY <1>1
      <3> QED
        BY <1>2, <3>1 DEF Alike
    <2>2. /\ p - 1 \in 0..Len(s) /\ p \in 0..Len(t) /\ Len(s) - (p - 1) \in Nat
          /\ (p - 1) + (Len(s) - (p - 1)) <= Len(s) /\ p + (Len(s) - (p - 1)) <= Len(t)
      BY <1>1, <1>2
    <2> QED
      BY <1>2, <2>1, <2>2, AlikeOnwards
  <1>9. (p - 1) + (Len(s) - (p - 1)) = Len(s) /\ p + (Len(s) - (p - 1)) = Len(t)
    BY <1>1, <1>2
  <1>10. ASSUME ~ Matches(e, f) PROVE Kept(t, f)[Len(t)] = Kept(s, f)[Len(s)]
    <2>1. Kept(t, f)[p] = Kept(s, f)[p - 1]
      BY <1>2, <1>6, <1>10 DEF KeepsOne
    <2> QED
      BY <1>8, <1>9, <2>1 DEF AlikeAfter
  <1>11. ASSUME Matches(e, f) PROVE Grown(Kept(s, f)[Len(s)], Kept(t, f)[Len(t)])
    <2>1. Kept(t, f)[p] = Append(Kept(s, f)[p - 1], e.id)
      BY <1>2, <1>6, <1>11 DEF KeepsOne
    <2>2. Grown(Kept(s, f)[p - 1], Kept(t, f)[p])
      BY <1>7, <2>1, GrownByLast
    <2> QED
      BY <1>8, <1>9, <2>2 DEF AlikeAfter
  <1> QED
    BY <1>10, <1>11

\* HR approves: nothing is seen of it unfiltered, and the approved have one more.
LEMMA ApprovalGrows ==
    ASSUME NEW s \in Seq(Entry), NEW i \in 1..Len(s), s[i].status = "flagged",
           NEW t, t = [s EXCEPT ![i].status = "approved"]
    PROVE  /\ t \in Seq(Entry) /\ Len(t) = Len(s)
           /\ Kept(t, "all")[Len(t)] = Kept(s, "all")[Len(s)]
           /\ Grown(Kept(s, "approved")[Len(s)], Kept(t, "approved")[Len(t)])
  <1>1. Len(s) \in Nat /\ i \in Nat /\ i >= 1 /\ i <= Len(s) /\ i - 1 \in Nat
    OBVIOUS
  <1>e. s[i] \in Entry
    BY ElementOfSeq
  <1>d. [s[i] EXCEPT !.status = "approved"] \in Entry
    BY <1>e DEF Entry, Statuses
  <1>c. t = [s EXCEPT ![i] = [s[i] EXCEPT !.status = "approved"]]
    OBVIOUS
  <1>2. /\ t \in Seq(Entry) /\ Len(t) = Len(s)
        /\ \A j \in 1..Len(s) : j # i => t[j] = s[j]
        /\ t[i] = [s[i] EXCEPT !.status = "approved"]
    BY <1>1, <1>c, <1>d, ExceptSeq
  <1>3. t[i].id = s[i].id /\ t[i].status = "approved"
    BY <1>e, <1>2 DEF Entry
  <1>4. \A f : Kept(s, f)[0] = <<>> /\ Kept(t, f)[0] = <<>>
    BY <1>1, <1>2, KeptUnfolds
  <1>5. Kept(t, "all")[Len(t)] = Kept(s, "all")[Len(s)]
    <2>1. \A k \in 1..Len(s) : Alike(s[0 + k], t[0 + k], "all")
      BY <1>1, <1>2, <1>3 DEF Alike, Matches
    <2>2. /\ 0 \in 0..Len(s) /\ 0 \in 0..Len(t) /\ 0 + Len(s) <= Len(s) /\ 0 + Len(s) <= Len(t)
          /\ 0 + Len(s) = Len(s)
      BY <1>1, <1>2
    <2>3. AlikeAfter(Kept(s, "all"), Kept(t, "all"), 0, 0, Len(s))
      BY <1>1, <1>2, <2>1, <2>2, AlikeOnwards
    <2> QED
      BY <1>2, <1>4, <2>2, <2>3 DEF AlikeAfter
  <1>6. Grown(Kept(s, "approved")[Len(s)], Kept(t, "approved")[Len(t)])
    <2>1. \A k \in 1..(i - 1) : Alike(s[0 + k], t[0 + k], "approved")
      BY <1>1, <1>2 DEF Alike
    <2>2. /\ 0 \in 0..Len(s) /\ 0 \in 0..Len(t) /\ 0 + (i - 1) <= Len(s) /\ 0 + (i - 1) <= Len(t)
          /\ 0 + (i - 1) = i - 1
      BY <1>1, <1>2
    <2>3. AlikeAfter(Kept(s, "approved"), Kept(t, "approved"), 0, 0, i - 1)
      BY <1>1, <1>2, <2>1, <2>2, AlikeOnwards
    <2>4. Kept(s, "approved")[i - 1] = Kept(t, "approved")[i - 1]
      BY <1>4, <2>2, <2>3 DEF AlikeAfter
    <2>5. /\ Kept(s, "approved")[i] = KeepsOne(s, "approved", Kept(s, "approved")[i - 1], i)
          /\ Kept(t, "approved")[i] = KeepsOne(t, "approved", Kept(t, "approved")[i - 1], i)
      <3>1. /\ Len(s) \in Nat /\ Len(t) \in Nat /\ i \in 1..Len(s) /\ i \in 1..Len(t)
        BY <1>1, <1>2
      <3> QED
        BY <3>1, KeptUnfolds
    <2>6. ~ Matches(s[i], "approved") /\ Matches(t[i], "approved")
      BY <1>3 DEF Matches
    <2>7. Kept(s, "approved")[i - 1] \in Seq(Ids) /\ s[i].id \in Ids
      <3>1. i - 1 \in 0..Len(s)
        BY <1>1
      <3> QED
        BY <1>e, <3>1, KeptTyped DEF Entry, Ids
    <2>8. Grown(Kept(s, "approved")[i], Kept(t, "approved")[i])
      <3>1. /\ Kept(s, "approved")[i] = Kept(s, "approved")[i - 1]
            /\ Kept(t, "approved")[i] = Append(Kept(s, "approved")[i - 1], s[i].id)
        BY <1>3, <2>4, <2>5, <2>6 DEF KeepsOne
      <3> QED
        BY <2>7, <3>1, GrownByLast
    <2>9. \A k \in 1..(Len(s) - i) : Alike(s[i + k], t[i + k], "approved")
      <3> TAKE k \in 1..(Len(s) - i)
      <3>1. i + k \in 1..Len(s) /\ i + k # i
        BY <1>1
      <3> QED
        BY <1>2, <3>1 DEF Alike
    <2>10. /\ i \in 0..Len(s) /\ i \in 0..Len(t) /\ i + (Len(s) - i) <= Len(s)
           /\ i + (Len(s) - i) <= Len(t) /\ i + (Len(s) - i) = Len(s) /\ Len(s) - i \in Nat
      BY <1>1, <1>2
    <2>11. AlikeAfter(Kept(s, "approved"), Kept(t, "approved"), i, i, Len(s) - i)
      BY <1>2, <2>9, <2>10, AlikeOnwards
    <2> QED
      BY <1>2, <2>8, <2>10, <2>11 DEF AlikeAfter
  <1> QED
    BY <1>2, <1>5, <1>6

\* A page of rows M, after the first q of them.
RowsOfPage(M, q) ==
    SubSeq(M, q + 1, IF q + PageSize < Len(M) THEN q + PageSize ELSE Len(M))
RowsBefore(n) == (n - 1) * PageSize

LEMMA PagesEnd ==
    ASSUME NEW n \in Nat \ {0}
    PROVE  /\ RowsBefore(n) \in Nat /\ n * PageSize = RowsBefore(n) + PageSize
           /\ RowsBefore(n + 1) = RowsBefore(n) + PageSize
           /\ n = 1 => RowsBefore(n) = 0
  <1>1. PageSize \in Nat /\ n - 1 \in Nat
    BY ExportAssumption
  <1>2. (n - 1) * PageSize \in Nat
    BY <1>1
  <1>3. n * PageSize = (n - 1) * PageSize + PageSize
    BY <1>1
  <1>4. (n + 1) - 1 = n
    OBVIOUS
  <1>5. n = 1 => (n - 1) * PageSize = 0
    BY <1>1
  <1> QED
    BY <1>2, <1>3, <1>4, <1>5 DEF RowsBefore

LEMMA PageAtIsRows ==
    ASSUME NEW f, NEW n \in Nat \ {0}
    PROVE  PageAt(f, n) = RowsOfPage(Matching(f), RowsBefore(n))
  BY PagesEnd DEF PageAt, RowsOfPage, RowsBefore

LEMMA PageRows ==
    ASSUME NEW M \in Seq(Ids), NEW q \in Nat, NEW pg, pg = RowsOfPage(M, q)
    PROVE  /\ pg \in Seq(Ids) /\ Len(pg) <= PageSize
           /\ \A i \in 1..Len(M) : q < i /\ i <= q + PageSize =>
                  i - q \in 1..Len(pg) /\ pg[i - q] = M[i]
           /\ Len(pg) < PageSize => Len(M) < q + PageSize
           /\ q + Len(pg) >= Len(M) => Len(M) <= q + PageSize
           /\ Len(pg) >= PageSize => q + PageSize <= Len(M)
           /\ pg = <<>> => Len(M) <= q
           /\ q <= Len(M) /\ Len(M) <= q + PageSize => SubSeq(M, 1, q) \o pg = M
           /\ q + PageSize <= Len(M) => SubSeq(M, 1, q) \o pg = SubSeq(M, 1, q + PageSize)
  <1> DEFINE last == IF q + PageSize < Len(M) THEN q + PageSize ELSE Len(M)
  <1>1. PageSize \in Nat /\ PageSize >= 1 /\ Len(M) \in Nat
    BY ExportAssumption
  <1>2. last \in Nat /\ last <= Len(M) /\ last <= q + PageSize
        /\ (last = Len(M) \/ last = q + PageSize)
    BY <1>1
  <1>3. pg = SubSeq(M, q + 1, last)
    BY DEF RowsOfPage
  <1>4. \A i \in (q + 1)..last : M[i] \in Ids
    BY <1>1, <1>2, ElementOfSeq
  <1>5. last = q + PageSize \/ last = Len(M)
    BY <1>2
  <1>6. q + PageSize < Len(M) => last = q + PageSize
    OBVIOUS
  <1>7. ~ (q + PageSize < Len(M)) => last = Len(M)
    OBVIOUS
  <1> HIDE DEF last
  <1>8. q + 1 \in Int /\ last \in Int
    BY <1>2
  <1>9. /\ pg \in Seq(Ids)
        /\ Len(pg) = IF q + 1 <= last THEN last - (q + 1) + 1 ELSE 0
        /\ \A i \in 1..(last - (q + 1) + 1) : pg[i] = M[(q + 1) + i - 1]
    BY <1>3, <1>4, <1>8, SubSeqProperties
  <1>10. Len(pg) = IF q < last THEN last - q ELSE 0
    BY <1>2, <1>9
  <1>11. Len(pg) \in Nat /\ Len(pg) <= PageSize
    BY <1>1, <1>2, <1>10
  <1>12. ASSUME NEW i \in 1..Len(M), q < i, i <= q + PageSize
         PROVE  i - q \in 1..Len(pg) /\ pg[i - q] = M[i]
    <2>1. i <= last
      BY <1>1, <1>2, <1>12
    <2>2. i - q \in 1..(last - (q + 1) + 1) /\ (q + 1) + (i - q) - 1 = i /\ i - q \in 1..Len(pg)
      BY <1>2, <1>10, <1>12, <2>1
    <2> QED
      BY <1>9, <2>2
  <1>13. /\ Len(pg) < PageSize => Len(M) < q + PageSize
         /\ q + Len(pg) >= Len(M) => Len(M) <= q + PageSize
         /\ Len(pg) >= PageSize => q + PageSize <= Len(M)
    BY <1>1, <1>2, <1>6, <1>7, <1>10
  <1>14. pg = <<>> => Len(M) <= q
    <2>1. pg = <<>> => Len(pg) = 0
      BY EmptySeq
    <2> QED
      BY <1>1, <1>2, <1>10, <2>1
  <1>15. ASSUME q <= last PROVE SubSeq(M, 1, q) \o pg = SubSeq(M, 1, last)
    <2>1. 1 \in 1..(Len(M) + 1) /\ q \in (1 - 1)..Len(M) /\ last \in q..Len(M)
      BY <1>1, <1>2, <1>15
    <2> QED
      BY <1>3, <2>1, ConcatAdjacentSubSeq
  <1>16. q <= Len(M) /\ Len(M) <= q + PageSize => SubSeq(M, 1, q) \o pg = M
    <2> SUFFICES ASSUME q <= Len(M), Len(M) <= q + PageSize PROVE SubSeq(M, 1, q) \o pg = M
      OBVIOUS
    <2>1. last = Len(M)
      BY <1>1, <1>7
    <2> QED
      BY <1>15, <2>1, SubSeqFull
  <1>17. q + PageSize <= Len(M) => SubSeq(M, 1, q) \o pg = SubSeq(M, 1, q + PageSize)
    <2> SUFFICES ASSUME q + PageSize <= Len(M)
                 PROVE  SubSeq(M, 1, q) \o pg = SubSeq(M, 1, q + PageSize)
      OBVIOUS
    <2>1. last = q + PageSize /\ q <= last
      BY <1>1, <1>2, <1>6, <1>7
    <2> QED
      BY <1>15, <2>1
  <1> QED
    BY <1>9, <1>11, <1>12, <1>13, <1>14, <1>16, <1>17

-----------------------------------------------------------------------------
\* What is recorded, as a sequence, and what of it matches.
LEMMA RecordedIs ==
    ASSUME NEW r
    PROVE  r \in EntrySeqs <=> r \in Seq(Entry) /\ Len(r) <= MaxEntries
  <1>1. MaxEntries \in Nat
    BY ExportAssumption
  <1>2. ASSUME r \in EntrySeqs PROVE r \in Seq(Entry) /\ Len(r) <= MaxEntries
    <2>1. PICK n \in 0..MaxEntries : r \in [1..n -> Entry]
      BY <1>2 DEF EntrySeqs
    <2> QED
      BY <1>1, <2>1
  <1>3. ASSUME r \in Seq(Entry), Len(r) <= MaxEntries PROVE r \in EntrySeqs
    <2>1. r \in [1..Len(r) -> Entry] /\ Len(r) \in 0..MaxEntries
      BY <1>1, <1>3, LenProperties
    <2> QED
      BY <2>1 DEF EntrySeqs
  <1> QED
    BY <1>2, <1>3

LEMMA MatchingTyped ==
    ASSUME NEW r \in EntrySeqs, NEW f, NEW M, M = Kept(r, f)[Len(r)]
    PROVE  /\ M \in Seq(Ids) /\ Len(M) \in 0..MaxEntries
           /\ Len(M) <= Len(r) /\ Len(r) \in 0..MaxEntries
  <1>1. r \in Seq(Entry) /\ Len(r) \in Nat /\ Len(r) <= MaxEntries /\ MaxEntries \in Nat
    BY RecordedIs, ExportAssumption
  <1>2. Len(r) \in 0..Len(r)
    BY <1>1
  <1>3. M \in Seq(Ids) /\ Len(M) <= Len(r)
    BY <1>1, <1>2, KeptTyped
  <1> QED
    BY <1>1, <1>3

-----------------------------------------------------------------------------
\* An export X under way, when M are the rows that match now, D those that did
\* when it began, and dist what came between.
ExportRuns ==
    [filter : Filters, page : 1..MaxPages, rows : Seq(Ids),
     answer : SUBSET Seq(Ids), total : SUBSET (0..MaxEntries)]
Half(X) == (X.answer = {} /\ X.total # {}) \/ (X.answer # {} /\ X.total = {})
Has(s, x) == \E i \in 1..Len(s) : s[i] = x
AllIn(D, rows, found) == \A j \in 1..Len(D) : Has(rows, D[j]) \/ Has(found, D[j])

\* Nothing came between: the pages are those of D.
PagesUntouched(X, M, D) ==
    /\ M = D /\ RowsBefore(X.page) <= Len(D)
    /\ X.rows = SubSeq(D, 1, RowsBefore(X.page))
    /\ \A found \in X.answer : found = RowsOfPage(D, RowsBefore(X.page))
    /\ \A total \in X.total : total = Len(D)

\* A row of D is fetched already or still ahead, whatever came in.
Reached(X, M, x) ==
    \E i \in 1..Len(M) :
        /\ M[i] = x
        /\ i <= RowsBefore(X.page) => Has(X.rows, x)
        /\ i <= RowsBefore(X.page) + PageSize =>
               \A found \in X.answer : Has(X.rows, x) \/ Has(found, x)

\* So a page that ends the loop ends it with all of D, as long as its two reads
\* were of the same rows.
NoneMissed(X, M, D) ==
    /\ \A j \in 1..Len(D) : Reached(X, M, D[j])
    /\ \A found \in X.answer : Len(found) < PageSize => AllIn(D, X.rows, found)
    /\ \A found \in X.answer, total \in X.total :
           RowsBefore(X.page) + Len(found) >= total => AllIn(D, X.rows, found)
    /\ Half(X) => /\ \A found \in X.answer : found = RowsOfPage(M, RowsBefore(X.page))
                  /\ \A total \in X.total : total = Len(M)

ExportUnderWay(X, M, D, dist) ==
    /\ X \in ExportRuns /\ Len(X.rows) = RowsBefore(X.page)
    /\ \A found \in X.answer : Len(found) <= PageSize
    /\ dist = {} => PagesUntouched(X, M, D)
    /\ dist \subseteq {"in"} => NoneMissed(X, M, D)

LEMMA ExportRunPages ==
    ASSUME NEW X \in ExportRuns
    PROVE  /\ X.page \in Nat \ {0} /\ RowsBefore(X.page) \in Nat /\ PageSize \in Nat \ {0}
           /\ RowsBefore(X.page + 1) = RowsBefore(X.page) + PageSize
           /\ X.page = MaxPages => MaxPages * PageSize = RowsBefore(X.page) + PageSize
  <1>1. X.page \in Nat \ {0}
    BY ExportAssumption DEF ExportRuns
  <1> QED
    BY <1>1, ExportAssumption, PagesEnd

LEMMA ExportStarts ==
    ASSUME NEW f \in Filters, NEW M \in Seq(Ids)
    PROVE  ExportUnderWay([filter |-> f, page |-> 1, rows |-> <<>>, answer |-> {}, total |-> {}],
                          M, M, {})
  <1> DEFINE X == [filter |-> f, page |-> 1, rows |-> <<>>, answer |-> {}, total |-> {}]
  <1>1. <<>> \in Seq(Ids) /\ Len(<<>>) = 0
    BY EmptySeq
  <1>2. X \in ExportRuns
    BY <1>1, ExportAssumption DEF ExportRuns
  <1>3. X.page = 1 /\ X.rows = <<>> /\ X.answer = {} /\ X.total = {}
    OBVIOUS
  <1> HIDE DEF X
  <1>4. RowsBefore(X.page) = 0
    BY <1>3, PagesEnd
  <1>5. SubSeq(M, 1, 0) = <<>>
    BY SubSeqEmpty
  <1>6. PagesUntouched(X, M, M)
    BY <1>3, <1>4, <1>5 DEF PagesUntouched
  <1>7. \A j \in 1..Len(M) : Reached(X, M, M[j])
    <2> TAKE j \in 1..Len(M)
    <2>1. ~ (j <= RowsBefore(X.page))
      BY <1>4
    <2> QED
      BY <1>3, <2>1 DEF Reached
  <1>8. NoneMissed(X, M, M)
    BY <1>3, <1>7 DEF NoneMissed, Half
  <1>9. ExportUnderWay(X, M, M, {})
    BY <1>1, <1>2, <1>3, <1>4, <1>6, <1>8 DEF ExportUnderWay
  <1> QED
    BY <1>9 DEF X

LEMMA RowsComeIn ==
    ASSUME NEW X, NEW M \in Seq(Ids), NEW N \in Seq(Ids), NEW D, NEW dist, NEW dist2,
           ExportUnderWay(X, M, D, dist), Grown(M, N),
           "in" \in dist2, dist \subseteq dist2, Half(X) => "torn" \in dist2
    PROVE  ExportUnderWay(X, N, D, dist2)
  <1>1. X \in ExportRuns /\ RowsBefore(X.page) \in Nat /\ PageSize \in Nat
    BY ExportRunPages DEF ExportUnderWay
  <1>2. dist2 # {}
    OBVIOUS
  <1>3. ASSUME dist2 \subseteq {"in"} PROVE NoneMissed(X, N, D)
    <2>1. "torn" \notin dist2 /\ dist \subseteq {"in"}
      BY <1>3
    <2>2. ~ Half(X) /\ NoneMissed(X, M, D)
      BY <2>1 DEF ExportUnderWay
    <2>3. ASSUME NEW j \in 1..Len(D) PROVE Reached(X, N, D[j])
      <3>1. Reached(X, M, D[j])
        BY <2>2 DEF NoneMissed
      <3>2. PICK i \in 1..Len(M) :
                /\ M[i] = D[j]
                /\ i <= RowsBefore(X.page) => Has(X.rows, D[j])
                /\ i <= RowsBefore(X.page) + PageSize =>
                       \A found \in X.answer : Has(X.rows, D[j]) \/ Has(found, D[j])
        BY <3>1 DEF Reached
      <3>3. /\ Len(M) \in Nat /\ Len(N) = Len(M) + 1 /\ (N[i] = M[i] \/ N[i + 1] = M[i])
            /\ i \in 1..Len(N) /\ i + 1 \in 1..Len(N)
        BY DEF Grown
      <3>4. PICK k \in {i, i + 1} : k \in 1..Len(N) /\ N[k] = D[j] /\ i <= k
        BY <3>2, <3>3
      <3>5. k \in Nat /\ i \in Nat
        BY <3>4
      <3>6. /\ k <= RowsBefore(X.page) => i <= RowsBefore(X.page)
            /\ k <= RowsBefore(X.page) + PageSize => i <= RowsBefore(X.page) + PageSize
        BY <1>1, <3>4, <3>5
      <3> QED
        BY <3>2, <3>4, <3>6 DEF Reached
    <2> QED
      BY <2>2, <2>3 DEF NoneMissed
  <1> QED
    BY <1>1, <1>2, <1>3 DEF ExportUnderWay

\* The page is read, and the rows are counted, in either order.
LEMMA PageFoundGoesOn ==
    ASSUME NEW X, NEW M \in Seq(Ids), NEW D, NEW dist, ExportUnderWay(X, M, D, dist), X.answer = {},
           NEW Y, Y = [X EXCEPT !.answer = {RowsOfPage(M, RowsBefore(X.page))}]
    PROVE  ExportUnderWay(Y, M, D, dist)
  <1> DEFINE q  == RowsBefore(X.page)
             pg == RowsOfPage(M, q)
  <1>1. /\ X \in ExportRuns /\ q \in Nat /\ PageSize \in Nat /\ Len(M) \in Nat
        /\ Len(X.rows) = q
    BY ExportRunPages DEF ExportUnderWay
  <1>2. /\ pg \in Seq(Ids) /\ Len(pg) <= PageSize
        /\ \A i \in 1..Len(M) : q < i /\ i <= q + PageSize =>
               i - q \in 1..Len(pg) /\ pg[i - q] = M[i]
        /\ Len(pg) < PageSize => Len(M) < q + PageSize
        /\ q + Len(pg) >= Len(M) => Len(M) <= q + PageSize
    BY <1>1, PageRows
  <1>3. Y \in ExportRuns
    <2>1. {pg} \in SUBSET Seq(Ids)
      BY <1>2
    <2> QED
      BY <1>1, <2>1 DEF ExportRuns
  <1>4. /\ Y.page = X.page /\ Y.rows = X.rows /\ Y.total = X.total /\ Y.answer = {pg}
    BY <1>1 DEF ExportRuns
  <1> HIDE DEF q, pg
  <1>5. RowsBefore(Y.page) = q /\ RowsBefore(X.page) = q
    BY <1>4 DEF q
  <1>6. pg = RowsOfPage(M, q)
    BY DEF pg
  <1>7. ASSUME dist = {} PROVE PagesUntouched(Y, M, D)
    <2>1. PagesUntouched(X, M, D)
      BY <1>7 DEF ExportUnderWay
    <2> QED
      BY <1>4, <1>5, <1>6, <2>1 DEF PagesUntouched
  <1>8. ASSUME dist \subseteq {"in"} PROVE NoneMissed(Y, M, D)
    <2>1. NoneMissed(X, M, D)
      BY <1>8 DEF ExportUnderWay
    <2>2. ASSUME NEW j \in 1..Len(D) PROVE \E i \in 1..Len(M) :
              /\ M[i] = D[j]
              /\ i <= q => Has(X.rows, D[j])
              /\ i <= q + PageSize => Has(X.rows, D[j]) \/ Has(pg, D[j])
      <3>1. Reached(X, M, D[j])
        BY <2>1 DEF NoneMissed
      <3>2. PICK i \in 1..Len(M) : M[i] = D[j] /\ (i <= q => Has(X.rows, D[j]))
        BY <1>5, <3>1 DEF Reached
      <3>3. ASSUME i <= q + PageSize, ~ (i <= q) PROVE Has(pg, D[j])
        <4>1. i - q \in 1..Len(pg) /\ pg[i - q] = M[i]
          BY <1>1, <1>2, <3>3
        <4> QED
          BY <3>2, <4>1 DEF Has
      <3> QED
        BY <3>2, <3>3
    <2>3. ASSUME NEW j \in 1..Len(D) PROVE Reached(Y, M, D[j])
      BY <1>4, <1>5, <2>2 DEF Reached
    <2>4. ASSUME Len(M) <= q + PageSize PROVE AllIn(D, X.rows, pg)
      <3> SUFFICES ASSUME NEW j \in 1..Len(D) PROVE Has(X.rows, D[j]) \/ Has(pg, D[j])
        BY DEF AllIn
      <3>1. PICK i \in 1..Len(M) : i <= q + PageSize => Has(X.rows, D[j]) \/ Has(pg, D[j])
        BY <2>2
      <3>2. i <= q + PageSize
        BY <1>1, <2>4
      <3> QED
        BY <3>1, <3>2
    <2>5. Len(pg) < PageSize => AllIn(D, X.rows, pg)
      BY <1>1, <1>2, <2>4
    <2>6. ASSUME NEW total \in X.total, q + Len(pg) >= total PROVE AllIn(D, X.rows, pg)
      <3>1. Half(X)
        BY <2>6 DEF Half
      <3>2. total = Len(M)
        BY <2>1, <2>6, <3>1 DEF NoneMissed
      <3> QED
        BY <1>2, <2>4, <2>6, <3>2
    <2>7. Half(Y) => X.total = {}
      BY <1>4 DEF Half
    <2> QED
      BY <1>4, <1>5, <1>6, <2>3, <2>5, <2>6, <2>7 DEF NoneMissed
  <1> QED
    BY <1>1, <1>2, <1>3, <1>4, <1>5, <1>7, <1>8 DEF ExportUnderWay

LEMMA RowsCountedGoesOn ==
    ASSUME NEW X, NEW M \in Seq(Ids), Len(M) \in 0..MaxEntries, NEW D, NEW dist,
           ExportUnderWay(X, M, D, dist), X.total = {},
           NEW Y, Y = [X EXCEPT !.total = {Len(M)}]
    PROVE  ExportUnderWay(Y, M, D, dist)
  <1> DEFINE q  == RowsBefore(X.page)
  <1>1. /\ X \in ExportRuns /\ q \in Nat /\ PageSize \in Nat /\ Len(M) \in Nat
        /\ Len(X.rows) = q
    BY ExportRunPages DEF ExportUnderWay
  <1>2. Y \in ExportRuns
    <2>1. {Len(M)} \in SUBSET (0..MaxEntries)
      OBVIOUS
    <2> QED
      BY <1>1, <2>1 DEF ExportRuns
  <1>3. /\ Y.page = X.page /\ Y.rows = X.rows /\ Y.answer = X.answer /\ Y.total = {Len(M)}
    BY <1>1 DEF ExportRuns
  <1> HIDE DEF q
  <1>4. RowsBefore(Y.page) = q /\ RowsBefore(X.page) = q
    BY <1>3 DEF q
  <1>5. ASSUME dist = {} PROVE PagesUntouched(Y, M, D)
    <2>1. PagesUntouched(X, M, D)
      BY <1>5 DEF ExportUnderWay
    <2> QED
      BY <1>3, <1>4, <2>1 DEF PagesUntouched
  <1>6. ASSUME dist \subseteq {"in"} PROVE NoneMissed(Y, M, D)
    <2>1. NoneMissed(X, M, D)
      BY <1>6 DEF ExportUnderWay
    <2>2. ASSUME NEW j \in 1..Len(D) PROVE Reached(Y, M, D[j])
      <3>1. Reached(X, M, D[j])
        BY <2>1 DEF NoneMissed
      <3> QED
        BY <1>3, <1>4, <3>1 DEF Reached
    <2>3. ASSUME NEW found \in X.answer, q + Len(found) >= Len(M) PROVE AllIn(D, X.rows, found)
      <3>1. Half(X)
        BY <2>3 DEF Half
      <3>2. found = RowsOfPage(M, q)
        BY <1>4, <2>1, <2>3, <3>1 DEF NoneMissed
      <3>3. Len(M) <= q + PageSize
        BY <1>1, <2>3, <3>2, PageRows
      <3> SUFFICES ASSUME NEW j \in 1..Len(D) PROVE Has(X.rows, D[j]) \/ Has(found, D[j])
        BY DEF AllIn
      <3>4. Reached(X, M, D[j])
        BY <2>1 DEF NoneMissed
      <3>5. PICK i \in 1..Len(M) : i <= q + PageSize => Has(X.rows, D[j]) \/ Has(found, D[j])
        BY <1>4, <2>3, <3>4 DEF Reached
      <3>6. i <= q + PageSize
        BY <1>1, <3>3
      <3> QED
        BY <3>5, <3>6
    <2>4. Half(Y) => X.answer = {}
      BY <1>3 DEF Half
    <2> QED
      BY <1>3, <1>4, <2>1, <2>2, <2>3, <2>4 DEF NoneMissed
  <1> QED
    BY <1>1, <1>2, <1>3, <1>4, <1>5, <1>6 DEF ExportUnderWay

LEMMA HasMore ==
    ASSUME NEW rows \in Seq(Ids), NEW found \in Seq(Ids), NEW x, Has(rows, x) \/ Has(found, x)
    PROVE  Has(rows \o found, x)
  <1>1. /\ Len(rows \o found) = Len(rows) + Len(found)
        /\ \A i \in 1..(Len(rows) + Len(found)) :
               (rows \o found)[i] = IF i <= Len(rows) THEN rows[i] ELSE found[i - Len(rows)]
    BY ConcatProperties
  <1>2. Len(rows) \in Nat /\ Len(found) \in Nat
    BY LenProperties
  <1>3. CASE Has(rows, x)
    <2>1. PICK i \in 1..Len(rows) : rows[i] = x
      BY <1>3 DEF Has
    <2>2. i \in 1..(Len(rows) + Len(found)) /\ i <= Len(rows)
      BY <1>2
    <2> QED
      BY <1>1, <2>1, <2>2 DEF Has
  <1>4. CASE Has(found, x)
    <2>1. PICK i \in 1..Len(found) : found[i] = x
      BY <1>4 DEF Has
    <2>2. /\ i + Len(rows) \in 1..(Len(rows) + Len(found)) /\ ~ (i + Len(rows) <= Len(rows))
          /\ (i + Len(rows)) - Len(rows) = i
      BY <1>2
    <2> QED
      BY <1>1, <2>1, <2>2 DEF Has
  <1> QED
    BY <1>3, <1>4

\* A page that is not the last is full, and the next one begins where it ends.
LEMMA NextPageGoesOn ==
    ASSUME NEW X, NEW M \in Seq(Ids), NEW D, NEW dist, ExportUnderWay(X, M, D, dist),
           NEW found \in X.answer, NEW total \in X.total, NEW rows, rows = X.rows \o found,
           ~ LastPage(rows, found, total), X.page # MaxPages,
           NEW Y, Y = [X EXCEPT !.rows = rows, !.page = @ + 1, !.answer = {}, !.total = {}]
    PROVE  ExportUnderWay(Y, M, D, dist)
  <1> DEFINE q  == RowsBefore(X.page)
  <1>1. /\ X \in ExportRuns /\ q \in Nat /\ PageSize \in Nat /\ Len(M) \in Nat /\ Len(X.rows) = q
        /\ RowsBefore(X.page + 1) = q + PageSize
    BY ExportRunPages DEF ExportUnderWay
  <1>2. found \in Seq(Ids) /\ X.rows \in Seq(Ids)
    BY <1>1 DEF ExportRuns
  <1>3. Len(found) = PageSize
    <2>1. Len(found) <= PageSize /\ ~ (Len(found) < PageSize) /\ Len(found) \in Nat
      BY <1>2 DEF ExportUnderWay, LastPage
    <2> QED
      BY <1>1, <2>1
  <1>4. rows \in Seq(Ids) /\ Len(rows) = q + PageSize
    BY <1>1, <1>2, <1>3, ConcatProperties
  <1>5. Y \in ExportRuns
    <2>1. X.page + 1 \in 1..MaxPages
      BY <1>1, ExportAssumption DEF ExportRuns
    <2> QED
      BY <1>1, <1>4, <2>1 DEF ExportRuns
  <1>6. /\ Y.page = X.page + 1 /\ Y.rows = rows /\ Y.answer = {} /\ Y.total = {}
    BY <1>1 DEF ExportRuns
  <1> HIDE DEF q
  <1>7. RowsBefore(Y.page) = q + PageSize /\ RowsBefore(X.page) = q
    BY <1>1, <1>6 DEF q
  <1>8. ASSUME dist = {} PROVE PagesUntouched(Y, M, D)
    <2>1. PagesUntouched(X, M, D)
      BY <1>8 DEF ExportUnderWay
    <2>2. found = RowsOfPage(M, q) /\ M = D /\ X.rows = SubSeq(M, 1, q)
      BY <1>7, <2>1 DEF PagesUntouched
    <2>3. q + PageSize <= Len(M)
      BY <1>1, <1>3, <2>2, PageRows
    <2>4. SubSeq(M, 1, q) \o found = SubSeq(M, 1, q + PageSize)
      <3>1. q \in Nat /\ found = RowsOfPage(M, q)
        BY <1>1, <2>2
      <3> QED
        BY ONLY M \in Seq(Ids), <2>3, <3>1, PageRows
    <2>5. rows = SubSeq(M, 1, q + PageSize)
      BY <2>2, <2>4
    <2> QED
      BY <1>6, <1>7, <2>2, <2>3, <2>5 DEF PagesUntouched
  <1>9. ASSUME dist \subseteq {"in"} PROVE NoneMissed(Y, M, D)
    <2>1. NoneMissed(X, M, D)
      BY <1>9 DEF ExportUnderWay
    <2>2. ASSUME NEW j \in 1..Len(D) PROVE Reached(Y, M, D[j])
      <3>1. Reached(X, M, D[j])
        BY <2>1 DEF NoneMissed
      <3>2. PICK i \in 1..Len(M) :
                M[i] = D[j] /\ (i <= q + PageSize => Has(X.rows, D[j]) \/ Has(found, D[j]))
        BY <1>7, <3>1 DEF Reached
      <3>3. i <= q + PageSize => Has(rows, D[j])
        BY <1>2, <3>2, HasMore
      <3> QED
        BY <1>6, <1>7, <3>2, <3>3 DEF Reached
    <2>3. ~ Half(Y)
      BY <1>6 DEF Half
    <2> QED
      BY <1>6, <2>2, <2>3 DEF NoneMissed
  <1> QED
    BY <1>4, <1>5, <1>6, <1>7, <1>8, <1>9 DEF ExportUnderWay

\* The page that is the last, or as many as are fetched.
Complete(rows, M, D, dist, most) ==
    /\ dist = {} => rows = D
    /\ dist \subseteq {"in"} /\ Len(M) <= most => ToSet(D) \subseteq ToSet(rows)

LEMMA LastPageIsAll ==
    ASSUME NEW X, NEW M \in Seq(Ids), NEW D \in Seq(Ids), NEW dist, ExportUnderWay(X, M, D, dist),
           NEW found \in X.answer, NEW total \in X.total, NEW rows, rows = X.rows \o found,
           LastPage(rows, found, total) \/ X.page = MaxPages,
           NEW most, most = MaxPages * PageSize, Len(D) <= most
    PROVE  Complete(rows, M, D, dist, most)
  <1> DEFINE q  == RowsBefore(X.page)
  <1>1. /\ X \in ExportRuns /\ q \in Nat /\ PageSize \in Nat /\ Len(M) \in Nat /\ Len(X.rows) = q
        /\ X.page = MaxPages => most = q + PageSize
        /\ Len(D) \in Nat
    BY ExportRunPages DEF ExportUnderWay
  <1>2. found \in Seq(Ids) /\ X.rows \in Seq(Ids) /\ Len(found) \in Nat
    BY <1>1 DEF ExportRuns
  <1>3. rows \in Seq(Ids) /\ Len(rows) = q + Len(found)
    BY <1>1, <1>2, ConcatProperties
  <1>4. Len(found) < PageSize \/ q + Len(found) >= total \/ X.page = MaxPages
    BY <1>3 DEF LastPage
  <1> HIDE DEF q
  <1>5. RowsBefore(X.page) = q
    BY DEF q
  <1>6. ASSUME dist = {} PROVE rows = D
    <2>1. PagesUntouched(X, M, D)
      BY <1>6 DEF ExportUnderWay
    <2>2. found = RowsOfPage(D, q) /\ q <= Len(D) /\ X.rows = SubSeq(D, 1, q) /\ total = Len(D)
      BY <1>5, <2>1 DEF PagesUntouched
    <2>3. /\ Len(found) < PageSize => Len(D) < q + PageSize
          /\ q + Len(found) >= Len(D) => Len(D) <= q + PageSize
          /\ Len(D) <= q + PageSize => SubSeq(D, 1, q) \o found = D
      BY <1>1, <2>2, PageRows
    <2>4. Len(D) <= q + PageSize
      BY <1>1, <1>2, <1>4, <2>2, <2>3
    <2> QED
      BY <2>2, <2>3, <2>4
  <1>7. ASSUME dist \subseteq {"in"}, Len(M) <= most
        PROVE  ToSet(D) \subseteq ToSet(rows)
    <2>1. NoneMissed(X, M, D)
      BY <1>7 DEF ExportUnderWay
    <2>2. AllIn(D, X.rows, found)
      <3>1. CASE Len(found) < PageSize \/ q + Len(found) >= total
        BY <1>5, <2>1, <3>1 DEF NoneMissed
      <3>2. CASE X.page = MaxPages
        <4> SUFFICES ASSUME NEW j \in 1..Len(D) PROVE Has(X.rows, D[j]) \/ Has(found, D[j])
          BY DEF AllIn
        <4>1. PICK i \in 1..Len(M) : i <= q + PageSize => Has(X.rows, D[j]) \/ Has(found, D[j])
          BY <1>5, <2>1 DEF NoneMissed, Reached
        <4>2. i <= q + PageSize
          BY <1>1, <1>7, <3>2
        <4> QED
          BY <4>1, <4>2
      <3> QED
        BY <1>4, <3>1, <3>2
    <2>3. ASSUME NEW x \in ToSet(D) PROVE x \in ToSet(rows)
      <3>1. PICK j \in 1..Len(D) : D[j] = x
        BY <1>1 DEF ToSet
      <3>2. Has(X.rows, x) \/ Has(found, x)
        BY <2>2, <3>1 DEF AllIn
      <3>3. Has(rows, x)
        BY <1>2, <3>2, HasMore
      <3>4. PICK i \in 1..Len(rows) : rows[i] = x
        BY <3>3 DEF Has
      <3>5. DOMAIN rows = 1..Len(rows)
        BY <1>3, LenProperties
      <3> QED
        BY <3>4, <3>5 DEF ToSet
    <2> QED
      BY <2>3
  <1> QED
    BY <1>6, <1>7 DEF Complete

-----------------------------------------------------------------------------
\* The export as it goes on, and its file.
PagesTyped ==
    /\ recorded \in EntrySeqs
    /\ download \subseteq Seq(Ids) /\ due \in Seq(Ids)
    /\ disturbed \subseteq {"in", "out", "torn"}

ExportGoesOn ==
    \/ exporting = NoExport
    \/ ExportUnderWay(exporting, Matching(exporting.filter), due, disturbed) /\ download = {}

ExportInv == PagesTyped /\ ExportGoesOn /\ NoRowLost

LEMMA ExportInvMeans == ExportInv => ExportTypeOK /\ NoRowLost
  <1> SUFFICES ASSUME ExportInv PROVE ExportTypeOK /\ NoRowLost
    OBVIOUS
  <1>1. exporting = NoExport \/ exporting \in ExportRuns
    BY DEF ExportInv, ExportGoesOn, ExportUnderWay
  <1>2. ExportTypeOK
    BY <1>1 DEF ExportInv, PagesTyped, ExportTypeOK, ExportRuns, Ids
  <1> QED
    BY <1>2 DEF ExportInv

LEMMA ExportInits == ExportInit => ExportInv
  <1> SUFFICES ASSUME ExportInit PROVE ExportInv
    OBVIOUS
  <1>1. /\ recorded \in EntrySeqs /\ exporting = NoExport
        /\ download = {} /\ due = <<>> /\ disturbed = {}
    BY DEF ExportInit
  <1>2. PagesTyped
    <2>1. <<>> \in Seq(Ids)
      BY EmptySeq
    <2> QED
      BY <1>1, <2>1 DEF PagesTyped
  <1> QED
    BY <1>1, <1>2 DEF ExportInv, ExportGoesOn, NoRowLost

LEMMA RowsOf ==
    ASSUME PagesTyped, NEW f
    PROVE  Matching(f) \in Seq(Ids) /\ Len(Matching(f)) \in 0..MaxEntries
           /\ Len(Matching(f)) <= Len(recorded) /\ Len(recorded) \in 0..MaxEntries
  BY MatchingTyped DEF PagesTyped, Matching

LEMMA CheckedInMoves ==
    ASSUME PagesTyped, NEW status \in Statuses, NEW late \in 0..MaxLate, CheckedIn(status, late)
    PROVE  /\ recorded' \in EntrySeqs /\ Len(recorded') = Len(recorded) + 1
           /\ \A f : /\ ~ Matches([status |-> status], f) =>
                            Kept(recorded', f)[Len(recorded')] = Matching(f)
                     /\ Matches([status |-> status], f) =>
                            Grown(Matching(f), Kept(recorded', f)[Len(recorded')])
  <1> DEFINE e == [id |-> Len(recorded) + 1, status |-> status]
             p == late + 1
  <1>1. /\ recorded \in Seq(Entry) /\ Len(recorded) \in Nat /\ Len(recorded) < MaxEntries
        /\ MaxEntries \in Nat /\ late \in Nat /\ late <= Len(recorded)
        /\ recorded' = InsertAt(recorded, p, e)
    BY RecordedIs, ExportAssumption DEF PagesTyped, CheckedIn
  <1>2. e \in Entry
    BY <1>1 DEF Entry
  <1>3. p \in 1..(Len(recorded) + 1)
    BY <1>1
  <1>4. \A f : Matches(e, f) <=> Matches([status |-> status], f)
    BY DEF Matches
  <1> HIDE DEF e, p
  <1>5. recorded' \in Seq(Entry) /\ Len(recorded') = Len(recorded) + 1
    BY <1>1, <1>2, <1>3, SortedIn
  <1>6. recorded' \in EntrySeqs
    BY <1>1, <1>5, RecordedIs
  <1>7. ASSUME NEW f
        PROVE  /\ ~ Matches([status |-> status], f) =>
                       Kept(recorded', f)[Len(recorded')] = Matching(f)
               /\ Matches([status |-> status], f) =>
                       Grown(Matching(f), Kept(recorded', f)[Len(recorded')])
    BY <1>1, <1>2, <1>3, <1>4, CheckInGrows DEF Matching
  <1> QED
    BY <1>5, <1>6, <1>7

LEMMA DecidedMoves ==
    ASSUME PagesTyped, NEW i \in 1..MaxEntries, Decided(i)
    PROVE  /\ recorded' \in EntrySeqs /\ Len(recorded') = Len(recorded)
           /\ Kept(recorded', "all")[Len(recorded')] = Matching("all")
           /\ Grown(Matching("approved"), Kept(recorded', "approved")[Len(recorded')])
  <1>1. /\ recorded \in Seq(Entry) /\ Len(recorded) \in Nat /\ Len(recorded) <= MaxEntries
        /\ i \in 1..Len(recorded) /\ recorded[i].status = "flagged"
        /\ recorded' = [recorded EXCEPT ![i].status = "approved"]
    BY RecordedIs, ExportAssumption DEF PagesTyped, Decided
  <1>2. /\ recorded' \in Seq(Entry) /\ Len(recorded') = Len(recorded)
        /\ Kept(recorded', "all")[Len(recorded')] = Kept(recorded, "all")[Len(recorded)]
        /\ Grown(Kept(recorded, "approved")[Len(recorded)],
                 Kept(recorded', "approved")[Len(recorded')])
    BY <1>1, ApprovalGrows
  <1>3. recorded' \in EntrySeqs
    BY <1>1, <1>2, RecordedIs
  <1> QED
    BY <1>2, <1>3 DEF Matching

LEMMA HalfIsHalf == exporting # NoExport /\ Half(exporting) => HalfRead
  BY DEF Half, HalfRead

\* What a step of an entry keeps, whatever of it is seen.
LEMMA EntriesKeep ==
    ASSUME ExportInv,
           recorded' \in EntrySeqs, Len(recorded) <= Len(recorded'),
           UNCHANGED <<exporting, download, due>>,
           disturbed' \subseteq {"in", "out", "torn"},
           exporting = NoExport => disturbed' = disturbed,
           exporting # NoExport =>
               \/ disturbed' = disturbed /\ Matching(exporting.filter)' = Matching(exporting.filter)
               \/ "out" \in disturbed'
               \/ /\ Grown(Matching(exporting.filter), Matching(exporting.filter)')
                  /\ "in" \in disturbed' /\ disturbed \subseteq disturbed'
                  /\ HalfRead => "torn" \in disturbed'
    PROVE  ExportInv'
  <1>1. exporting' = exporting /\ download' = download /\ due' = due
    OBVIOUS
  <1>2. PagesTyped /\ PagesTyped'
    BY <1>1 DEF ExportInv, PagesTyped
  <1>3. /\ \A f : Matching(f) \in Seq(Ids) /\ Len(Matching(f)) \in Nat
        /\ \A f : Matching(f)' \in Seq(Ids) /\ Len(Matching(f)') \in Nat
        /\ Len(recorded) \in Nat /\ Len(recorded') \in Nat
    <2>1. ASSUME NEW f PROVE /\ Matching(f) \in Seq(Ids) /\ Len(Matching(f)) \in 0..MaxEntries
                             /\ Matching(f)' \in Seq(Ids) /\ Len(Matching(f)') \in 0..MaxEntries
                             /\ Len(recorded) \in 0..MaxEntries /\ Len(recorded') \in 0..MaxEntries
      BY <1>2, MatchingTyped DEF PagesTyped, Matching
    <2> QED
      BY <2>1, ExportAssumption
  <1>4. ExportGoesOn'
    <2>1. CASE exporting = NoExport
      BY <1>1, <2>1 DEF ExportGoesOn
    <2>2. CASE exporting # NoExport
      <3> DEFINE X == exporting
                 M == Matching(exporting.filter)
                 N == Matching(exporting.filter)'
      <3>1. ExportUnderWay(X, M, due, disturbed) /\ download = {}
        BY <2>2 DEF ExportInv, ExportGoesOn
      <3>2. ExportUnderWay(X, N, due, disturbed')
        <4>1. CASE disturbed' = disturbed /\ N = M
          BY <3>1, <4>1
        <4>2. CASE "out" \in disturbed'
          <5>1. disturbed' # {} /\ ~ (disturbed' \subseteq {"in"})
            BY <4>2
          <5> QED
            BY <3>1, <5>1 DEF ExportUnderWay
        <4>3. CASE /\ Grown(M, N) /\ "in" \in disturbed' /\ disturbed \subseteq disturbed'
                   /\ HalfRead => "torn" \in disturbed'
          <5>1. Half(X) => "torn" \in disturbed'
            BY <2>2, <4>3, HalfIsHalf
          <5>2. M \in Seq(Ids) /\ N \in Seq(Ids)
            BY <1>3
          <5> HIDE DEF X, M, N
          <5> QED
            BY <3>1, <4>3, <5>1, <5>2, RowsComeIn
        <4> QED
          BY <2>2, <4>1, <4>2, <4>3
      <3> QED
        BY <1>1, <3>1, <3>2 DEF ExportGoesOn
    <2> QED
      BY <2>1, <2>2
  <1>5. NoRowLost'
    <2>1. CASE exporting = NoExport
      <3>1. disturbed' = disturbed
        BY <2>1
      <3>2. MaxPages * PageSize \in Nat
        BY ExportAssumption
      <3>3. Len(recorded') <= MaxPages * PageSize => Len(recorded) <= MaxPages * PageSize
        BY <1>3, <3>2
      <3>4. NoRowLost
        BY DEF ExportInv
      <3> QED
        BY <1>1, <3>1, <3>3, <3>4 DEF NoRowLost
    <2>2. CASE exporting # NoExport
      <3>1. download' = {}
        BY <1>1, <2>2 DEF ExportInv, ExportGoesOn
      <3> QED
        BY <3>1 DEF NoRowLost
    <2> QED
      BY <2>1, <2>2
  <1> QED
    BY <1>2, <1>4, <1>5 DEF ExportInv

LEMMA CheckedInKeeps ==
    ASSUME ExportInv, NEW status \in Statuses, NEW late \in 0..MaxLate, CheckedIn(status, late)
    PROVE  ExportInv'
  <1>1. PagesTyped
    BY DEF ExportInv
  <1>2. /\ recorded' \in EntrySeqs /\ Len(recorded') = Len(recorded) + 1
        /\ \A f : /\ ~ Matches([status |-> status], f) =>
                         Kept(recorded', f)[Len(recorded')] = Matching(f)
                  /\ Matches([status |-> status], f) =>
                         Grown(Matching(f), Kept(recorded', f)[Len(recorded')])
    BY <1>1, CheckedInMoves
  <1>3. /\ exporting' = exporting /\ download' = download /\ due' = due
        /\ disturbed' = IF exporting = NoExport \/ ~Matches([status |-> status], exporting.filter)
                          THEN disturbed
                          ELSE disturbed \cup {"in"} \cup (IF HalfRead THEN {"torn"} ELSE {})
    BY DEF CheckedIn
  <1>4. Len(recorded) <= Len(recorded')
    <2>1. Len(recorded) \in Nat
      BY <1>1, RecordedIs DEF PagesTyped
    <2> QED
      BY <1>2, <2>1
  <1>5. disturbed' \subseteq {"in", "out", "torn"}
    BY <1>1, <1>3 DEF PagesTyped
  <1>7. exporting = NoExport => disturbed' = disturbed
    BY <1>3
  <1>8. ASSUME exporting # NoExport
        PROVE  \/ disturbed' = disturbed /\ Matching(exporting.filter)' = Matching(exporting.filter)
               \/ /\ Grown(Matching(exporting.filter), Matching(exporting.filter)')
                  /\ "in" \in disturbed' /\ disturbed \subseteq disturbed'
                  /\ HalfRead => "torn" \in disturbed'
    <2>1. CASE Matches([status |-> status], exporting.filter)
      <3>1. disturbed' = disturbed \cup {"in"} \cup (IF HalfRead THEN {"torn"} ELSE {})
        BY <1>3, <1>8, <2>1
      <3>2. Grown(Matching(exporting.filter), Matching(exporting.filter)')
        BY <1>2, <1>3, <2>1 DEF Matching
      <3> QED
        BY <3>1, <3>2
    <2>2. CASE ~ Matches([status |-> status], exporting.filter)
      BY <1>2, <1>3, <2>2 DEF Matching
    <2> QED
      BY <2>1, <2>2
  <1> QED
    BY <1>2, <1>3, <1>4, <1>5, <1>7, <1>8, EntriesKeep

LEMMA DecidedKeeps ==
    ASSUME ExportInv, NEW i \in 1..MaxEntries, Decided(i)
    PROVE  ExportInv'
  <1>1. PagesTyped
    BY DEF ExportInv
  <1>2. /\ recorded' \in EntrySeqs /\ Len(recorded') = Len(recorded)
        /\ Kept(recorded', "all")[Len(recorded')] = Matching("all")
        /\ Grown(Matching("approved"), Kept(recorded', "approved")[Len(recorded')])
    BY <1>1, DecidedMoves
  <1>3. /\ exporting' = exporting /\ download' = download /\ due' = due
        /\ disturbed' = IF exporting = NoExport \/ exporting.filter = "all" THEN disturbed
                          ELSE disturbed \cup {IF exporting.filter = "flagged" THEN "out" ELSE "in"}
                                      \cup (IF HalfRead THEN {"torn"} ELSE {})
    BY DEF Decided
  <1>4. Len(recorded) <= Len(recorded')
    <2>1. Len(recorded) \in Nat
      BY <1>1, RecordedIs DEF PagesTyped
    <2> QED
      BY <1>2, <2>1
  <1>6. disturbed' \subseteq {"in", "out", "torn"}
    BY <1>1, <1>3 DEF PagesTyped
  <1>7. \A f \in Filters : f = "all" \/ f = "flagged" \/ f = "approved"
    BY DEF Filters, Statuses
  <1>9. exporting = NoExport => disturbed' = disturbed
    BY <1>3
  <1>10. ASSUME exporting # NoExport
         PROVE  \/ disturbed' = disturbed /\ Matching(exporting.filter)' = Matching(exporting.filter)
                \/ "out" \in disturbed'
                \/ /\ Grown(Matching(exporting.filter), Matching(exporting.filter)')
                   /\ "in" \in disturbed' /\ disturbed \subseteq disturbed'
                   /\ HalfRead => "torn" \in disturbed'
    <2>1. exporting.filter = "all" \/ exporting.filter = "flagged" \/ exporting.filter = "approved"
      <3>1. exporting \in ExportRuns
        BY <1>10 DEF ExportInv, ExportGoesOn, ExportUnderWay
      <3>2. exporting.filter \in Filters
        BY <3>1 DEF ExportRuns
      <3> QED
        BY <1>7, <3>2
    <2>2. CASE exporting.filter = "all"
      BY <1>2, <1>3, <2>2 DEF Matching
    <2>3. CASE exporting.filter = "flagged"
      BY <1>3, <1>10, <2>3
    <2>4. CASE exporting.filter = "approved"
      <3>1. disturbed' = disturbed \cup {"in"} \cup (IF HalfRead THEN {"torn"} ELSE {})
        BY <1>3, <1>10, <2>4
      <3>2. Grown(Matching(exporting.filter), Matching(exporting.filter)')
        BY <1>2, <1>3, <2>4 DEF Matching
      <3> QED
        BY <3>1, <3>2
    <2> QED
      BY <2>1, <2>2, <2>3, <2>4
  <1> QED
    BY <1>2, <1>3, <1>4, <1>6, <1>9, <1>10, EntriesKeep

\* While it goes on there is no file.
LEMMA GoesOnKeeps ==
    ASSUME ExportInv, recorded' = recorded, download' = {},
           due' \in Seq(Ids), disturbed' \subseteq {"in", "out", "torn"},
           ExportUnderWay(exporting', Matching(exporting'.filter), due', disturbed')
    PROVE  ExportInv'
  <1>3. Matching(exporting.filter)' = Matching(exporting'.filter)
    BY DEF Matching
  <1>4. ExportGoesOn'
    BY <1>3 DEF ExportGoesOn
  <1>5. PagesTyped'
    BY DEF ExportInv, PagesTyped
  <1>6. NoRowLost'
    BY DEF NoRowLost
  <1> QED
    BY <1>4, <1>5, <1>6 DEF ExportInv

LEMMA ExportBeginsKeeps ==
    ASSUME ExportInv, NEW f \in Filters, ExportBegins(f)
    PROVE  ExportInv'
  <1>1. Matching(f) \in Seq(Ids)
    BY RowsOf DEF ExportInv
  <1>2. /\ exporting' = [filter |-> f, page |-> 1, rows |-> <<>>, answer |-> {}, total |-> {}]
        /\ download' = {} /\ due' = Matching(f) /\ disturbed' = {}
        /\ recorded' = recorded
    BY DEF ExportBegins
  <1>3. exporting'.filter = f
    BY <1>2
  <1>4. ExportUnderWay(exporting', Matching(f), due', disturbed')
    BY <1>1, <1>2, ExportStarts
  <1>5. ExportUnderWay(exporting', Matching(exporting'.filter), due', disturbed')
    BY <1>3, <1>4
  <1> QED
    BY <1>1, <1>2, <1>5, GoesOnKeeps

LEMMA PageFoundKeeps ==
    ASSUME ExportInv, PageFound
    PROVE  ExportInv'
  <1> DEFINE X == exporting
             M == Matching(exporting.filter)
  <1>1. /\ exporting # NoExport /\ X.answer = {}
        /\ exporting' = [X EXCEPT !.answer = {PageAt(X.filter, X.page)}]
        /\ download' = download /\ due' = due /\ disturbed' = disturbed
        /\ recorded' = recorded
    BY DEF PageFound
  <1>2. ExportUnderWay(X, M, due, disturbed) /\ download = {} /\ X \in ExportRuns
    BY <1>1 DEF ExportInv, ExportGoesOn, ExportUnderWay
  <1>3. M \in Seq(Ids)
    BY RowsOf DEF ExportInv
  <1>4. PageAt(X.filter, X.page) = RowsOfPage(M, RowsBefore(X.page))
    BY <1>2, ExportRunPages, PageAtIsRows
  <1>5. exporting'.filter = X.filter
    BY <1>1, <1>2 DEF ExportRuns
  <1>6. exporting' = [X EXCEPT !.answer = {RowsOfPage(M, RowsBefore(X.page))}]
    BY <1>1, <1>4
  <1>7. Matching(exporting'.filter) = M
    BY <1>5
  <1>8. due \in Seq(Ids) /\ disturbed \subseteq {"in", "out", "torn"}
    BY DEF ExportInv, PagesTyped
  <1> HIDE DEF X, M
  <1>9. ExportUnderWay(exporting', M, due, disturbed)
    BY <1>1, <1>2, <1>3, <1>6, PageFoundGoesOn
  <1> QED
    BY <1>1, <1>2, <1>7, <1>8, <1>9, GoesOnKeeps

LEMMA RowsCountedKeeps ==
    ASSUME ExportInv, RowsCounted
    PROVE  ExportInv'
  <1> DEFINE X == exporting
             M == Matching(exporting.filter)
  <1>1. /\ exporting # NoExport /\ X.total = {}
        /\ exporting' = [X EXCEPT !.total = {Len(M)}]
        /\ download' = download /\ due' = due /\ disturbed' = disturbed
        /\ recorded' = recorded
    BY DEF RowsCounted
  <1>2. ExportUnderWay(X, M, due, disturbed) /\ download = {} /\ X \in ExportRuns
    BY <1>1 DEF ExportInv, ExportGoesOn, ExportUnderWay
  <1>3. M \in Seq(Ids) /\ Len(M) \in 0..MaxEntries
    BY RowsOf DEF ExportInv
  <1>4. exporting'.filter = X.filter
    BY <1>1, <1>2 DEF ExportRuns
  <1>5. Matching(exporting'.filter) = M
    BY <1>4
  <1>6. due \in Seq(Ids) /\ disturbed \subseteq {"in", "out", "torn"}
    BY DEF ExportInv, PagesTyped
  <1> HIDE DEF X, M
  <1>7. ExportUnderWay(exporting', M, due, disturbed)
    BY <1>1, <1>2, <1>3, RowsCountedGoesOn
  <1> QED
    BY <1>1, <1>2, <1>5, <1>6, <1>7, GoesOnKeeps

LEMMA PageArrivedKeeps ==
    ASSUME ExportInv, PageArrived
    PROVE  ExportInv'
  <1> DEFINE X == exporting
             M == Matching(exporting.filter)
  <1>1. /\ exporting # NoExport /\ due' = due /\ disturbed' = disturbed
        /\ recorded' = recorded
    BY DEF PageArrived
  <1>2. ExportUnderWay(X, M, due, disturbed) /\ download = {} /\ X \in ExportRuns
    BY <1>1 DEF ExportInv, ExportGoesOn, ExportUnderWay
  <1>3. M \in Seq(Ids) /\ Len(M) <= Len(recorded) /\ Len(M) \in Nat /\ Len(recorded) \in Nat
    <2>1. M \in Seq(Ids) /\ Len(M) <= Len(recorded) /\ Len(M) \in 0..MaxEntries
          /\ Len(recorded) \in 0..MaxEntries
      BY RowsOf DEF ExportInv
    <2> QED
      BY <2>1
  <1>4. due \in Seq(Ids) /\ disturbed \subseteq {"in", "out", "torn"}
    BY DEF ExportInv, PagesTyped
  <1>5. PICK found \in X.answer, total \in X.total :
            IF LastPage(X.rows \o found, found, total) \/ X.page = MaxPages
            THEN exporting' = NoExport /\ download' = {X.rows \o found}
            ELSE /\ exporting' = [X EXCEPT !.rows = X.rows \o found, !.page = @ + 1,
                                          !.answer = {}, !.total = {}]
                 /\ download' = download
    BY Zenon DEF PageArrived
  <1> DEFINE rows == X.rows \o found
  <1>6. rows \in Seq(Ids)
    <2>1. X.rows \in Seq(Ids) /\ found \in Seq(Ids)
      BY <1>2 DEF ExportRuns
    <2> QED
      BY <2>1, ConcatProperties
  <1>7. ASSUME LastPage(rows, found, total) \/ X.page = MaxPages PROVE ExportInv'
    <2>1. exporting' = NoExport /\ download' = {rows}
      BY <1>5, <1>7
    <2>2. Len(due) <= MaxPages * PageSize =>
              /\ disturbed = {} => rows = due
              /\ disturbed \subseteq {"in"} /\ Len(M) <= MaxPages * PageSize =>
                     ToSet(due) \subseteq ToSet(rows)
      <3> SUFFICES ASSUME Len(due) <= MaxPages * PageSize
                   PROVE  /\ disturbed = {} => rows = due
                          /\ disturbed \subseteq {"in"} /\ Len(M) <= MaxPages * PageSize =>
                                 ToSet(due) \subseteq ToSet(rows)
        OBVIOUS
      <3>1. /\ found \in X.answer /\ total \in X.total /\ rows = X.rows \o found
            /\ LastPage(rows, found, total) \/ X.page = MaxPages
        BY <1>5, <1>7
      <3> DEFINE most == MaxPages * PageSize
      <3>2. most = MaxPages * PageSize /\ Len(due) <= most
        OBVIOUS
      <3> HIDE DEF X, M, rows, most
      <3>3. M \in Seq(Ids) /\ due \in Seq(Ids) /\ ExportUnderWay(X, M, due, disturbed)
        BY <1>2, <1>3, <1>4
      <3>4. Complete(rows, M, due, disturbed, most)
        BY <3>1, <3>2, <3>3, LastPageIsAll
      <3> QED
        BY <3>2, <3>4 DEF Complete
    <2>3. Len(recorded) <= MaxPages * PageSize => Len(M) <= MaxPages * PageSize
      <3>1. MaxPages * PageSize \in Nat
        BY ExportAssumption
      <3> HIDE DEF M
      <3> QED
        BY <1>3, <3>1
    <2>4. recorded' = recorded
      BY <1>1
    <2>5. NoRowLost'
      <3> HIDE DEF M, rows
      <3> QED
        BY <1>1, <2>1, <2>2, <2>3, <2>4 DEF NoRowLost
    <2>7. PagesTyped'
      <3> HIDE DEF rows
      <3> QED
        BY <1>1, <1>6, <2>1, <2>4 DEF ExportInv, PagesTyped
    <2>8. ExportGoesOn'
      BY <2>1 DEF ExportGoesOn
    <2> QED
      BY <2>5, <2>7, <2>8 DEF ExportInv
  <1>8. ASSUME ~ (LastPage(rows, found, total) \/ X.page = MaxPages) PROVE ExportInv'
    <2>1. /\ exporting' = [X EXCEPT !.rows = rows, !.page = @ + 1, !.answer = {}, !.total = {}]
          /\ download' = download
      BY <1>5, <1>8
    <2>2. exporting'.filter = X.filter
      BY <1>2, <2>1 DEF ExportRuns
    <2>3. Matching(exporting'.filter) = M
      BY <2>2
    <2>4. ExportUnderWay(exporting', M, due, disturbed)
      <3> HIDE DEF X, M, rows
      <3>1. rows = X.rows \o found
        BY DEF rows
      <3> QED
        BY <1>2, <1>3, <1>8, <2>1, <3>1, NextPageGoesOn
    <2> QED
      BY <1>1, <1>2, <1>4, <2>1, <2>3, <2>4, GoesOnKeeps
  <1> QED
    BY <1>7, <1>8

LEMMA ExportFailsKeeps ==
    ASSUME ExportInv, ExportFails
    PROVE  ExportInv'
  <1>1. /\ exporting # NoExport /\ exporting' = NoExport /\ download' = download /\ due' = due
        /\ disturbed' = disturbed /\ recorded' = recorded
    BY DEF ExportFails
  <1> QED
    BY <1>1 DEF ExportInv, ExportGoesOn, NoRowLost, PagesTyped

LEMMA ExportKeeps == ExportInv /\ [ExportNext]_exportVars => ExportInv'
  <1> SUFFICES ASSUME ExportInv, [ExportNext]_exportVars PROVE ExportInv'
    OBVIOUS
  <1>1. CASE EntryStep
    BY <1>1, CheckedInKeeps, DecidedKeeps DEF EntryStep
  <1>2. CASE ExportStep
    BY <1>2, ExportBeginsKeeps, PageFoundKeeps, RowsCountedKeeps, PageArrivedKeeps,
       ExportFailsKeeps DEF ExportStep
  <1>3. CASE UNCHANGED exportVars
    <2>1. /\ exporting' = exporting /\ download' = download /\ due' = due
          /\ disturbed' = disturbed /\ recorded' = recorded
      BY <1>3 DEF exportVars
    <2>2. Matching(exporting.filter)' = Matching(exporting.filter)
      BY <2>1 DEF Matching
    <2> QED
      BY <2>1, <2>2 DEF ExportInv, ExportGoesOn, NoRowLost, PagesTyped
  <1> QED
    BY <1>1, <1>2, <1>3 DEF ExportNext

LEMMA ExportInvariant == ExportSpec => []ExportInv
  BY ExportInits, ExportKeeps, PTL DEF ExportSpec

LEMMA ExportsTyped == ExportSpec => []ExportTypeOK
  BY ExportInvariant, ExportInvMeans, PTL

\* The export, for any sizes of page, limits of pages and entries, and whatever
\* comes in late or is decided meanwhile, misses no row that was there.
THEOREM ExportsLoseNothing == ExportSpec => []NoRowLost
  BY ExportInvariant, ExportInvMeans, PTL

-----------------------------------------------------------------------------
\* Tokens, signings and accounts keep their types.
LEMMA AccessIsTyped == AccessSpec => []AccessTypeOK
  <1>0. AccessTtl \in Nat /\ RefreshTtl \in Nat /\ MaxInstant \in Nat /\ MaxSigned \in Nat
    BY AccessAssumption
  <1>1. AccessInit => AccessTypeOK
    <2>1. 0 \in 0..MaxInstant /\ 0 \in 0..MaxSigned
      BY <1>0
    <2> QED
      BY <2>1 DEF AccessInit, AccessTypeOK
  <1>2. AccessTypeOK /\ [AccessNext]_accessVars => AccessTypeOK'
    <2> SUFFICES ASSUME AccessTypeOK, [AccessNext]_accessVars PROVE AccessTypeOK'
      OBVIOUS
    <2>0. /\ algorithm \in {"HS256", "RS256"} /\ roleOf \in [People -> RoleKeys]
          /\ instant \in 0..MaxInstant /\ instant \in Nat
          /\ account \in [People -> [active : BOOLEAN, since : 0..MaxInstant]]
          /\ signing \in [SignSlots -> (People \X (0..MaxInstant)) \cup {NoSigning}]
          /\ issued \subseteq Tokens /\ signed \in 0..MaxSigned
      BY <1>0 DEF AccessTypeOK
    <2>1. ASSUME NEW s \in SignSlots, NEW u \in People,
                 signing' = [signing EXCEPT ![s] = <<u, instant>>],
                 UNCHANGED <<algorithm, roleOf, instant, account, issued, signed>>
          PROVE  AccessTypeOK'
      BY <2>0, <2>1 DEF AccessTypeOK
    <2>2. ASSUME NEW s \in SignSlots, NEW u \in People, SignIn(s, u) PROVE AccessTypeOK'
      BY <2>1, <2>2 DEF SignIn
    <2>3. ASSUME NEW s \in SignSlots, Refresh(s) PROVE AccessTypeOK'
      <3>1. PICK t \in issued : signing' = [signing EXCEPT ![s] = <<t.sub, instant>>]
        BY <2>3 DEF Refresh
      <3>2. t.sub \in People
        BY <2>0, <3>1 DEF Tokens
      <3> QED
        BY <2>1, <2>3, <3>1, <3>2 DEF Refresh
    <2>4. ASSUME NEW s \in SignSlots, SignTokens(s) PROVE AccessTypeOK'
      <3>1. /\ signing[s] # NoSigning /\ signing' = [signing EXCEPT ![s] = NoSigning]
            /\ algorithm' = algorithm /\ roleOf' = roleOf /\ instant' = instant
            /\ account' = account
        BY <2>4 DEF SignTokens
      <3>2. signing[s][1] \in People
        BY <2>0, <3>1
      <3>3. ASSUME NEW kind \in TokenKinds, NEW ttl \in Nat
            PROVE  TokenFor(signing[s][1], kind, ttl) \in Tokens
        <4>1. KeyFor(kind) \in {"pair"} \cup TokenKinds /\ instant + ttl \in Nat
              /\ roleOf[signing[s][1]] \in RoleKeys
          BY <2>0, <3>2 DEF KeyFor
        <4> QED
          BY <3>2, <4>1 DEF TokenFor, Tokens
      <3>4. issued' \subseteq Tokens /\ signed' \in 0..MaxSigned
        <4>1. "access" \in TokenKinds /\ "refresh" \in TokenKinds
          BY DEF TokenKinds
        <4> QED
          BY <1>0, <2>0, <2>4, <3>3, <4>1 DEF SignTokens
      <3>5. signing' \in [SignSlots -> (People \X (0..MaxInstant)) \cup {NoSigning}]
        BY <2>0, <3>1
      <3> QED
        BY <2>0, <3>1, <3>4, <3>5 DEF AccessTypeOK
    <2>5. ASSUME NEW u \in People, TurnOff(u) \/ TurnOn(u) PROVE AccessTypeOK'
      <3>1. PICK b \in BOOLEAN : account' = [account EXCEPT ![u] = [active |-> b, since |-> instant]]
        BY <2>5 DEF TurnOff, TurnOn
      <3>2. UNCHANGED <<algorithm, roleOf, instant, signing, issued, signed>>
        BY <2>5 DEF TurnOff, TurnOn
      <3>3. [active |-> b, since |-> instant] \in [active : BOOLEAN, since : 0..MaxInstant]
        BY <2>0, <3>1
      <3>4. account' \in [People -> [active : BOOLEAN, since : 0..MaxInstant]]
        BY <2>0, <3>1, <3>3
      <3> QED
        BY <2>0, <3>2, <3>4 DEF AccessTypeOK
    <2>6. CASE InstantTick
      <3>1. /\ instant' \in 0..MaxInstant /\ issued' \subseteq issued
            /\ algorithm' = algorithm /\ roleOf' = roleOf /\ account' = account
            /\ signing' = signing /\ signed' = signed
        BY <1>0, <2>0, <2>6 DEF InstantTick
      <3> QED
        BY <2>0, <3>1 DEF AccessTypeOK
    <2>7. CASE UNCHANGED accessVars
      <3>1. /\ instant' = instant /\ issued' = issued
            /\ algorithm' = algorithm /\ roleOf' = roleOf /\ account' = account
            /\ signing' = signing /\ signed' = signed
        BY <2>7 DEF accessVars
      <3> QED
        BY <2>0, <3>1 DEF AccessTypeOK
    <2> QED
      BY <2>2, <2>3, <2>4, <2>5, <2>6, <2>7 DEF AccessNext
  <1> QED
    BY <1>1, <1>2, PTL DEF AccessSpec

-----------------------------------------------------------------------------
\* Who may do what: the tables of Access.  In either matrix the roles of the
\* console may do the same.
ConsoleRoles == {"admin_hr", "super_admin"}

LEMMA MatricesAgree ==
    /\ \A role \in ConsoleRoles :
          /\ ConsolePermissions[role] = ROLE_PERMISSIONS[role]
          /\ HR_PERMISSIONS \subseteq ROLE_PERMISSIONS[role]
    /\ ConsolePermissions["employee"] = {}
    /\ ROLE_PERMISSIONS["employee"] = EMPLOYEE_PERMISSIONS
    /\ ROLE_PERMISSIONS["super_admin"] = SUPER_ADMIN_PERMISSIONS
  <1>1. /\ ROLE_PERMISSIONS["super_admin"] = SUPER_ADMIN_PERMISSIONS
        /\ ROLE_PERMISSIONS["admin_hr"] = HR_PERMISSIONS
        /\ ROLE_PERMISSIONS["employee"] = EMPLOYEE_PERMISSIONS
    BY DEF ROLE_PERMISSIONS, RoleKeys
  <1>2. /\ ConsolePermissions["super_admin"] = ConsoleSuperPermissions
        /\ ConsolePermissions["admin_hr"] = ConsoleHrPermissions
        /\ ConsolePermissions["employee"] = {}
    BY DEF ConsolePermissions, RoleKeys
  <1>3. ConsoleHrPermissions = HR_PERMISSIONS
    BY DEF ConsoleHrPermissions, HR_PERMISSIONS
  <1>4. ConsoleSuperPermissions = SUPER_ADMIN_PERMISSIONS
    BY <1>3 DEF ConsoleSuperPermissions, SUPER_ADMIN_PERMISSIONS
  <1>5. HR_PERMISSIONS \subseteq SUPER_ADMIN_PERMISSIONS
    BY DEF SUPER_ADMIN_PERMISSIONS
  <1> QED
    BY <1>1, <1>2, <1>3, <1>4, <1>5 DEF ConsoleRoles

\* What is shown to a role of the console is granted to it.
LEMMA ShownIsGranted ==
    ASSUME NEW role \in ConsoleRoles
    PROVE  /\ \A p : Shows(role, p) <=> p \in ROLE_PERMISSIONS[role]
           /\ \A p \in HR_PERMISSIONS : Shows(role, p)
  BY MatricesAgree DEF Shows

\* Every page, by the permission it needs, its calls and its buttons.
ItsPage(pg, needs, calls, buttons) ==
    /\ pg \in Pages
    /\ pg.needs = needs
    /\ pg.calls = calls
    /\ pg.buttons = buttons

LEMMA DashboardPageIs ==
    ItsPage(DashboardPage, "dashboard:view",
            {"GET dashboard/kpis", "GET dashboard/trend", "GET attendance/feed"},
            {<<"", "GET attendance/:id/selfie-url">>})
  <1>1. DashboardPage \in Pages
    BY DEF Pages
  <1> QED
    BY <1>1 DEF ItsPage, DashboardPage, PageOf, SelfieCalls

LEMMA EmployeesPageIs ==
    ItsPage(EmployeesPage, "employee:read",
            {"GET offices", "GET employees"},
            {})
  <1>1. EmployeesPage \in Pages
    BY DEF Pages
  <1> QED
    BY <1>1 DEF ItsPage, EmployeesPage, PageOf

LEMMA EmployeeDetailPageIs ==
    ItsPage(EmployeeDetailPage, "employee:read",
            {"GET employees/:id"},
            {<<"employee:write", "POST uploads/presign">>,
             <<"employee:write", "PATCH employees/:id/photo">>,
             <<"employee:deactivate", "DELETE employees/:id">>})
  <1>1. EmployeeDetailPage \in Pages
    BY DEF Pages
  <1> QED
    BY <1>1 DEF ItsPage, EmployeeDetailPage, PageOf

LEMMA NewEmployeePageIs ==
    ItsPage(NewEmployeePage, "employee:write",
            {"GET offices", "GET geofences"},
            {<<"", "POST uploads/presign">>,
             <<"", "POST employees">>,
             <<"", "PATCH geofences/:id">>})
  <1>1. NewEmployeePage \in Pages
    BY DEF Pages
  <1> QED
    BY <1>1 DEF ItsPage, NewEmployeePage, PageOf

LEMMA GeofencesPageIs ==
    ItsPage(GeofencesPage, "geofence:read",
            {"GET geofences"},
            {<<"geofence:write", "POST geofences">>,
             <<"", "PATCH geofences/:id">>,
             <<"", "DELETE geofences/:id">>})
  <1>1. GeofencesPage \in Pages
    BY DEF Pages
  <1> QED
    BY <1>1 DEF ItsPage, GeofencesPage, PageOf

LEMMA AttendancePageIs ==
    ItsPage(AttendancePage, "attendance:read",
            {"GET offices", "GET attendance"},
            {<<"", "GET attendance/:id/selfie-url">>})
  <1>1. AttendancePage \in Pages
    BY DEF Pages
  <1> QED
    BY <1>1 DEF ItsPage, AttendancePage, PageOf, SelfieCalls

LEMMA FlaggedPageIs ==
    ItsPage(FlaggedPage, "attendance:review",
            {"GET attendance"},
            {<<"", "GET attendance/:id/selfie-url">>,
             <<"", "POST attendance/:id/approve">>,
             <<"", "POST attendance/:id/reject">>})
  <1>1. FlaggedPage \in Pages
    BY DEF Pages
  <1> QED
    BY <1>1 DEF ItsPage, FlaggedPage, PageOf, SelfieCalls

LEMMA LeavePageIs ==
    ItsPage(LeavePage, "leave:read",
            {"GET leave"},
            {<<"leave:write", "POST leave/:id/approve">>,
             <<"leave:write", "POST leave/:id/reject">>})
  <1>1. LeavePage \in Pages
    BY DEF Pages
  <1> QED
    BY <1>1 DEF ItsPage, LeavePage, PageOf

LEMMA LiveMapPageIs ==
    ItsPage(LiveMapPage, "livemap:view",
            {"GET attendance/live-map", "GET geofences"},
            {})
  <1>1. LiveMapPage \in Pages
    BY DEF Pages
  <1> QED
    BY <1>1 DEF ItsPage, LiveMapPage, PageOf

LEMMA ReportsPageIs ==
    ItsPage(ReportsPage, "report:export",
            {"GET offices", "GET attendance"},
            {})
  <1>1. ReportsPage \in Pages
    BY DEF Pages
  <1> QED
    BY <1>1 DEF ItsPage, ReportsPage, PageOf

LEMMA SettingsPageIs ==
    ItsPage(SettingsPage, "settings:read",
            {"GET spoof-alerts"},
            {})
  <1>1. SettingsPage \in Pages
    BY DEF Pages
  <1> QED
    BY <1>1 DEF ItsPage, SettingsPage, PageOf

LEMMA AccountsPageIs ==
    ItsPage(AccountsPage, "admin:manage",
            {"GET admins"},
            {})
  <1>1. AccountsPage \in Pages
    BY DEF Pages
  <1> QED
    BY <1>1 DEF ItsPage, AccountsPage, PageOf

LEMMA PolicyPageIs ==
    ItsPage(PolicyPage, "policy:write",
            {"GET policy"},
            {<<"", "PATCH policy">>})
  <1>1. PolicyPage \in Pages
    BY DEF Pages
  <1> QED
    BY <1>1 DEF ItsPage, PolicyPage, PageOf

LEMMA AuditPageIs ==
    ItsPage(AuditPage, "audit:read",
            {"GET audit"},
            {})
  <1>1. AuditPage \in Pages
    BY DEF Pages
  <1> QED
    BY <1>1 DEF ItsPage, AuditPage, PageOf

LEMMA BillingPageIs ==
    ItsPage(BillingPage, "billing:read",
            {"GET billing"},
            {})
  <1>1. BillingPage \in Pages
    BY DEF Pages
  <1> QED
    BY <1>1 DEF ItsPage, BillingPage, PageOf

\* A call is answered to whoever has the permission of its route.
IsAnswered(role, call) == Permits(role, call) \/ <<role, call>> \in KnownRefusals
Routed(call, p) == <<call, p>> \in ConsoleEndpoints

LEMMA RouteAnswers ==
    ASSUME NEW role \in ConsoleRoles, NEW call, NEW p, Routed(call, p), Shows(role, p)
    PROVE  IsAnswered(role, call)
  <1>1. p \in ROLE_PERMISSIONS[role] /\ <<call, p>> \in Endpoints
    BY ShownIsGranted DEF Routed, Endpoints
  <1> QED
    BY <1>1 DEF IsAnswered, Permits

LEMMA RoutesOfTheConsole ==
    /\ Routed("GET attendance", "attendance:read")
    /\ Routed("GET attendance/feed", "attendance:read")
    /\ Routed("GET attendance/live-map", "livemap:view")
    /\ Routed("GET attendance/:id/selfie-url", "attendance:review")
    /\ Routed("POST attendance/:id/approve", "attendance:review")
    /\ Routed("POST attendance/:id/reject", "attendance:review")
    /\ Routed("GET dashboard/kpis", "dashboard:view")
    /\ Routed("GET dashboard/trend", "dashboard:view")
    /\ Routed("GET employees", "employee:read")
    /\ Routed("GET employees/:id", "employee:read")
    /\ Routed("POST employees", "employee:write")
    /\ Routed("PATCH employees/:id", "employee:write")
    /\ Routed("PATCH employees/:id/photo", "employee:write")
    /\ Routed("DELETE employees/:id", "employee:deactivate")
    /\ Routed("GET geofences", "geofence:read")
    /\ Routed("POST geofences", "geofence:write")
    /\ Routed("PATCH geofences/:id", "geofence:write")
    /\ Routed("DELETE geofences/:id", "geofence:write")
    /\ Routed("GET leave", "leave:read")
    /\ Routed("POST leave/:id/approve", "leave:write")
    /\ Routed("POST leave/:id/reject", "leave:write")
    /\ Routed("GET offices", "geofence:read")
    /\ Routed("GET admins", "admin:manage")
    /\ Routed("GET audit", "audit:read")
    /\ Routed("GET spoof-alerts", "audit:read")
    /\ Routed("GET admins/incidents", "audit:read")
    /\ Routed("GET billing", "billing:read")
    /\ Routed("GET policy", "settings:read")
    /\ Routed("PATCH policy", "policy:write")
    /\ Routed("POST uploads/presign", "employee:write")
    /\ Routed("GET auth/me", "")
  <1>1. /\ <<"GET attendance", "attendance:read">> \in ConsoleEndpoints
        /\ <<"GET attendance/feed", "attendance:read">> \in ConsoleEndpoints
        /\ <<"GET attendance/live-map", "livemap:view">> \in ConsoleEndpoints
        /\ <<"GET attendance/:id/selfie-url", "attendance:review">> \in ConsoleEndpoints
        /\ <<"POST attendance/:id/approve", "attendance:review">> \in ConsoleEndpoints
        /\ <<"POST attendance/:id/reject", "attendance:review">> \in ConsoleEndpoints
    BY DEF AttendanceRoutes, ConsoleEndpoints
  <1>2. /\ <<"GET dashboard/kpis", "dashboard:view">> \in ConsoleEndpoints
        /\ <<"GET dashboard/trend", "dashboard:view">> \in ConsoleEndpoints
    BY DEF DashboardRoutes, ConsoleEndpoints
  <1>3. /\ <<"GET employees", "employee:read">> \in ConsoleEndpoints
        /\ <<"GET employees/:id", "employee:read">> \in ConsoleEndpoints
        /\ <<"POST employees", "employee:write">> \in ConsoleEndpoints
        /\ <<"PATCH employees/:id", "employee:write">> \in ConsoleEndpoints
        /\ <<"PATCH employees/:id/photo", "employee:write">> \in ConsoleEndpoints
        /\ <<"DELETE employees/:id", "employee:deactivate">> \in ConsoleEndpoints
    BY DEF EmployeeRoutes, ConsoleEndpoints
  <1>4. /\ <<"GET geofences", "geofence:read">> \in ConsoleEndpoints
        /\ <<"POST geofences", "geofence:write">> \in ConsoleEndpoints
        /\ <<"PATCH geofences/:id", "geofence:write">> \in ConsoleEndpoints
        /\ <<"DELETE geofences/:id", "geofence:write">> \in ConsoleEndpoints
    BY DEF GeofenceRoutes, ConsoleEndpoints
  <1>5. /\ <<"GET leave", "leave:read">> \in ConsoleEndpoints
        /\ <<"POST leave/:id/approve", "leave:write">> \in ConsoleEndpoints
        /\ <<"POST leave/:id/reject", "leave:write">> \in ConsoleEndpoints
    BY DEF LeaveRoutes, ConsoleEndpoints
  <1>6. <<"GET offices", "geofence:read">> \in ConsoleEndpoints
    BY DEF OfficeRoutes, ConsoleEndpoints
  <1>7. /\ <<"GET admins", "admin:manage">> \in ConsoleEndpoints
        /\ <<"GET audit", "audit:read">> \in ConsoleEndpoints
        /\ <<"GET spoof-alerts", "audit:read">> \in ConsoleEndpoints
        /\ <<"GET admins/incidents", "audit:read">> \in ConsoleEndpoints
        /\ <<"GET billing", "billing:read">> \in ConsoleEndpoints
        /\ <<"GET policy", "settings:read">> \in ConsoleEndpoints
        /\ <<"PATCH policy", "policy:write">> \in ConsoleEndpoints
    BY DEF SuperAdminRoutes, ConsoleEndpoints
  <1>8. <<"POST uploads/presign", "employee:write">> \in ConsoleEndpoints
    BY DEF AdminUploadRoutes, ConsoleEndpoints
  <1>9. <<"GET auth/me", "">> \in ConsoleEndpoints
    BY DEF AuthRoutes, ConsoleEndpoints
  <1> QED
    BY <1>1, <1>2, <1>3, <1>4, <1>5, <1>6, <1>7, <1>8, <1>9 DEF Routed

\* What everybody of the console may do, and so what they may call.
LEMMA HrIsShown ==
    ASSUME NEW role \in ConsoleRoles
    PROVE 
        /\ Shows(role, "attendance:read")
        /\ Shows(role, "attendance:review")
        /\ Shows(role, "dashboard:view")
        /\ Shows(role, "employee:read")
        /\ Shows(role, "employee:write")
        /\ Shows(role, "geofence:read")
        /\ Shows(role, "geofence:write")
        /\ Shows(role, "leave:read")
        /\ Shows(role, "leave:write")
        /\ Shows(role, "livemap:view")
        /\ Shows(role, "report:export")
        /\ Shows(role, "settings:read")
  BY ShownIsGranted DEF HR_PERMISSIONS

LEMMA HrCallsAnswered ==
    ASSUME NEW role \in ConsoleRoles
    PROVE 
        /\ IsAnswered(role, "GET attendance")
        /\ IsAnswered(role, "GET attendance/feed")
        /\ IsAnswered(role, "GET attendance/live-map")
        /\ IsAnswered(role, "GET attendance/:id/selfie-url")
        /\ IsAnswered(role, "POST attendance/:id/approve")
        /\ IsAnswered(role, "POST attendance/:id/reject")
        /\ IsAnswered(role, "GET dashboard/kpis")
        /\ IsAnswered(role, "GET dashboard/trend")
        /\ IsAnswered(role, "GET employees")
        /\ IsAnswered(role, "GET employees/:id")
        /\ IsAnswered(role, "POST employees")
        /\ IsAnswered(role, "PATCH employees/:id")
        /\ IsAnswered(role, "PATCH employees/:id/photo")
        /\ IsAnswered(role, "GET geofences")
        /\ IsAnswered(role, "POST geofences")
        /\ IsAnswered(role, "PATCH geofences/:id")
        /\ IsAnswered(role, "DELETE geofences/:id")
        /\ IsAnswered(role, "GET leave")
        /\ IsAnswered(role, "POST leave/:id/approve")
        /\ IsAnswered(role, "POST leave/:id/reject")
        /\ IsAnswered(role, "GET offices")
        /\ IsAnswered(role, "GET policy")
        /\ IsAnswered(role, "POST uploads/presign")
  <1>1. IsAnswered(role, "GET attendance")
    BY RouteAnswers, RoutesOfTheConsole, HrIsShown
  <1>2. IsAnswered(role, "GET attendance/feed")
    BY RouteAnswers, RoutesOfTheConsole, HrIsShown
  <1>3. IsAnswered(role, "GET attendance/live-map")
    BY RouteAnswers, RoutesOfTheConsole, HrIsShown
  <1>4. IsAnswered(role, "GET attendance/:id/selfie-url")
    BY RouteAnswers, RoutesOfTheConsole, HrIsShown
  <1>5. IsAnswered(role, "POST attendance/:id/approve")
    BY RouteAnswers, RoutesOfTheConsole, HrIsShown
  <1>6. IsAnswered(role, "POST attendance/:id/reject")
    BY RouteAnswers, RoutesOfTheConsole, HrIsShown
  <1>7. IsAnswered(role, "GET dashboard/kpis")
    BY RouteAnswers, RoutesOfTheConsole, HrIsShown
  <1>8. IsAnswered(role, "GET dashboard/trend")
    BY RouteAnswers, RoutesOfTheConsole, HrIsShown
  <1>9. IsAnswered(role, "GET employees")
    BY RouteAnswers, RoutesOfTheConsole, HrIsShown
  <1>10. IsAnswered(role, "GET employees/:id")
    BY RouteAnswers, RoutesOfTheConsole, HrIsShown
  <1>11. IsAnswered(role, "POST employees")
    BY RouteAnswers, RoutesOfTheConsole, HrIsShown
  <1>12. IsAnswered(role, "PATCH employees/:id")
    BY RouteAnswers, RoutesOfTheConsole, HrIsShown
  <1>13. IsAnswered(role, "PATCH employees/:id/photo")
    BY RouteAnswers, RoutesOfTheConsole, HrIsShown
  <1>14. IsAnswered(role, "GET geofences")
    BY RouteAnswers, RoutesOfTheConsole, HrIsShown
  <1>15. IsAnswered(role, "POST geofences")
    BY RouteAnswers, RoutesOfTheConsole, HrIsShown
  <1>16. IsAnswered(role, "PATCH geofences/:id")
    BY RouteAnswers, RoutesOfTheConsole, HrIsShown
  <1>17. IsAnswered(role, "DELETE geofences/:id")
    BY RouteAnswers, RoutesOfTheConsole, HrIsShown
  <1>18. IsAnswered(role, "GET leave")
    BY RouteAnswers, RoutesOfTheConsole, HrIsShown
  <1>19. IsAnswered(role, "POST leave/:id/approve")
    BY RouteAnswers, RoutesOfTheConsole, HrIsShown
  <1>20. IsAnswered(role, "POST leave/:id/reject")
    BY RouteAnswers, RoutesOfTheConsole, HrIsShown
  <1>21. IsAnswered(role, "GET offices")
    BY RouteAnswers, RoutesOfTheConsole, HrIsShown
  <1>22. IsAnswered(role, "GET policy")
    BY RouteAnswers, RoutesOfTheConsole, HrIsShown
  <1>23. IsAnswered(role, "POST uploads/presign")
    BY RouteAnswers, RoutesOfTheConsole, HrIsShown
  <1> QED
    BY <1>1, <1>2, <1>3, <1>4, <1>5, <1>6, <1>7, <1>8, <1>9, <1>10, <1>11, <1>12, <1>13,
       <1>14, <1>15, <1>16, <1>17, <1>18, <1>19, <1>20, <1>21, <1>22, <1>23

-----------------------------------------------------------------------------
\* The two entries of a pair.
IsPair(pair, first, second) == pair[1] = first /\ pair[2] = second

LEMMA ItsPair == \A first, second : IsPair(<<first, second>>, first, second)
  BY DEF IsPair

\* What is offered: the calls of the pages shown, those of their buttons, but for
\* the ones that are gated, and those of the sidebar.
OpenButtons(role) ==
    {b \in UNION {pg.buttons : pg \in PagesShown(role)} : b[1] = "" \/ Shows(role, b[1])}
OpenSidebar(role) == {c \in SidebarCalls : Shows(role, c[1])}

LEMMA OfferedIs ==
    ASSUME NEW role \in RoleKeys, NEW call
    PROVE  call \in Offered[role] <=>
              \/ \E pg \in PagesShown(role) : call \in pg.calls
              \/ \E b \in OpenButtons(role) : call = b[2]
              \/ \E c \in OpenSidebar(role) : call = c[2]
  BY DEF Offered, OpenButtons, OpenSidebar

LEMMA OpenButton ==
    ASSUME NEW role, NEW b
    PROVE  b \in OpenButtons(role) <=>
              /\ \E pg \in PagesShown(role) : b \in pg.buttons
              /\ b[1] = "" \/ Shows(role, b[1])
  BY Zenon DEF OpenButtons

\* Whatever the console offers, the API answers: a page with its buttons.
ButtonAnswered(role, b) == b[1] = "" \/ Shows(role, b[1]) => IsAnswered(role, b[2])
PageAnswered(role, pg) ==
    /\ \A call \in pg.calls : IsAnswered(role, call)
    /\ \A b \in pg.buttons : ButtonAnswered(role, b)

LEMMA AnsweredByButton ==
    ASSUME NEW role, NEW gate, NEW call, gate = "" \/ Shows(role, gate) => IsAnswered(role, call)
    PROVE  ButtonAnswered(role, <<gate, call>>)
  <1>1. <<gate, call>>[1] = gate /\ <<gate, call>>[2] = call
    OBVIOUS
  <1> QED
    BY <1>1 DEF ButtonAnswered

LEMMA DashboardPageAnswered ==
    ASSUME NEW role \in ConsoleRoles, Shows(role, DashboardPage.needs)
    PROVE  PageAnswered(role, DashboardPage)
  <1>1. /\ Shows(role, "dashboard:view")
        /\ DashboardPage.calls = {"GET dashboard/kpis", "GET dashboard/trend",
                                    "GET attendance/feed"}
        /\ DashboardPage.buttons = {<<"", "GET attendance/:id/selfie-url">>}
    BY DashboardPageIs DEF ItsPage
  <1>2. \A b \in DashboardPage.buttons : ButtonAnswered(role, b)
    BY <1>1, HrCallsAnswered, AnsweredByButton, Zenon
  <1> QED
    BY <1>1, <1>2, HrCallsAnswered DEF PageAnswered

LEMMA EmployeesPageAnswered ==
    ASSUME NEW role \in ConsoleRoles, Shows(role, EmployeesPage.needs)
    PROVE  PageAnswered(role, EmployeesPage)
  <1>1. /\ Shows(role, "employee:read")
        /\ EmployeesPage.calls = {"GET offices", "GET employees"}
        /\ EmployeesPage.buttons = {}
    BY EmployeesPageIs DEF ItsPage
  <1> QED
    BY <1>1, HrCallsAnswered DEF PageAnswered

LEMMA EmployeeDetailPageAnswered ==
    ASSUME NEW role \in ConsoleRoles, Shows(role, EmployeeDetailPage.needs)
    PROVE  PageAnswered(role, EmployeeDetailPage)
  <1>1. /\ Shows(role, "employee:read")
        /\ EmployeeDetailPage.calls = {"GET employees/:id"}
        /\ EmployeeDetailPage.buttons = {<<"employee:write", "POST uploads/presign">>,
                                         <<"employee:write", "PATCH employees/:id/photo">>,
                                         <<"employee:deactivate", "DELETE employees/:id">>}
    BY EmployeeDetailPageIs DEF ItsPage
  <1>2. Shows(role, "employee:deactivate") => IsAnswered(role, "DELETE employees/:id")
    BY RouteAnswers, RoutesOfTheConsole
  <1>3. \A b \in EmployeeDetailPage.buttons : ButtonAnswered(role, b)
    <2>1. ButtonAnswered(role, <<"employee:write", "POST uploads/presign">>)
      BY <1>2, HrCallsAnswered, AnsweredByButton
    <2>2. ButtonAnswered(role, <<"employee:write", "PATCH employees/:id/photo">>)
      BY <1>2, HrCallsAnswered, AnsweredByButton
    <2>3. ButtonAnswered(role, <<"employee:deactivate", "DELETE employees/:id">>)
      BY <1>2, AnsweredByButton
    <2> QED
      BY <1>1, <2>1, <2>2, <2>3, Zenon
  <1> QED
    BY <1>1, <1>2, <1>3, HrCallsAnswered DEF PageAnswered

LEMMA NewEmployeePageAnswered ==
    ASSUME NEW role \in ConsoleRoles, Shows(role, NewEmployeePage.needs)
    PROVE  PageAnswered(role, NewEmployeePage)
  <1>1. /\ Shows(role, "employee:write")
        /\ NewEmployeePage.calls = {"GET offices", "GET geofences"}
        /\ NewEmployeePage.buttons = {<<"", "POST uploads/presign">>,
                                      <<"", "POST employees">>,
                                      <<"", "PATCH geofences/:id">>}
    BY NewEmployeePageIs DEF ItsPage
  <1>2. \A b \in NewEmployeePage.buttons : ButtonAnswered(role, b)
    <2>1. ButtonAnswered(role, <<"", "POST uploads/presign">>)
      BY HrCallsAnswered, AnsweredByButton
    <2>2. ButtonAnswered(role, <<"", "POST employees">>)
      BY HrCallsAnswered, AnsweredByButton
    <2>3. ButtonAnswered(role, <<"", "PATCH geofences/:id">>)
      BY HrCallsAnswered, AnsweredByButton
    <2> QED
      BY <1>1, <2>1, <2>2, <2>3, Zenon
  <1> QED
    BY <1>1, <1>2, HrCallsAnswered DEF PageAnswered

LEMMA GeofencesPageAnswered ==
    ASSUME NEW role \in ConsoleRoles, Shows(role, GeofencesPage.needs)
    PROVE  PageAnswered(role, GeofencesPage)
  <1>1. /\ Shows(role, "geofence:read")
        /\ GeofencesPage.calls = {"GET geofences"}
        /\ GeofencesPage.buttons = {<<"geofence:write", "POST geofences">>,
                                    <<"", "PATCH geofences/:id">>,
                                    <<"", "DELETE geofences/:id">>}
    BY GeofencesPageIs DEF ItsPage
  <1>2. \A b \in GeofencesPage.buttons : ButtonAnswered(role, b)
    <2>1. ButtonAnswered(role, <<"geofence:write", "POST geofences">>)
      BY HrCallsAnswered, AnsweredByButton
    <2>2. ButtonAnswered(role, <<"", "PATCH geofences/:id">>)
      BY HrCallsAnswered, AnsweredByButton
    <2>3. ButtonAnswered(role, <<"", "DELETE geofences/:id">>)
      BY HrCallsAnswered, AnsweredByButton
    <2> QED
      BY <1>1, <2>1, <2>2, <2>3, Zenon
  <1> QED
    BY <1>1, <1>2, HrCallsAnswered DEF PageAnswered

LEMMA AttendancePageAnswered ==
    ASSUME NEW role \in ConsoleRoles, Shows(role, AttendancePage.needs)
    PROVE  PageAnswered(role, AttendancePage)
  <1>1. /\ Shows(role, "attendance:read")
        /\ AttendancePage.calls = {"GET offices", "GET attendance"}
        /\ AttendancePage.buttons = {<<"", "GET attendance/:id/selfie-url">>}
    BY AttendancePageIs DEF ItsPage
  <1>2. \A b \in AttendancePage.buttons : ButtonAnswered(role, b)
    BY <1>1, HrCallsAnswered, AnsweredByButton, Zenon
  <1> QED
    BY <1>1, <1>2, HrCallsAnswered DEF PageAnswered

LEMMA FlaggedPageAnswered ==
    ASSUME NEW role \in ConsoleRoles, Shows(role, FlaggedPage.needs)
    PROVE  PageAnswered(role, FlaggedPage)
  <1>1. /\ Shows(role, "attendance:review")
        /\ FlaggedPage.calls = {"GET attendance"}
        /\ FlaggedPage.buttons = {<<"", "GET attendance/:id/selfie-url">>,
                                  <<"", "POST attendance/:id/approve">>,
                                  <<"", "POST attendance/:id/reject">>}
    BY FlaggedPageIs DEF ItsPage
  <1>2. \A b \in FlaggedPage.buttons : ButtonAnswered(role, b)
    <2>1. ButtonAnswered(role, <<"", "GET attendance/:id/selfie-url">>)
      BY HrCallsAnswered, AnsweredByButton
    <2>2. ButtonAnswered(role, <<"", "POST attendance/:id/approve">>)
      BY HrCallsAnswered, AnsweredByButton
    <2>3. ButtonAnswered(role, <<"", "POST attendance/:id/reject">>)
      BY HrCallsAnswered, AnsweredByButton
    <2> QED
      BY <1>1, <2>1, <2>2, <2>3, Zenon
  <1> QED
    BY <1>1, <1>2, HrCallsAnswered DEF PageAnswered

LEMMA LeavePageAnswered ==
    ASSUME NEW role \in ConsoleRoles, Shows(role, LeavePage.needs)
    PROVE  PageAnswered(role, LeavePage)
  <1>1. /\ Shows(role, "leave:read")
        /\ LeavePage.calls = {"GET leave"}
        /\ LeavePage.buttons = {<<"leave:write", "POST leave/:id/approve">>,
                                <<"leave:write", "POST leave/:id/reject">>}
    BY LeavePageIs DEF ItsPage
  <1>2. \A b \in LeavePage.buttons : ButtonAnswered(role, b)
    <2>1. ButtonAnswered(role, <<"leave:write", "POST leave/:id/approve">>)
      BY HrCallsAnswered, AnsweredByButton
    <2>2. ButtonAnswered(role, <<"leave:write", "POST leave/:id/reject">>)
      BY HrCallsAnswered, AnsweredByButton
    <2> QED
      BY <1>1, <2>1, <2>2, Zenon
  <1> QED
    BY <1>1, <1>2, HrCallsAnswered DEF PageAnswered

LEMMA LiveMapPageAnswered ==
    ASSUME NEW role \in ConsoleRoles, Shows(role, LiveMapPage.needs)
    PROVE  PageAnswered(role, LiveMapPage)
  <1>1. /\ Shows(role, "livemap:view")
        /\ LiveMapPage.calls = {"GET attendance/live-map", "GET geofences"}
        /\ LiveMapPage.buttons = {}
    BY LiveMapPageIs DEF ItsPage
  <1> QED
    BY <1>1, HrCallsAnswered DEF PageAnswered

LEMMA ReportsPageAnswered ==
    ASSUME NEW role \in ConsoleRoles, Shows(role, ReportsPage.needs)
    PROVE  PageAnswered(role, ReportsPage)
  <1>1. /\ Shows(role, "report:export")
        /\ ReportsPage.calls = {"GET offices", "GET attendance"}
        /\ ReportsPage.buttons = {}
    BY ReportsPageIs DEF ItsPage
  <1> QED
    BY <1>1, HrCallsAnswered DEF PageAnswered

LEMMA SettingsPageAnswered ==
    ASSUME NEW role \in ConsoleRoles, Shows(role, SettingsPage.needs)
    PROVE  PageAnswered(role, SettingsPage)
  <1>1. /\ Shows(role, "settings:read")
        /\ SettingsPage.calls = {"GET spoof-alerts"}
        /\ SettingsPage.buttons = {}
    BY SettingsPageIs DEF ItsPage
  <1>2. IsAnswered(role, "GET spoof-alerts")
    <2>1. CASE role = "admin_hr"
      BY <2>1 DEF IsAnswered, KnownRefusals
    <2>2. CASE role = "super_admin"
      <3>1. "audit:read" \in SUPER_ADMIN_PERMISSIONS
        BY DEF SUPER_ADMIN_PERMISSIONS
      <3>2. Shows(role, "audit:read")
        BY <2>2, <3>1, MatricesAgree, ShownIsGranted
      <3> QED
        BY <3>2, RouteAnswers, RoutesOfTheConsole
    <2> QED
      BY <2>1, <2>2 DEF ConsoleRoles
  <1> QED
    BY <1>1, <1>2, HrCallsAnswered DEF PageAnswered

LEMMA AccountsPageAnswered ==
    ASSUME NEW role \in ConsoleRoles, Shows(role, AccountsPage.needs)
    PROVE  PageAnswered(role, AccountsPage)
  <1>1. /\ Shows(role, "admin:manage")
        /\ AccountsPage.calls = {"GET admins"}
        /\ AccountsPage.buttons = {}
    BY AccountsPageIs DEF ItsPage
  <1>2. IsAnswered(role, "GET admins")
    BY <1>1, RouteAnswers, RoutesOfTheConsole
  <1> QED
    BY <1>1, <1>2, HrCallsAnswered DEF PageAnswered

LEMMA PolicyPageAnswered ==
    ASSUME NEW role \in ConsoleRoles, Shows(role, PolicyPage.needs)
    PROVE  PageAnswered(role, PolicyPage)
  <1>1. /\ Shows(role, "policy:write")
        /\ PolicyPage.calls = {"GET policy"}
        /\ PolicyPage.buttons = {<<"", "PATCH policy">>}
    BY PolicyPageIs DEF ItsPage
  <1>2. IsAnswered(role, "PATCH policy")
    BY <1>1, RouteAnswers, RoutesOfTheConsole
  <1>3. \A b \in PolicyPage.buttons : ButtonAnswered(role, b)
    BY <1>1, <1>2, HrCallsAnswered, AnsweredByButton, Zenon
  <1> QED
    BY <1>1, <1>2, <1>3, HrCallsAnswered DEF PageAnswered

LEMMA AuditPageAnswered ==
    ASSUME NEW role \in ConsoleRoles, Shows(role, AuditPage.needs)
    PROVE  PageAnswered(role, AuditPage)
  <1>1. /\ Shows(role, "audit:read")
        /\ AuditPage.calls = {"GET audit"}
        /\ AuditPage.buttons = {}
    BY AuditPageIs DEF ItsPage
  <1>2. IsAnswered(role, "GET audit")
    BY <1>1, RouteAnswers, RoutesOfTheConsole
  <1> QED
    BY <1>1, <1>2, HrCallsAnswered DEF PageAnswered

LEMMA BillingPageAnswered ==
    ASSUME NEW role \in ConsoleRoles, Shows(role, BillingPage.needs)
    PROVE  PageAnswered(role, BillingPage)
  <1>1. /\ Shows(role, "billing:read")
        /\ BillingPage.calls = {"GET billing"}
        /\ BillingPage.buttons = {}
    BY BillingPageIs DEF ItsPage
  <1>2. IsAnswered(role, "GET billing")
    BY <1>1, RouteAnswers, RoutesOfTheConsole
  <1> QED
    BY <1>1, <1>2, HrCallsAnswered DEF PageAnswered

\* Whatever the console offers, the API answers, but for the known refusals.
LEMMA OfferedIsAnswered ==
    ASSUME NEW role \in RoleKeys, NEW call \in Offered[role]
    PROVE  IsAnswered(role, call)
  <1>1. \/ \E pg \in PagesShown(role) : call \in pg.calls
        \/ \E b \in OpenButtons(role) : call = b[2]
        \/ \E c \in OpenSidebar(role) : call = c[2]
    BY OfferedIs
  <1>2. ASSUME role = "employee" PROVE FALSE
    <2>1. \A p : ~ Shows(role, p)
      BY <1>2, MatricesAgree DEF Shows
    <2>2. PagesShown(role) = {}
      BY <2>1 DEF PagesShown
    <2> QED
      BY <1>1, <2>1, <2>2, OpenButton DEF OpenSidebar
  <1>3. role \in ConsoleRoles
    BY <1>2 DEF RoleKeys, ConsoleRoles
  <1>4. ASSUME NEW pg \in PagesShown(role) PROVE PageAnswered(role, pg)
    <2>1. Shows(role, pg.needs) /\ pg \in Pages
      BY <1>4 DEF PagesShown
    <2> QED
      BY <1>3, <2>1,
         DashboardPageAnswered, EmployeesPageAnswered, EmployeeDetailPageAnswered,
         NewEmployeePageAnswered, GeofencesPageAnswered, AttendancePageAnswered,
         FlaggedPageAnswered, LeavePageAnswered, LiveMapPageAnswered,
         ReportsPageAnswered, SettingsPageAnswered, AccountsPageAnswered,
         PolicyPageAnswered, AuditPageAnswered, BillingPageAnswered
      DEF Pages
  <1>5. ASSUME NEW b \in OpenButtons(role) PROVE IsAnswered(role, b[2])
    BY <1>4, OpenButton DEF PageAnswered, ButtonAnswered
  <1>6. ASSUME NEW c \in SidebarCalls PROVE IsAnswered(role, c[2])
    <2>1. IsPair(c, "attendance:review", "GET attendance") \/ IsPair(c, "leave:read", "GET leave")
      BY ItsPair, Zenon DEF SidebarCalls
    <2> QED
      BY <1>3, <2>1, HrCallsAnswered DEF IsPair
  <1> QED
    BY <1>1, <1>4, <1>5, <1>6 DEF PageAnswered, OpenSidebar

-----------------------------------------------------------------------------
\* What the API would answer is offered.  No two routes of a call ask for
\* different permissions.
LEMMA EachEndpoint ==
    ASSUME NEW route \in Endpoints
    PROVE 
        \/ IsPair(route, "GET attendance", "attendance:read")
        \/ IsPair(route, "GET attendance/feed", "attendance:read")
        \/ IsPair(route, "GET attendance/live-map", "livemap:view")
        \/ IsPair(route, "GET attendance/:id/selfie-url", "attendance:review")
        \/ IsPair(route, "POST attendance/:id/approve", "attendance:review")
        \/ IsPair(route, "POST attendance/:id/reject", "attendance:review")
        \/ IsPair(route, "GET dashboard/kpis", "dashboard:view")
        \/ IsPair(route, "GET dashboard/trend", "dashboard:view")
        \/ IsPair(route, "GET employees", "employee:read")
        \/ IsPair(route, "GET employees/:id", "employee:read")
        \/ IsPair(route, "POST employees", "employee:write")
        \/ IsPair(route, "PATCH employees/:id", "employee:write")
        \/ IsPair(route, "PATCH employees/:id/photo", "employee:write")
        \/ IsPair(route, "DELETE employees/:id", "employee:deactivate")
        \/ IsPair(route, "GET geofences", "geofence:read")
        \/ IsPair(route, "POST geofences", "geofence:write")
        \/ IsPair(route, "PATCH geofences/:id", "geofence:write")
        \/ IsPair(route, "DELETE geofences/:id", "geofence:write")
        \/ IsPair(route, "GET leave", "leave:read")
        \/ IsPair(route, "POST leave/:id/approve", "leave:write")
        \/ IsPair(route, "POST leave/:id/reject", "leave:write")
        \/ IsPair(route, "GET offices", "geofence:read")
        \/ IsPair(route, "GET admins", "admin:manage")
        \/ IsPair(route, "GET audit", "audit:read")
        \/ IsPair(route, "GET spoof-alerts", "audit:read")
        \/ IsPair(route, "GET admins/incidents", "audit:read")
        \/ IsPair(route, "GET billing", "billing:read")
        \/ IsPair(route, "GET policy", "settings:read")
        \/ IsPair(route, "PATCH policy", "policy:write")
        \/ IsPair(route, "POST uploads/presign", "employee:write")
        \/ IsPair(route, "GET auth/me", "")
        \/ IsPair(route, "POST mobile/attendance/checkin", "attendance:checkin")
        \/ IsPair(route, "POST mobile/attendance/anomaly", "")
        \/ IsPair(route, "GET mobile/me", "dashboard:self-view")
        \/ IsPair(route, "POST mobile/heartbeat", "")
        \/ IsPair(route, "POST mobile/uploads/presign", "")
  <1>1. CASE route \in AttendanceRoutes
    BY <1>1, ItsPair, Zenon DEF AttendanceRoutes
  <1>2. CASE route \in DashboardRoutes
    BY <1>2, ItsPair, Zenon DEF DashboardRoutes
  <1>3. CASE route \in EmployeeRoutes
    BY <1>3, ItsPair, Zenon DEF EmployeeRoutes
  <1>4. CASE route \in GeofenceRoutes
    BY <1>4, ItsPair, Zenon DEF GeofenceRoutes
  <1>5. CASE route \in LeaveRoutes
    BY <1>5, ItsPair, Zenon DEF LeaveRoutes
  <1>6. CASE route \in OfficeRoutes
    BY <1>6, ItsPair, Zenon DEF OfficeRoutes
  <1>7. CASE route \in SuperAdminRoutes
    BY <1>7, ItsPair, Zenon DEF SuperAdminRoutes
  <1>8. CASE route \in AdminUploadRoutes
    BY <1>8, ItsPair, Zenon DEF AdminUploadRoutes
  <1>9. CASE route \in AuthRoutes
    BY <1>9, ItsPair, Zenon DEF AuthRoutes
  <1>10. CASE route \in MobileAttendanceRoutes
    BY <1>10, ItsPair, Zenon DEF MobileAttendanceRoutes
  <1>11. CASE route \in MobileProfileRoutes
    BY <1>11, ItsPair, Zenon DEF MobileProfileRoutes
  <1>12. CASE route \in HeartbeatRoutes
    BY <1>12, ItsPair, Zenon DEF HeartbeatRoutes
  <1>13. CASE route \in MobileUploadRoutes
    BY <1>13, ItsPair, Zenon DEF MobileUploadRoutes
  <1> QED
    BY <1>1, <1>2, <1>3, <1>4, <1>5, <1>6, <1>7, <1>8, <1>9, <1>10, <1>11, <1>12, <1>13
    DEF ConsoleEndpoints, MobileEndpoints, Endpoints

AsksFor(call, p) == \A route \in Endpoints : route[1] = call => route[2] = p

\* A call is offered by a page, a button or the sidebar.
LEMMA PageOffers ==
    ASSUME NEW role \in ConsoleRoles, NEW pg, NEW needs, NEW calls, NEW buttons,
           ItsPage(pg, needs, calls, buttons), Shows(role, needs)
    PROVE  /\ calls \subseteq Offered[role]
           /\ \A b \in buttons : b[1] = "" \/ Shows(role, b[1]) => b[2] \in Offered[role]
  <1>1. role \in RoleKeys
    BY DEF ConsoleRoles, RoleKeys
  <1>2. pg \in PagesShown(role) /\ pg.calls = calls /\ pg.buttons = buttons
    BY DEF ItsPage, PagesShown
  <1>3. ASSUME NEW call \in calls PROVE call \in Offered[role]
    BY <1>1, <1>2, OfferedIs
  <1>4. ASSUME NEW b \in buttons, b[1] = "" \/ Shows(role, b[1]) PROVE b[2] \in Offered[role]
    <2>1. b \in OpenButtons(role)
      BY <1>2, <1>4, OpenButton
    <2> QED
      BY <1>1, <2>1, OfferedIs
  <1> QED
    BY <1>3, <1>4

Offers(role, call) == call \in Offered[role] \cup Unoffered

LEMMA CallOffered ==
    ASSUME NEW role \in ConsoleRoles, NEW pg, NEW needs, NEW calls, NEW buttons,
           ItsPage(pg, needs, calls, buttons), Shows(role, needs),
           NEW call \in calls
    PROVE  Offers(role, call)
  BY PageOffers DEF Offers

HasButton(pg, gate, call) == <<gate, call>> \in pg.buttons

LEMMA ButtonOffered ==
    ASSUME NEW role \in ConsoleRoles, NEW pg \in Pages, Shows(role, pg.needs),
           NEW gate, NEW call, HasButton(pg, gate, call), gate = "" \/ Shows(role, gate)
    PROVE  Offers(role, call)
  <1>1. ItsPage(pg, pg.needs, pg.calls, pg.buttons)
    BY DEF ItsPage
  <1>2. \A b \in pg.buttons : b[1] = "" \/ Shows(role, b[1]) => b[2] \in Offered[role]
    BY <1>1, PageOffers
  <1>3. <<gate, call>> \in pg.buttons
    BY DEF HasButton
  <1>4. <<gate, call>>[1] = gate /\ <<gate, call>>[2] = call
    OBVIOUS
  <1> QED
    BY <1>2, <1>3, <1>4, Zenon DEF Offers

\* A route of the console is sound: the call asks for its permission alone, no
\* employee has it, and everybody of the console who has it is offered the call.
SoundRoute(call, p) ==
    /\ AsksFor(call, p)
    /\ p # "" => /\ p \notin EMPLOYEE_PERMISSIONS
                 /\ \A role \in ConsoleRoles : Shows(role, p) => Offers(role, call)
SoundRoutes(routes) == \A route \in routes : SoundRoute(route[1], route[2])

LEMMA SoundByParts ==
    ASSUME NEW call, NEW p, SoundRoute(call, p)
    PROVE  SoundRoute(<<call, p>>[1], <<call, p>>[2])
  <1>1. <<call, p>>[1] = call /\ <<call, p>>[2] = p
    OBVIOUS
  <1> QED
    BY <1>1, Zenon

LEMMA SoundAttendanceRoutes == SoundRoutes(AttendanceRoutes)
  <1>1. SoundRoute("GET attendance", "attendance:read")
    <2>1. AsksFor("GET attendance", "attendance:read")
      BY EachEndpoint DEF AsksFor, IsPair
    <2>2. "attendance:read" \notin EMPLOYEE_PERMISSIONS
      BY DEF EMPLOYEE_PERMISSIONS
    <2>3. ASSUME NEW role \in ConsoleRoles, Shows(role, "attendance:read")
          PROVE  Offers(role, "GET attendance")
      <3>1. "GET attendance" \in {"GET offices", "GET attendance"}
        OBVIOUS
      <3> QED
        BY <2>3, <3>1, AttendancePageIs, CallOffered
    <2> QED
      BY <2>1, <2>2, <2>3 DEF SoundRoute
  <1>2. SoundRoute("GET attendance/feed", "attendance:read")
    <2>1. AsksFor("GET attendance/feed", "attendance:read")
      BY EachEndpoint DEF AsksFor, IsPair
    <2>2. "attendance:read" \notin EMPLOYEE_PERMISSIONS
      BY DEF EMPLOYEE_PERMISSIONS
    <2>3. ASSUME NEW role \in ConsoleRoles, Shows(role, "attendance:read")
          PROVE  Offers(role, "GET attendance/feed")
      <3>1. "GET attendance/feed" \in {"GET dashboard/kpis", "GET dashboard/trend", "GET attendance/feed"}
        OBVIOUS
      <3> QED
        BY <3>1, HrIsShown, DashboardPageIs, CallOffered
    <2> QED
      BY <2>1, <2>2, <2>3 DEF SoundRoute
  <1>3. SoundRoute("GET attendance/live-map", "livemap:view")
    <2>1. AsksFor("GET attendance/live-map", "livemap:view")
      BY EachEndpoint DEF AsksFor, IsPair
    <2>2. "livemap:view" \notin EMPLOYEE_PERMISSIONS
      BY DEF EMPLOYEE_PERMISSIONS
    <2>3. ASSUME NEW role \in ConsoleRoles, Shows(role, "livemap:view")
          PROVE  Offers(role, "GET attendance/live-map")
      <3>1. "GET attendance/live-map" \in {"GET attendance/live-map", "GET geofences"}
        OBVIOUS
      <3> QED
        BY <2>3, <3>1, LiveMapPageIs, CallOffered
    <2> QED
      BY <2>1, <2>2, <2>3 DEF SoundRoute
  <1>4. SoundRoute("GET attendance/:id/selfie-url", "attendance:review")
    <2>1. AsksFor("GET attendance/:id/selfie-url", "attendance:review")
      BY EachEndpoint DEF AsksFor, IsPair
    <2>2. "attendance:review" \notin EMPLOYEE_PERMISSIONS
      BY DEF EMPLOYEE_PERMISSIONS
    <2>3. ASSUME NEW role \in ConsoleRoles, Shows(role, "attendance:review")
          PROVE  Offers(role, "GET attendance/:id/selfie-url")
      <3>1. HasButton(DashboardPage, "", "GET attendance/:id/selfie-url")
        BY DashboardPageIs DEF ItsPage, HasButton
      <3>2. DashboardPage \in Pages /\ DashboardPage.needs = "dashboard:view"
        BY DashboardPageIs DEF ItsPage
      <3> QED
        BY <3>1, HrIsShown, <3>2, ButtonOffered
    <2> QED
      BY <2>1, <2>2, <2>3 DEF SoundRoute
  <1>5. SoundRoute("POST attendance/:id/approve", "attendance:review")
    <2>1. AsksFor("POST attendance/:id/approve", "attendance:review")
      BY EachEndpoint DEF AsksFor, IsPair
    <2>2. "attendance:review" \notin EMPLOYEE_PERMISSIONS
      BY DEF EMPLOYEE_PERMISSIONS
    <2>3. ASSUME NEW role \in ConsoleRoles, Shows(role, "attendance:review")
          PROVE  Offers(role, "POST attendance/:id/approve")
      <3>1. HasButton(FlaggedPage, "", "POST attendance/:id/approve")
        BY FlaggedPageIs DEF ItsPage, HasButton
      <3>2. FlaggedPage \in Pages /\ FlaggedPage.needs = "attendance:review"
        BY FlaggedPageIs DEF ItsPage
      <3> QED
        BY <2>3, <3>1, <3>2, ButtonOffered
    <2> QED
      BY <2>1, <2>2, <2>3 DEF SoundRoute
  <1>6. SoundRoute("POST attendance/:id/reject", "attendance:review")
    <2>1. AsksFor("POST attendance/:id/reject", "attendance:review")
      BY EachEndpoint DEF AsksFor, IsPair
    <2>2. "attendance:review" \notin EMPLOYEE_PERMISSIONS
      BY DEF EMPLOYEE_PERMISSIONS
    <2>3. ASSUME NEW role \in ConsoleRoles, Shows(role, "attendance:review")
          PROVE  Offers(role, "POST attendance/:id/reject")
      <3>1. HasButton(FlaggedPage, "", "POST attendance/:id/reject")
        BY FlaggedPageIs DEF ItsPage, HasButton
      <3>2. FlaggedPage \in Pages /\ FlaggedPage.needs = "attendance:review"
        BY FlaggedPageIs DEF ItsPage
      <3> QED
        BY <2>3, <3>1, <3>2, ButtonOffered
    <2> QED
      BY <2>1, <2>2, <2>3 DEF SoundRoute
  <1> QED
    BY <1>1, <1>2, <1>3, <1>4, <1>5, <1>6, SoundByParts, Zenon DEF SoundRoutes, AttendanceRoutes

LEMMA SoundDashboardRoutes == SoundRoutes(DashboardRoutes)
  <1>1. SoundRoute("GET dashboard/kpis", "dashboard:view")
    <2>1. AsksFor("GET dashboard/kpis", "dashboard:view")
      BY EachEndpoint DEF AsksFor, IsPair
    <2>2. "dashboard:view" \notin EMPLOYEE_PERMISSIONS
      BY DEF EMPLOYEE_PERMISSIONS
    <2>3. ASSUME NEW role \in ConsoleRoles, Shows(role, "dashboard:view")
          PROVE  Offers(role, "GET dashboard/kpis")
      <3>1. "GET dashboard/kpis" \in {"GET dashboard/kpis", "GET dashboard/trend", "GET attendance/feed"}
        OBVIOUS
      <3> QED
        BY <2>3, <3>1, DashboardPageIs, CallOffered
    <2> QED
      BY <2>1, <2>2, <2>3 DEF SoundRoute
  <1>2. SoundRoute("GET dashboard/trend", "dashboard:view")
    <2>1. AsksFor("GET dashboard/trend", "dashboard:view")
      BY EachEndpoint DEF AsksFor, IsPair
    <2>2. "dashboard:view" \notin EMPLOYEE_PERMISSIONS
      BY DEF EMPLOYEE_PERMISSIONS
    <2>3. ASSUME NEW role \in ConsoleRoles, Shows(role, "dashboard:view")
          PROVE  Offers(role, "GET dashboard/trend")
      <3>1. "GET dashboard/trend" \in {"GET dashboard/kpis", "GET dashboard/trend", "GET attendance/feed"}
        OBVIOUS
      <3> QED
        BY <2>3, <3>1, DashboardPageIs, CallOffered
    <2> QED
      BY <2>1, <2>2, <2>3 DEF SoundRoute
  <1> QED
    BY <1>1, <1>2, SoundByParts, Zenon DEF SoundRoutes, DashboardRoutes

LEMMA SoundEmployeeRoutes == SoundRoutes(EmployeeRoutes)
  <1>1. SoundRoute("GET employees", "employee:read")
    <2>1. AsksFor("GET employees", "employee:read")
      BY EachEndpoint DEF AsksFor, IsPair
    <2>2. "employee:read" \notin EMPLOYEE_PERMISSIONS
      BY DEF EMPLOYEE_PERMISSIONS
    <2>3. ASSUME NEW role \in ConsoleRoles, Shows(role, "employee:read")
          PROVE  Offers(role, "GET employees")
      <3>1. "GET employees" \in {"GET offices", "GET employees"}
        OBVIOUS
      <3> QED
        BY <2>3, <3>1, EmployeesPageIs, CallOffered
    <2> QED
      BY <2>1, <2>2, <2>3 DEF SoundRoute
  <1>2. SoundRoute("GET employees/:id", "employee:read")
    <2>1. AsksFor("GET employees/:id", "employee:read")
      BY EachEndpoint DEF AsksFor, IsPair
    <2>2. "employee:read" \notin EMPLOYEE_PERMISSIONS
      BY DEF EMPLOYEE_PERMISSIONS
    <2>3. ASSUME NEW role \in ConsoleRoles, Shows(role, "employee:read")
          PROVE  Offers(role, "GET employees/:id")
      <3>1. "GET employees/:id" \in {"GET employees/:id"}
        OBVIOUS
      <3> QED
        BY <2>3, <3>1, EmployeeDetailPageIs, CallOffered
    <2> QED
      BY <2>1, <2>2, <2>3 DEF SoundRoute
  <1>3. SoundRoute("POST employees", "employee:write")
    <2>1. AsksFor("POST employees", "employee:write")
      BY EachEndpoint DEF AsksFor, IsPair
    <2>2. "employee:write" \notin EMPLOYEE_PERMISSIONS
      BY DEF EMPLOYEE_PERMISSIONS
    <2>3. ASSUME NEW role \in ConsoleRoles, Shows(role, "employee:write")
          PROVE  Offers(role, "POST employees")
      <3>1. HasButton(NewEmployeePage, "", "POST employees")
        BY NewEmployeePageIs DEF ItsPage, HasButton
      <3>2. NewEmployeePage \in Pages /\ NewEmployeePage.needs = "employee:write"
        BY NewEmployeePageIs DEF ItsPage
      <3> QED
        BY <2>3, <3>1, <3>2, ButtonOffered
    <2> QED
      BY <2>1, <2>2, <2>3 DEF SoundRoute
  <1>4. SoundRoute("PATCH employees/:id", "employee:write")
    <2>1. AsksFor("PATCH employees/:id", "employee:write")
      BY EachEndpoint DEF AsksFor, IsPair
    <2>2. "employee:write" \notin EMPLOYEE_PERMISSIONS
      BY DEF EMPLOYEE_PERMISSIONS
    <2>3. ASSUME NEW role \in ConsoleRoles, Shows(role, "employee:write")
          PROVE  Offers(role, "PATCH employees/:id")
      BY DEF Offers, Unoffered
    <2> QED
      BY <2>1, <2>2, <2>3 DEF SoundRoute
  <1>5. SoundRoute("PATCH employees/:id/photo", "employee:write")
    <2>1. AsksFor("PATCH employees/:id/photo", "employee:write")
      BY EachEndpoint DEF AsksFor, IsPair
    <2>2. "employee:write" \notin EMPLOYEE_PERMISSIONS
      BY DEF EMPLOYEE_PERMISSIONS
    <2>3. ASSUME NEW role \in ConsoleRoles, Shows(role, "employee:write")
          PROVE  Offers(role, "PATCH employees/:id/photo")
      <3>1. HasButton(EmployeeDetailPage, "employee:write", "PATCH employees/:id/photo")
        BY EmployeeDetailPageIs DEF ItsPage, HasButton
      <3>2. EmployeeDetailPage \in Pages /\ EmployeeDetailPage.needs = "employee:read"
        BY EmployeeDetailPageIs DEF ItsPage
      <3> QED
        BY <2>3, <3>1, HrIsShown, <3>2, ButtonOffered
    <2> QED
      BY <2>1, <2>2, <2>3 DEF SoundRoute
  <1>6. SoundRoute("DELETE employees/:id", "employee:deactivate")
    <2>1. AsksFor("DELETE employees/:id", "employee:deactivate")
      BY EachEndpoint DEF AsksFor, IsPair
    <2>2. "employee:deactivate" \notin EMPLOYEE_PERMISSIONS
      BY DEF EMPLOYEE_PERMISSIONS
    <2>3. ASSUME NEW role \in ConsoleRoles, Shows(role, "employee:deactivate")
          PROVE  Offers(role, "DELETE employees/:id")
      <3>1. HasButton(EmployeeDetailPage, "employee:deactivate", "DELETE employees/:id")
        BY EmployeeDetailPageIs DEF ItsPage, HasButton
      <3>2. EmployeeDetailPage \in Pages /\ EmployeeDetailPage.needs = "employee:read"
        BY EmployeeDetailPageIs DEF ItsPage
      <3> QED
        BY <2>3, <3>1, HrIsShown, <3>2, ButtonOffered
    <2> QED
      BY <2>1, <2>2, <2>3 DEF SoundRoute
  <1> QED
    BY <1>1, <1>2, <1>3, <1>4, <1>5, <1>6, SoundByParts, Zenon DEF SoundRoutes, EmployeeRoutes

LEMMA SoundGeofenceRoutes == SoundRoutes(GeofenceRoutes)
  <1>1. SoundRoute("GET geofences", "geofence:read")
    <2>1. AsksFor("GET geofences", "geofence:read")
      BY EachEndpoint DEF AsksFor, IsPair
    <2>2. "geofence:read" \notin EMPLOYEE_PERMISSIONS
      BY DEF EMPLOYEE_PERMISSIONS
    <2>3. ASSUME NEW role \in ConsoleRoles, Shows(role, "geofence:read")
          PROVE  Offers(role, "GET geofences")
      <3>1. "GET geofences" \in {"GET offices", "GET geofences"}
        OBVIOUS
      <3> QED
        BY <3>1, HrIsShown, NewEmployeePageIs, CallOffered
    <2> QED
      BY <2>1, <2>2, <2>3 DEF SoundRoute
  <1>2. SoundRoute("POST geofences", "geofence:write")
    <2>1. AsksFor("POST geofences", "geofence:write")
      BY EachEndpoint DEF AsksFor, IsPair
    <2>2. "geofence:write" \notin EMPLOYEE_PERMISSIONS
      BY DEF EMPLOYEE_PERMISSIONS
    <2>3. ASSUME NEW role \in ConsoleRoles, Shows(role, "geofence:write")
          PROVE  Offers(role, "POST geofences")
      <3>1. HasButton(GeofencesPage, "geofence:write", "POST geofences")
        BY GeofencesPageIs DEF ItsPage, HasButton
      <3>2. GeofencesPage \in Pages /\ GeofencesPage.needs = "geofence:read"
        BY GeofencesPageIs DEF ItsPage
      <3> QED
        BY <2>3, <3>1, HrIsShown, <3>2, ButtonOffered
    <2> QED
      BY <2>1, <2>2, <2>3 DEF SoundRoute
  <1>3. SoundRoute("PATCH geofences/:id", "geofence:write")
    <2>1. AsksFor("PATCH geofences/:id", "geofence:write")
      BY EachEndpoint DEF AsksFor, IsPair
    <2>2. "geofence:write" \notin EMPLOYEE_PERMISSIONS
      BY DEF EMPLOYEE_PERMISSIONS
    <2>3. ASSUME NEW role \in ConsoleRoles, Shows(role, "geofence:write")
          PROVE  Offers(role, "PATCH geofences/:id")
      <3>1. HasButton(NewEmployeePage, "", "PATCH geofences/:id")
        BY NewEmployeePageIs DEF ItsPage, HasButton
      <3>2. NewEmployeePage \in Pages /\ NewEmployeePage.needs = "employee:write"
        BY NewEmployeePageIs DEF ItsPage
      <3> QED
        BY <3>1, HrIsShown, <3>2, ButtonOffered
    <2> QED
      BY <2>1, <2>2, <2>3 DEF SoundRoute
  <1>4. SoundRoute("DELETE geofences/:id", "geofence:write")
    <2>1. AsksFor("DELETE geofences/:id", "geofence:write")
      BY EachEndpoint DEF AsksFor, IsPair
    <2>2. "geofence:write" \notin EMPLOYEE_PERMISSIONS
      BY DEF EMPLOYEE_PERMISSIONS
    <2>3. ASSUME NEW role \in ConsoleRoles, Shows(role, "geofence:write")
          PROVE  Offers(role, "DELETE geofences/:id")
      <3>1. HasButton(GeofencesPage, "", "DELETE geofences/:id")
        BY GeofencesPageIs DEF ItsPage, HasButton
      <3>2. GeofencesPage \in Pages /\ GeofencesPage.needs = "geofence:read"
        BY GeofencesPageIs DEF ItsPage
      <3> QED
        BY <3>1, HrIsShown, <3>2, ButtonOffered
    <2> QED
      BY <2>1, <2>2, <2>3 DEF SoundRoute
  <1> QED
    BY <1>1, <1>2, <1>3, <1>4, SoundByParts, Zenon DEF SoundRoutes, GeofenceRoutes

LEMMA SoundLeaveRoutes == SoundRoutes(LeaveRoutes)
  <1>1. SoundRoute("GET leave", "leave:read")
    <2>1. AsksFor("GET leave", "leave:read")
      BY EachEndpoint DEF AsksFor, IsPair
    <2>2. "leave:read" \notin EMPLOYEE_PERMISSIONS
      BY DEF EMPLOYEE_PERMISSIONS
    <2>3. ASSUME NEW role \in ConsoleRoles, Shows(role, "leave:read")
          PROVE  Offers(role, "GET leave")
      <3>1. "GET leave" \in {"GET leave"}
        OBVIOUS
      <3> QED
        BY <2>3, <3>1, LeavePageIs, CallOffered
    <2> QED
      BY <2>1, <2>2, <2>3 DEF SoundRoute
  <1>2. SoundRoute("POST leave/:id/approve", "leave:write")
    <2>1. AsksFor("POST leave/:id/approve", "leave:write")
      BY EachEndpoint DEF AsksFor, IsPair
    <2>2. "leave:write" \notin EMPLOYEE_PERMISSIONS
      BY DEF EMPLOYEE_PERMISSIONS
    <2>3. ASSUME NEW role \in ConsoleRoles, Shows(role, "leave:write")
          PROVE  Offers(role, "POST leave/:id/approve")
      <3>1. HasButton(LeavePage, "leave:write", "POST leave/:id/approve")
        BY LeavePageIs DEF ItsPage, HasButton
      <3>2. LeavePage \in Pages /\ LeavePage.needs = "leave:read"
        BY LeavePageIs DEF ItsPage
      <3> QED
        BY <2>3, <3>1, HrIsShown, <3>2, ButtonOffered
    <2> QED
      BY <2>1, <2>2, <2>3 DEF SoundRoute
  <1>3. SoundRoute("POST leave/:id/reject", "leave:write")
    <2>1. AsksFor("POST leave/:id/reject", "leave:write")
      BY EachEndpoint DEF AsksFor, IsPair
    <2>2. "leave:write" \notin EMPLOYEE_PERMISSIONS
      BY DEF EMPLOYEE_PERMISSIONS
    <2>3. ASSUME NEW role \in ConsoleRoles, Shows(role, "leave:write")
          PROVE  Offers(role, "POST leave/:id/reject")
      <3>1. HasButton(LeavePage, "leave:write", "POST leave/:id/reject")
        BY LeavePageIs DEF ItsPage, HasButton
      <3>2. LeavePage \in Pages /\ LeavePage.needs = "leave:read"
        BY LeavePageIs DEF ItsPage
      <3> QED
        BY <2>3, <3>1, HrIsShown, <3>2, ButtonOffered
    <2> QED
      BY <2>1, <2>2, <2>3 DEF SoundRoute
  <1> QED
    BY <1>1, <1>2, <1>3, SoundByParts, Zenon DEF SoundRoutes, LeaveRoutes

LEMMA SoundOfficeRoutes == SoundRoutes(OfficeRoutes)
  <1>1. SoundRoute("GET offices", "geofence:read")
    <2>1. AsksFor("GET offices", "geofence:read")
      BY EachEndpoint DEF AsksFor, IsPair
    <2>2. "geofence:read" \notin EMPLOYEE_PERMISSIONS
      BY DEF EMPLOYEE_PERMISSIONS
    <2>3. ASSUME NEW role \in ConsoleRoles, Shows(role, "geofence:read")
          PROVE  Offers(role, "GET offices")
      <3>1. "GET offices" \in {"GET offices", "GET employees"}
        OBVIOUS
      <3> QED
        BY <3>1, HrIsShown, EmployeesPageIs, CallOffered
    <2> QED
      BY <2>1, <2>2, <2>3 DEF SoundRoute
  <1> QED
    BY <1>1, SoundByParts, Zenon DEF SoundRoutes, OfficeRoutes

LEMMA SoundSuperAdminRoutes == SoundRoutes(SuperAdminRoutes)
  <1>1. SoundRoute("GET admins", "admin:manage")
    <2>1. AsksFor("GET admins", "admin:manage")
      BY EachEndpoint DEF AsksFor, IsPair
    <2>2. "admin:manage" \notin EMPLOYEE_PERMISSIONS
      BY DEF EMPLOYEE_PERMISSIONS
    <2>3. ASSUME NEW role \in ConsoleRoles, Shows(role, "admin:manage")
          PROVE  Offers(role, "GET admins")
      <3>1. "GET admins" \in {"GET admins"}
        OBVIOUS
      <3> QED
        BY <2>3, <3>1, AccountsPageIs, CallOffered
    <2> QED
      BY <2>1, <2>2, <2>3 DEF SoundRoute
  <1>2. SoundRoute("GET audit", "audit:read")
    <2>1. AsksFor("GET audit", "audit:read")
      BY EachEndpoint DEF AsksFor, IsPair
    <2>2. "audit:read" \notin EMPLOYEE_PERMISSIONS
      BY DEF EMPLOYEE_PERMISSIONS
    <2>3. ASSUME NEW role \in ConsoleRoles, Shows(role, "audit:read")
          PROVE  Offers(role, "GET audit")
      <3>1. "GET audit" \in {"GET audit"}
        OBVIOUS
      <3> QED
        BY <2>3, <3>1, AuditPageIs, CallOffered
    <2> QED
      BY <2>1, <2>2, <2>3 DEF SoundRoute
  <1>3. SoundRoute("GET spoof-alerts", "audit:read")
    <2>1. AsksFor("GET spoof-alerts", "audit:read")
      BY EachEndpoint DEF AsksFor, IsPair
    <2>2. "audit:read" \notin EMPLOYEE_PERMISSIONS
      BY DEF EMPLOYEE_PERMISSIONS
    <2>3. ASSUME NEW role \in ConsoleRoles, Shows(role, "audit:read")
          PROVE  Offers(role, "GET spoof-alerts")
      <3>1. "GET spoof-alerts" \in {"GET spoof-alerts"}
        OBVIOUS
      <3> QED
        BY <3>1, HrIsShown, SettingsPageIs, CallOffered
    <2> QED
      BY <2>1, <2>2, <2>3 DEF SoundRoute
  <1>4. SoundRoute("GET admins/incidents", "audit:read")
    <2>1. AsksFor("GET admins/incidents", "audit:read")
      BY EachEndpoint DEF AsksFor, IsPair
    <2>2. "audit:read" \notin EMPLOYEE_PERMISSIONS
      BY DEF EMPLOYEE_PERMISSIONS
    <2>3. ASSUME NEW role \in ConsoleRoles, Shows(role, "audit:read")
          PROVE  Offers(role, "GET admins/incidents")
      BY DEF Offers, Unoffered
    <2> QED
      BY <2>1, <2>2, <2>3 DEF SoundRoute
  <1>5. SoundRoute("GET billing", "billing:read")
    <2>1. AsksFor("GET billing", "billing:read")
      BY EachEndpoint DEF AsksFor, IsPair
    <2>2. "billing:read" \notin EMPLOYEE_PERMISSIONS
      BY DEF EMPLOYEE_PERMISSIONS
    <2>3. ASSUME NEW role \in ConsoleRoles, Shows(role, "billing:read")
          PROVE  Offers(role, "GET billing")
      <3>1. "GET billing" \in {"GET billing"}
        OBVIOUS
      <3> QED
        BY <2>3, <3>1, BillingPageIs, CallOffered
    <2> QED
      BY <2>1, <2>2, <2>3 DEF SoundRoute
  <1>6. SoundRoute("GET policy", "settings:read")
    <2>1. AsksFor("GET policy", "settings:read")
      BY EachEndpoint DEF AsksFor, IsPair
    <2>2. "settings:read" \notin EMPLOYEE_PERMISSIONS
      BY DEF EMPLOYEE_PERMISSIONS
    <2>3. ASSUME NEW role \in ConsoleRoles, Shows(role, "settings:read")
          PROVE  Offers(role, "GET policy")
      BY DEF Offers, Unoffered
    <2> QED
      BY <2>1, <2>2, <2>3 DEF SoundRoute
  <1>7. SoundRoute("PATCH policy", "policy:write")
    <2>1. AsksFor("PATCH policy", "policy:write")
      BY EachEndpoint DEF AsksFor, IsPair
    <2>2. "policy:write" \notin EMPLOYEE_PERMISSIONS
      BY DEF EMPLOYEE_PERMISSIONS
    <2>3. ASSUME NEW role \in ConsoleRoles, Shows(role, "policy:write")
          PROVE  Offers(role, "PATCH policy")
      <3>1. HasButton(PolicyPage, "", "PATCH policy")
        BY PolicyPageIs DEF ItsPage, HasButton
      <3>2. PolicyPage \in Pages /\ PolicyPage.needs = "policy:write"
        BY PolicyPageIs DEF ItsPage
      <3> QED
        BY <2>3, <3>1, <3>2, ButtonOffered
    <2> QED
      BY <2>1, <2>2, <2>3 DEF SoundRoute
  <1> QED
    BY <1>1, <1>2, <1>3, <1>4, <1>5, <1>6, <1>7, SoundByParts, Zenon DEF SoundRoutes, SuperAdminRoutes

LEMMA SoundAdminUploadRoutes == SoundRoutes(AdminUploadRoutes)
  <1>1. SoundRoute("POST uploads/presign", "employee:write")
    <2>1. AsksFor("POST uploads/presign", "employee:write")
      BY EachEndpoint DEF AsksFor, IsPair
    <2>2. "employee:write" \notin EMPLOYEE_PERMISSIONS
      BY DEF EMPLOYEE_PERMISSIONS
    <2>3. ASSUME NEW role \in ConsoleRoles, Shows(role, "employee:write")
          PROVE  Offers(role, "POST uploads/presign")
      <3>1. HasButton(EmployeeDetailPage, "employee:write", "POST uploads/presign")
        BY EmployeeDetailPageIs DEF ItsPage, HasButton
      <3>2. EmployeeDetailPage \in Pages /\ EmployeeDetailPage.needs = "employee:read"
        BY EmployeeDetailPageIs DEF ItsPage
      <3> QED
        BY <2>3, <3>1, HrIsShown, <3>2, ButtonOffered
    <2> QED
      BY <2>1, <2>2, <2>3 DEF SoundRoute
  <1> QED
    BY <1>1, SoundByParts, Zenon DEF SoundRoutes, AdminUploadRoutes

LEMMA SoundAuthRoutes == SoundRoutes(AuthRoutes)
  <1>1. SoundRoute("GET auth/me", "")
    <2>1. AsksFor("GET auth/me", "")
      BY EachEndpoint DEF AsksFor, IsPair
    <2> QED
      BY <2>1 DEF SoundRoute
  <1> QED
    BY <1>1, SoundByParts, Zenon DEF SoundRoutes, AuthRoutes

\* What a route of the console answers is offered, or one of those that no page
\* offers.
LEMMA AnsweredIsOffered ==
    ASSUME NEW role \in RoleKeys, NEW route \in ConsoleEndpoints,
           route[2] # "", Permits(role, route[1])
    PROVE  route[1] \in Offered[role] \cup Unoffered
  <1>1. SoundRoute(route[1], route[2])
    BY SoundAttendanceRoutes, SoundDashboardRoutes, SoundEmployeeRoutes,
       SoundGeofenceRoutes, SoundLeaveRoutes, SoundOfficeRoutes, SoundSuperAdminRoutes,
       SoundAdminUploadRoutes, SoundAuthRoutes
    DEF SoundRoutes, ConsoleEndpoints
  <1>2. PICK asked \in Endpoints :
           asked[1] = route[1] /\ asked[2] \in ROLE_PERMISSIONS[role] \cup {""}
    BY DEF Permits
  <1>3. asked[2] = route[2]
    BY <1>1, <1>2 DEF SoundRoute, AsksFor
  <1>4. route[2] \in ROLE_PERMISSIONS[role]
    BY <1>2, <1>3
  <1>5. role # "employee"
    BY <1>1, <1>4, MatricesAgree DEF SoundRoute
  <1>6. role \in ConsoleRoles
    BY <1>5 DEF RoleKeys, ConsoleRoles
  <1>7. Shows(role, route[2])
    BY <1>4, <1>6, ShownIsGranted
  <1> QED
    BY <1>1, <1>6, <1>7 DEF SoundRoute, Offers

-----------------------------------------------------------------------------
\* Whoever is shown a link is shown its page.
Leads(path, p) ==
    \E pg \in Pages :
        pg.path = path /\ \A role \in RoleKeys : Shows(role, p) => Shows(role, pg.needs)

\* The feed's link to the logs waits for no permission but the dashboard's,
\* nor does that of a log's row to its employee but that of the logs.
LEMMA UngatedLead == Leads("/attendance", "dashboard:view") /\ Leads("/employees/:id", "attendance:read")
  <1>1. ASSUME NEW role \in RoleKeys, NEW p, Shows(role, p) PROVE role \in ConsoleRoles
    BY <1>1 DEF Shows, ConsolePermissions, RoleKeys, ConsoleRoles
  <1>2. AttendancePage \in Pages /\ EmployeeDetailPage \in Pages
    BY DEF Pages
  <1>3. AttendancePage.path = "/attendance" /\ AttendancePage.needs = "attendance:read"
    BY DEF AttendancePage, PageOf
  <1>4. EmployeeDetailPage.path = "/employees/:id" /\ EmployeeDetailPage.needs = "employee:read"
    BY DEF EmployeeDetailPage, PageOf
  <1> QED
    BY <1>1, <1>2, <1>3, <1>4, HrIsShown DEF Leads

LEMMA LeadsByParts ==
    ASSUME NEW path, NEW p, Leads(path, p)
    PROVE  Leads(<<path, p>>[1], <<path, p>>[2])
  <1>1. <<path, p>>[1] = path /\ <<path, p>>[2] = p
    OBVIOUS
  <1> QED
    BY <1>1, Zenon

LEMMA LinksLead ==
    ASSUME NEW role \in RoleKeys, NEW link \in Links, Shows(role, link[2])
    PROVE  \E pg \in PagesShown(role) : pg.path = link[1]
  <1>1. Leads("/dashboard", "dashboard:view")
    <2>1. DashboardPage \in Pages
      BY DEF Pages
    <2> QED
      BY <2>1 DEF DashboardPage, PageOf, Leads
  <1>2. Leads("/employees", "employee:read")
    <2>1. EmployeesPage \in Pages
      BY DEF Pages
    <2> QED
      BY <2>1 DEF EmployeesPage, PageOf, Leads
  <1>3. Leads("/geofences", "geofence:read")
    <2>1. GeofencesPage \in Pages
      BY DEF Pages
    <2> QED
      BY <2>1 DEF GeofencesPage, PageOf, Leads
  <1>4. Leads("/attendance", "attendance:read")
    <2>1. AttendancePage \in Pages
      BY DEF Pages
    <2> QED
      BY <2>1 DEF AttendancePage, PageOf, Leads
  <1>5. Leads("/reports", "report:export")
    <2>1. ReportsPage \in Pages
      BY DEF Pages
    <2> QED
      BY <2>1 DEF ReportsPage, PageOf, Leads
  <1>6. Leads("/settings", "settings:read")
    <2>1. SettingsPage \in Pages
      BY DEF Pages
    <2> QED
      BY <2>1 DEF SettingsPage, PageOf, Leads
  <1>7. Leads("/flagged", "attendance:review")
    <2>1. FlaggedPage \in Pages
      BY DEF Pages
    <2> QED
      BY <2>1 DEF FlaggedPage, PageOf, Leads
  <1>8. Leads("/leave", "leave:read")
    <2>1. LeavePage \in Pages
      BY DEF Pages
    <2> QED
      BY <2>1 DEF LeavePage, PageOf, Leads
  <1>9. Leads("/live-map", "livemap:view")
    <2>1. LiveMapPage \in Pages
      BY DEF Pages
    <2> QED
      BY <2>1 DEF LiveMapPage, PageOf, Leads
  <1>10. Leads("/admins", "admin:manage")
    <2>1. AccountsPage \in Pages
      BY DEF Pages
    <2> QED
      BY <2>1 DEF AccountsPage, PageOf, Leads
  <1>11. Leads("/policy", "policy:write")
    <2>1. PolicyPage \in Pages
      BY DEF Pages
    <2> QED
      BY <2>1 DEF PolicyPage, PageOf, Leads
  <1>12. Leads("/audit", "audit:read")
    <2>1. AuditPage \in Pages
      BY DEF Pages
    <2> QED
      BY <2>1 DEF AuditPage, PageOf, Leads
  <1>13. Leads("/billing", "billing:read")
    <2>1. BillingPage \in Pages
      BY DEF Pages
    <2> QED
      BY <2>1 DEF BillingPage, PageOf, Leads
  <1>14. Leads("/employees/new", "employee:write")
    <2>1. NewEmployeePage \in Pages
      BY DEF Pages
    <2> QED
      BY <2>1 DEF NewEmployeePage, PageOf, Leads
  <1>15. Leads("/employees/:id", "employee:read")
    <2>1. EmployeeDetailPage \in Pages
      BY DEF Pages
    <2> QED
      BY <2>1 DEF EmployeeDetailPage, PageOf, Leads
  <1>16. Leads(link[1], link[2])
    BY <1>1, <1>2, <1>3, <1>4, <1>5, <1>6, <1>7, <1>8, <1>9, <1>10, <1>11, <1>12, <1>13,
       <1>14, <1>15, UngatedLead,
       LeadsByParts, Zenon DEF Links, NavLinks, DashboardLinks, FeedLinks, RosterLinks, RowLinks,
       ProfileLinks
  <1> QED
    BY <1>16 DEF Leads, PagesShown

\* The console and the API agree on what the holder of a token may do, whoever
\* they are: the console offers nothing that is refused, but for the known
\* refusals, it offers all that is granted, but for what no page calls, and its
\* links lead to pages that are shown.
THEOREM ConsolesDoMatch == AccessSpec => []ConsoleMatchesApi
  <1>1. AccessTypeOK => ConsoleMatchesApi
    <2> SUFFICES ASSUME AccessTypeOK, NEW t \in issued, Verifies(t, "access")
                 PROVE  /\ \A call \in Offered[t.role] :
                              Accepts(t, call) \/ <<t.role, call>> \in KnownRefusals
                        /\ \A route \in ConsoleEndpoints :
                              route[2] # "" /\ Accepts(t, route[1]) =>
                                  route[1] \in Offered[t.role] \cup Unoffered
                        /\ \A link \in Links :
                              Shows(t.role, link[2]) =>
                                  \E pg \in PagesShown(t.role) : pg.path = link[1]
      BY DEF ConsoleMatchesApi
    <2>1. t.role \in RoleKeys
      BY DEF AccessTypeOK, Tokens
    <2>2. ASSUME NEW call \in Offered[t.role]
          PROVE  Accepts(t, call) \/ <<t.role, call>> \in KnownRefusals
      BY <2>1, OfferedIsAnswered DEF IsAnswered, Accepts
    <2>3. ASSUME NEW route \in ConsoleEndpoints, route[2] # "", Accepts(t, route[1])
          PROVE  route[1] \in Offered[t.role] \cup Unoffered
      BY <2>1, <2>3, AnsweredIsOffered DEF Accepts
    <2> QED
      BY <2>1, <2>2, <2>3, LinksLead
  <1> QED
    BY AccessIsTyped, <1>1, PTL

-----------------------------------------------------------------------------
\* Attendance in pages: how many rows are skipped before page p.
Skipped(p) == (p - 1) * TablePage

LEMMA SkippedIs ==
    ASSUME NEW p \in Nat \ {0}
    PROVE  /\ Skipped(p) \in Nat /\ Skipped(1) = 0
           /\ Skipped(p + 1) = p * TablePage
  <1>1. TablePage \in Nat \ {0} /\ p - 1 \in Nat /\ (p + 1) - 1 = p /\ 1 - 1 = 0
    BY TableAssumption
  <1>2. \A m, n \in Nat : m * n \in Nat /\ 0 * n = 0
    OBVIOUS
  <1> QED
    BY <1>1, <1>2 DEF Skipped

LEMMA SkippedGrows ==
    ASSUME NEW p \in Nat \ {0}
    PROVE  Skipped(p) < Skipped(p + 1)
  <1>1. TablePage \in Nat \ {0} /\ p \in Nat
    BY TableAssumption
  <1>2. \A n \in Nat : n > 0 => (p - 1) * n < p * n
    BY SMTT(20)
  <1> QED
    BY <1>1, <1>2, SkippedIs DEF Skipped

LEMMA RowsAre ==
    ASSUME NEW n \in Nat, NEW p \in Nat \ {0}
    PROVE  RowsAt(n, p) \in 0..TablePage /\ (RowsAt(n, p) = 0 <=> n <= Skipped(p))
  <1>1. TablePage \in Nat \ {0} /\ Skipped(p) \in Nat
    BY TableAssumption, SkippedIs
  <1>2. RowsAt(n, p) = IF n <= Skipped(p) THEN 0
                       ELSE IF n - Skipped(p) < TablePage THEN n - Skipped(p) ELSE TablePage
    BY DEF RowsAt, Skipped
  <1> QED
    BY <1>1, <1>2

LEMMA KeysAre ==
    ASSUME NEW k \in TableKeys
    PROVE  /\ k[1] \in TableFilters /\ k[2] \in Nat \ {0} /\ k[2] \in 1..(MaxLogged + 1)
           /\ k = <<k[1], k[2]>>
  BY TableAssumption DEF TableKeys

LEMMA KeyIs ==
    ASSUME NEW f \in TableFilters, NEW p \in 1..(MaxLogged + 1)
    PROVE  <<f, p>> \in TableKeys /\ <<f, p>>[1] = f /\ <<f, p>>[2] = p
  BY DEF TableKeys

\* Every page of the way to the one looked at was turned to on a total that
\* reaches it, and so was every page that is fetched or held.
Reaches(k) == k[2] > 1 => promised[k] > Skipped(k[2])
WayPromised ==
    \A q \in 1..(MaxLogged + 1) : q <= tableView[2] => Reaches(<<tableView[1], q>>)
HeldPromised == \A k \in TableKeys : fetches[k].on \/ shownPages[k].held => Reaches(k)

\* Of all logs there are never fewer than were found, counted or promised.
NeverFewer ==
    /\ LoggedAll <= MaxLogged
    /\ \A k \in TableKeys : k[1] = "all" =>
          /\ promised[k] <= LoggedAll
          /\ shownPages[k].total <= LoggedAll
          /\ \A n \in fetches[k].counted : n <= LoggedAll
          /\ \A n \in fetches[k].found : k[2] > 1 => n > Skipped(k[2])

\* What is held is the rows of some number of logs and the total of another.
AnswerOf(k, a) ==
    a.held => \E n \in 0..MaxLogged :
        /\ a.rows = RowsAt(n, k[2])
        /\ a.torn = (n # a.total)
        /\ k[1] = "all" /\ k[2] > 1 => n > Skipped(k[2])
AnswersRead ==
    \A k \in TableKeys :
        /\ AnswerOf(k, shownPages[k])
        /\ fetches[k].found # {} => fetches[k].on

TableInv == TableTypeOK /\ WayPromised /\ HeldPromised /\ NeverFewer /\ AnswersRead

\* The invariant says what the property does.
LEMMA TableInvMeans == TableInv => PagesExplained
  <1> SUFFICES ASSUME TableInv, NEW k \in TableKeys,
                      shownPages[k].held, ~shownPages[k].torn, shownPages[k].rows = 0,
                      shownPages[k].total > 0
               PROVE  k[1] # "all" /\ shownPages[k].total < promised[k]
    BY DEF PagesExplained
  <1>1. PICK n \in 0..MaxLogged :
           /\ shownPages[k].rows = RowsAt(n, k[2])
           /\ shownPages[k].torn = (n # shownPages[k].total)
           /\ k[1] = "all" /\ k[2] > 1 => n > Skipped(k[2])
    BY DEF TableInv, AnswersRead, AnswerOf
  <1>2. n = shownPages[k].total
    BY <1>1
  <1>3. /\ k[2] \in Nat \ {0} /\ n \in Nat /\ Skipped(k[2]) \in Nat /\ Skipped(1) = 0
        /\ MaxLogged \in Nat
    BY KeysAre, SkippedIs, TableAssumption
  <1>4. n <= Skipped(k[2])
    BY <1>1, <1>3, RowsAre
  <1>5. k[2] > 1
    BY <1>2, <1>3, <1>4
  <1>6. promised[k] > Skipped(k[2]) /\ promised[k] \in Nat
    BY <1>3, <1>5 DEF TableInv, HeldPromised, Reaches, TableTypeOK
  <1> QED
    BY <1>1, <1>2, <1>3, <1>4, <1>5, <1>6

\* What the totals are.
LEMMA LoggedIs ==
    ASSUME TableInv, NEW k \in TableKeys
    PROVE  /\ LoggedOf(k[1]) \in 0..MaxLogged /\ LoggedAll \in Nat
           /\ k[1] = "all" => LoggedOf(k[1]) = LoggedAll
  <1>1. /\ logged["flagged"] \in 0..MaxLogged /\ logged["approved"] \in 0..MaxLogged
        /\ logged["rejected"] \in 0..MaxLogged
    BY DEF TableInv, TableTypeOK, LogStatuses
  <1>2. MaxLogged \in Nat /\ LoggedAll <= MaxLogged
    BY TableAssumption DEF TableInv, NeverFewer
  <1>3. LoggedAll \in Nat
    BY <1>1, <1>2 DEF LoggedAll
  <1>4. k[1] # "all" => k[1] \in LogStatuses
    BY KeysAre, TableAssumption
  <1> QED
    BY <1>1, <1>2, <1>3, <1>4 DEF LoggedOf, TableInv, TableTypeOK

\* What a fetch may be, and what one that is not or has just begun is.
FetchStates == [on : BOOLEAN, found : SUBSET (0..MaxLogged), counted : SUBSET (0..MaxLogged)]
LEMMA NewFetchIs ==
    /\ NoFetch \in FetchStates /\ ~NoFetch.on /\ NoFetch.found = {} /\ NoFetch.counted = {}
    /\ NewFetch \in FetchStates /\ NewFetch.on /\ NewFetch.found = {} /\ NewFetch.counted = {}
  <1>1. {} \in SUBSET (0..MaxLogged)
    OBVIOUS
  <1> QED
    BY <1>1 DEF NoFetch, NewFetch, FetchStates

LEMMA TableStarts == TableInit => TableInv
  <1> SUFFICES ASSUME TableInit PROVE TableInv
    OBVIOUS
  <1>1. MaxLogged \in Nat /\ TablePage \in Nat /\ "all" \in TableFilters
    BY TableAssumption
  <1>2. OpenedTable \in TableKeys /\ OpenedTable[2] = 1
    BY <1>1 DEF OpenedTable, TableKeys
  <1>3. /\ NoTableAnswer \in [rows : 0..TablePage, total : 0..MaxLogged,
                              torn : BOOLEAN, held : BOOLEAN]
        /\ ~NoTableAnswer.held /\ NoTableAnswer.total = 0
    BY <1>1 DEF NoTableAnswer
  <1>4. TableTypeOK
    BY <1>1, <1>2, <1>3, NewFetchIs DEF TableInit, TableTypeOK, FetchStates
  <1>5. WayPromised
    BY <1>1, <1>2 DEF TableInit, WayPromised, Reaches
  <1>6. \A k \in TableKeys : fetches[k].on \/ shownPages[k].held => k = OpenedTable
    BY <1>3, NewFetchIs DEF TableInit
  <1>7. HeldPromised
    BY <1>2, <1>6 DEF HeldPromised, Reaches
  <1>8. LoggedAll \in Nat /\ LoggedAll <= MaxLogged
    BY <1>1 DEF TableInit, LoggedAll, LogStatuses
  <1>9. NeverFewer /\ AnswersRead
    BY <1>1, <1>3, <1>8, NewFetchIs DEF TableInit, NeverFewer, AnswersRead, AnswerOf
  <1> QED
    BY <1>4, <1>5, <1>7, <1>9 DEF TableInv

\* The logs change, none of them goes.
LEMMA LogsChange ==
    ASSUME TableInv, UNCHANGED <<tableView, shownPages, fetches, promised>>,
           logged' \in [LogStatuses -> 0..MaxLogged],
           LoggedAll' \in LoggedAll..MaxLogged
    PROVE  TableInv'
  <1>1. LoggedAll \in Nat /\ MaxLogged \in Nat
    <2>1. OpenedTable \in TableKeys
      BY TableAssumption DEF OpenedTable, TableKeys
    <2> QED
      BY <2>1, LoggedIs, TableAssumption
  <1>2. \A k \in TableKeys :
           /\ promised[k] \in Nat /\ shownPages[k].total \in Nat
           /\ \A n \in fetches[k].counted : n \in Nat
    BY DEF TableInv, TableTypeOK, FetchStates
  <1>3. NeverFewer'
    BY <1>1, <1>2 DEF TableInv, NeverFewer
  <1>4. TableTypeOK' /\ WayPromised' /\ HeldPromised' /\ AnswersRead'
    BY DEF TableInv, TableTypeOK, WayPromised, HeldPromised, AnswersRead, AnswerOf, Reaches
  <1> QED
    BY <1>3, <1>4 DEF TableInv

LEMMA LogKeptKeeps ==
    ASSUME TableInv, NEW status \in LogStatuses, LogKept(status)
    PROVE  TableInv'
  <1>1. /\ logged["flagged"] \in 0..MaxLogged /\ logged["approved"] \in 0..MaxLogged
        /\ logged["rejected"] \in 0..MaxLogged /\ MaxLogged \in Nat
        /\ logged \in [LogStatuses -> 0..MaxLogged]
    BY TableAssumption DEF TableInv, TableTypeOK, LogStatuses
  <1>2. LoggedAll < MaxLogged /\ logged' = [logged EXCEPT ![status] = @ + 1]
    BY DEF LogKept
  <1>3. logged[status] + 1 \in 0..MaxLogged
    BY <1>1, <1>2 DEF LoggedAll, LogStatuses
  <1>4. logged' \in [LogStatuses -> 0..MaxLogged]
    BY <1>1, <1>2, <1>3
  <1>5. LoggedAll' = LoggedAll + 1
    BY <1>1, <1>2 DEF LoggedAll, LogStatuses
  <1>6. LoggedAll' \in LoggedAll..MaxLogged
    BY <1>1, <1>2, <1>5 DEF LoggedAll
  <1> QED
    BY <1>4, <1>6, LogsChange DEF LogKept

LEMMA LogReviewedKeeps ==
    ASSUME TableInv, NEW from \in LogStatuses, NEW to \in LogStatuses, LogReviewed(from, to)
    PROVE  TableInv'
  <1>1. /\ logged["flagged"] \in 0..MaxLogged /\ logged["approved"] \in 0..MaxLogged
        /\ logged["rejected"] \in 0..MaxLogged /\ MaxLogged \in Nat
        /\ logged \in [LogStatuses -> 0..MaxLogged]
    BY TableAssumption DEF TableInv, TableTypeOK, LogStatuses
  <1>2. /\ from # to /\ logged[from] > 0 /\ LoggedAll <= MaxLogged
        /\ logged' = [logged EXCEPT ![from] = @ - 1, ![to] = @ + 1]
    BY DEF LogReviewed, TableInv, NeverFewer
  <1>3. logged[from] - 1 \in 0..MaxLogged /\ logged[to] + 1 \in 0..MaxLogged
    BY <1>1, <1>2 DEF LoggedAll, LogStatuses
  <1>4. logged' \in [LogStatuses -> 0..MaxLogged]
    BY <1>1, <1>2, <1>3
  <1>5. LoggedAll' = LoggedAll
    BY <1>1, <1>2 DEF LoggedAll, LogStatuses
  <1>6. LoggedAll' \in LoggedAll..MaxLogged
    BY <1>1, <1>2, <1>5 DEF LoggedAll
  <1> QED
    BY <1>4, <1>6, LogsChange DEF LogReviewed

\* A fetch is begun, begun again or given up.
LEMMA FetchChanges ==
    ASSUME TableInv, NEW k \in TableKeys, NEW new \in {NoFetch, NewFetch},
           new = NewFetch => Reaches(k),
           fetches' = [fetches EXCEPT ![k] = new],
           UNCHANGED <<logged, tableView, shownPages, promised>>
    PROVE  TableInv'
  <1>1. /\ new \in FetchStates /\ ~NoFetch.on /\ new.found = {} /\ new.counted = {}
    BY NewFetchIs
  <1>2. /\ fetches \in [TableKeys -> FetchStates]
        /\ \A j \in TableKeys : fetches'[j] = IF j = k THEN new ELSE fetches[j]
    BY DEF TableInv, TableTypeOK, FetchStates
  <1>3. TableTypeOK'
    BY <1>1, <1>2 DEF TableInv, TableTypeOK, FetchStates
  <1>4. WayPromised'
    BY DEF TableInv, WayPromised, Reaches
  <1>5. HeldPromised'
    BY <1>1, <1>2 DEF TableInv, HeldPromised, Reaches
  <1>6. LoggedAll' = LoggedAll
    BY DEF LoggedAll
  <1>7. NeverFewer'
    BY <1>1, <1>2, <1>6 DEF TableInv, NeverFewer
  <1>8. AnswersRead'
    BY <1>1, <1>2 DEF TableInv, AnswersRead, AnswerOf
  <1> QED
    BY <1>3, <1>4, <1>5, <1>7, <1>8 DEF TableInv

LEMMA ViewReached == ASSUME TableInv PROVE tableView \in TableKeys /\ Reaches(tableView)
  <1>1. tableView \in TableKeys
    BY DEF TableInv, TableTypeOK, FetchStates
  <1>2. tableView[2] \in 1..(MaxLogged + 1) /\ tableView = <<tableView[1], tableView[2]>>
        /\ tableView[2] \in Nat
    BY <1>1, KeysAre
  <1>3. tableView[2] <= tableView[2]
    BY <1>2
  <1>4. Reaches(<<tableView[1], tableView[2]>>)
    BY <1>2, <1>3, Zenon DEF TableInv, WayPromised
  <1> QED
    BY <1>1, <1>2, <1>4

LEMMA RefetchKeeps == ASSUME TableInv, Refetch PROVE TableInv'
  <1>1. fetches' = [fetches EXCEPT ![tableView] = NewFetch]
    BY DEF Refetch, FetchStarts
  <1> QED
    BY <1>1, ViewReached, FetchChanges DEF Refetch

LEMMA FetchFailedKeeps == ASSUME TableInv, NEW k \in TableKeys, FetchFailed(k) PROVE TableInv'
  <1>1. Reaches(k)
    BY DEF FetchFailed, TableInv, HeldPromised
  <1>2. \E new \in {NoFetch, NewFetch} : fetches' = [fetches EXCEPT ![k] = new]
    BY DEF FetchFailed
  <1> QED
    BY <1>1, <1>2, FetchChanges DEF FetchFailed

\* Another key is looked at: the way to it is promised, with what the turn adds.
LEMMA LookKeeps ==
    ASSUME TableInv, NEW k \in TableKeys, Look(k), UNCHANGED <<logged, shownPages>>,
           promised' \in [TableKeys -> 0..MaxLogged],
           \A j \in TableKeys : promised[j] <= promised'[j],
           \A j \in TableKeys : j[1] = "all" => promised'[j] <= LoggedAll,
           \A q \in 1..(MaxLogged + 1) : q <= k[2] => Reaches(<<k[1], q>>)'
    PROVE  TableInv'
  <1>1. NewFetch \in FetchStates /\ NewFetch.found = {} /\ NewFetch.counted = {} /\ NewFetch.on
    BY NewFetchIs
  <1>2. fetches \in [TableKeys -> FetchStates]
    BY DEF TableInv, TableTypeOK, FetchStates
  <1>3. tableView' = k
    BY DEF Look
  <1>4. fetches' = fetches \/ fetches' = [fetches EXCEPT ![k] = NewFetch]
    BY DEF Look, FetchStarts
  <1>5. \A j \in TableKeys : fetches'[j] = fetches[j] \/ (j = k /\ fetches'[j] = NewFetch)
    BY <1>2, <1>4
  <1>6. fetches' \in [TableKeys -> FetchStates]
    BY <1>1, <1>2, <1>4
  <1>7. TableTypeOK'
    BY <1>3, <1>6 DEF TableInv, TableTypeOK, FetchStates
  <1>8. WayPromised'
    BY <1>3 DEF WayPromised, Reaches
  <1>9. k[2] \in 1..(MaxLogged + 1) /\ k = <<k[1], k[2]>> /\ k[2] <= k[2]
    BY KeysAre
  <1>10. Reaches(k)'
    <2>1. Reaches(<<k[1], k[2]>>)'
      BY <1>9
    <2> QED
      BY <1>9, <2>1 DEF Reaches
  <1>11. HeldPromised'
    <2> SUFFICES ASSUME NEW j \in TableKeys, fetches'[j].on \/ shownPages[j].held
                 PROVE  Reaches(j)'
      BY DEF HeldPromised, Reaches
    <2>1. CASE j = k
      BY <1>10, <2>1
    <2>2. CASE j # k
      <3>1. Reaches(j)
        BY <1>5, <2>2 DEF TableInv, HeldPromised
      <3>2. promised[j] \in Nat /\ promised'[j] \in Nat /\ promised[j] <= promised'[j]
        BY DEF TableInv, TableTypeOK, FetchStates
      <3>3. j[2] \in Nat \ {0} /\ Skipped(j[2]) \in Nat
        BY KeysAre, SkippedIs
      <3> QED
        BY <3>1, <3>2, <3>3 DEF Reaches
    <2> QED
      BY <2>1, <2>2
  <1>12. LoggedAll' = LoggedAll
    BY DEF LoggedAll
  <1>13. NeverFewer'
    BY <1>1, <1>5, <1>12 DEF TableInv, NeverFewer
  <1>14. AnswersRead'
    BY <1>1, <1>5 DEF TableInv, AnswersRead, AnswerOf
  <1> QED
    BY <1>7, <1>8, <1>11, <1>13, <1>14 DEF TableInv

LEMMA SetTableFilterKeeps ==
    ASSUME TableInv, NEW f \in TableFilters, SetTableFilter(f)
    PROVE  TableInv'
  <1>1. <<f, 1>> \in TableKeys /\ <<f, 1>>[1] = f /\ <<f, 1>>[2] = 1
    BY TableAssumption, KeyIs
  <1>2. /\ Look(<<f, 1>>) /\ UNCHANGED <<logged, shownPages>> /\ promised' = promised
    BY DEF SetTableFilter
  <1>3. /\ promised \in [TableKeys -> 0..MaxLogged]
        /\ \A j \in TableKeys : promised[j] <= promised[j]
        /\ \A j \in TableKeys : j[1] = "all" => promised[j] <= LoggedAll
    BY TableAssumption DEF TableInv, TableTypeOK, NeverFewer
  <1>4. \A q \in 1..(MaxLogged + 1) : q <= 1 => Reaches(<<f, q>>)'
    BY TableAssumption DEF Reaches
  <1> QED
    BY <1>1, <1>2, <1>3, <1>4, LookKeeps

LEMMA TurnTablePageKeeps ==
    ASSUME TableInv, NEW p \in 1..MaxLogged, TurnTablePage(p)
    PROVE  TableInv'
  <1>0. PICK f, total : f = tableView[1] /\ total = shownPages[tableView].total
    OBVIOUS
  <1> DEFINE k == <<f, p>>
  <1>1. /\ tableView \in TableKeys /\ f \in TableFilters /\ tableView[2] \in 1..(MaxLogged + 1)
        /\ tableView[2] \in Nat \ {0} /\ tableView = <<f, tableView[2]>>
    BY <1>0, KeysAre DEF TableInv, TableTypeOK
  <1>2. p \in 1..(MaxLogged + 1) /\ p \in Nat \ {0} /\ MaxLogged \in Nat /\ 1 \in Nat \ {0}
    BY TableAssumption
  <1>3. k \in TableKeys /\ k[1] = f /\ k[2] = p
    BY <1>1, <1>2, KeyIs
  <1>4. /\ Look(k) /\ UNCHANGED <<logged, shownPages>>
        /\ promised' = [promised EXCEPT ![k] = IF @ < total THEN total ELSE @]
        /\ p + 1 = tableView[2] \/ (p = tableView[2] + 1 /\ tableView[2] * TablePage < total)
    BY <1>0 DEF TurnTablePage
  <1>5. /\ total \in 0..MaxLogged /\ promised \in [TableKeys -> 0..MaxLogged]
        /\ f = "all" => total <= LoggedAll
        /\ \A j \in TableKeys : j[1] = "all" => promised[j] <= LoggedAll
    BY <1>0, <1>1 DEF TableInv, TableTypeOK, NeverFewer
  <1> HIDE DEF k
  <1>6. /\ promised' \in [TableKeys -> 0..MaxLogged]
        /\ \A j \in TableKeys : j # k => promised'[j] = promised[j]
        /\ promised'[k] = IF promised[k] < total THEN total ELSE promised[k]
    BY <1>3, <1>4, <1>5
  <1>7. \A j \in TableKeys : promised[j] <= promised'[j]
    BY <1>2, <1>5, <1>6
  <1>8. \A j \in TableKeys : j[1] = "all" => promised'[j] <= LoggedAll
    BY <1>3, <1>5, <1>6
  <1>9. ASSUME NEW q \in 1..(MaxLogged + 1), q <= p PROVE Reaches(<<f, q>>)'
    <2>1. /\ <<f, q>> \in TableKeys /\ <<f, q>>[2] = q /\ q \in Nat \ {0}
          /\ Skipped(q) \in Nat
      BY <1>1, <1>2, KeyIs, SkippedIs
    <2>0. /\ Reaches(<<f, q>>) <=> (q > 1 => promised[<<f, q>>] > Skipped(q))
          /\ Reaches(<<f, q>>)' <=> (q > 1 => promised'[<<f, q>>] > Skipped(q))
      BY <2>1 DEF Reaches
    <2>2. CASE q <= tableView[2]
      <3>1. Reaches(<<f, q>>)
        BY <1>0, <2>2 DEF TableInv, WayPromised
      <3>2. promised[<<f, q>>] \in Nat /\ promised'[<<f, q>>] \in Nat
            /\ promised[<<f, q>>] <= promised'[<<f, q>>]
        BY <1>5, <1>6, <1>7, <2>1
      <3> QED
        BY <2>0, <2>1, <3>1, <3>2
    <2>3. CASE ~(q <= tableView[2])
      <3>1. q = p /\ p = tableView[2] + 1 /\ tableView[2] * TablePage < total
        BY <1>1, <1>2, <1>4, <1>9, <2>1, <2>3
      <3>2. Skipped(p) < total
        BY <1>1, <3>1, SkippedIs
      <3>3. promised'[k] >= total /\ promised'[k] \in Nat /\ total \in Nat
        BY <1>3, <1>5, <1>6
      <3> QED
        BY <2>0, <2>1, <3>1, <3>2, <3>3 DEF k
    <2> QED
      BY <2>2, <2>3
  <1> QED
    BY <1>3, <1>4, <1>6, <1>7, <1>8, <1>9, LookKeeps

\* One of the two reads.
LEMMA FindRunsKeeps == ASSUME TableInv, NEW k \in TableKeys, FindRuns(k) PROVE TableInv'
  <1> DEFINE n == LoggedOf(k[1])
  <1>1. /\ n \in 0..MaxLogged /\ LoggedAll \in Nat
        /\ k[1] = "all" => n = LoggedAll
    BY LoggedIs
  <1>2. fetches[k].on /\ fetches' = [fetches EXCEPT ![k].found = {n}]
        /\ UNCHANGED <<logged, tableView, shownPages, promised>>
    BY DEF FindRuns
  <1> HIDE DEF n
  <1>3. fetches \in [TableKeys -> FetchStates]
    BY DEF TableInv, TableTypeOK, FetchStates
  <1>4. /\ fetches' \in [TableKeys -> FetchStates]
        /\ \A j \in TableKeys : /\ fetches'[j].on = fetches[j].on
                                /\ fetches'[j].counted = fetches[j].counted
                                /\ fetches'[j].found = IF j = k THEN {n} ELSE fetches[j].found
    BY <1>1, <1>2, <1>3 DEF FetchStates
  <1>5. k[1] = "all" /\ k[2] > 1 => n > Skipped(k[2])
    <2> SUFFICES ASSUME k[1] = "all", k[2] > 1 PROVE n > Skipped(k[2])
      OBVIOUS
    <2>1. promised[k] > Skipped(k[2]) /\ promised[k] \in Nat /\ promised[k] <= LoggedAll
      BY <1>2 DEF TableInv, HeldPromised, Reaches, NeverFewer, TableTypeOK
    <2>2. Skipped(k[2]) \in Nat
      BY KeysAre, SkippedIs
    <2> QED
      BY <1>1, <2>1, <2>2
  <1>6. TableTypeOK' /\ WayPromised' /\ HeldPromised'
    BY <1>2, <1>4 DEF TableInv, TableTypeOK, FetchStates, WayPromised, HeldPromised, Reaches
  <1>7. LoggedAll' = LoggedAll
    BY <1>2 DEF LoggedAll
  <1>8. NeverFewer'
    BY <1>2, <1>4, <1>5, <1>7 DEF TableInv, NeverFewer
  <1>9. AnswersRead'
    BY <1>2, <1>4 DEF TableInv, AnswersRead, AnswerOf
  <1> QED
    BY <1>6, <1>8, <1>9 DEF TableInv

LEMMA CountRunsKeeps == ASSUME TableInv, NEW k \in TableKeys, CountRuns(k) PROVE TableInv'
  <1> DEFINE n == LoggedOf(k[1])
  <1>1. /\ n \in 0..MaxLogged /\ LoggedAll \in Nat
        /\ k[1] = "all" => n = LoggedAll
    BY LoggedIs
  <1>2. fetches[k].on /\ fetches' = [fetches EXCEPT ![k].counted = {n}]
        /\ UNCHANGED <<logged, tableView, shownPages, promised>>
    BY DEF CountRuns
  <1> HIDE DEF n
  <1>3. fetches \in [TableKeys -> FetchStates]
    BY DEF TableInv, TableTypeOK, FetchStates
  <1>4. /\ fetches' \in [TableKeys -> FetchStates]
        /\ \A j \in TableKeys : /\ fetches'[j].on = fetches[j].on
                                /\ fetches'[j].found = fetches[j].found
                                /\ fetches'[j].counted = IF j = k THEN {n} ELSE fetches[j].counted
    BY <1>1, <1>2, <1>3 DEF FetchStates
  <1>5. TableTypeOK' /\ WayPromised' /\ HeldPromised'
    BY <1>2, <1>4 DEF TableInv, TableTypeOK, FetchStates, WayPromised, HeldPromised, Reaches
  <1>6. LoggedAll' = LoggedAll
    BY <1>2 DEF LoggedAll
  <1>7. NeverFewer'
    BY <1>1, <1>2, <1>4, <1>6 DEF TableInv, NeverFewer
  <1>8. AnswersRead'
    BY <1>2, <1>4 DEF TableInv, AnswersRead, AnswerOf
  <1> QED
    BY <1>5, <1>7, <1>8 DEF TableInv

LEMMA FetchAnsweredKeeps == ASSUME TableInv, NEW k \in TableKeys, FetchAnswered(k) PROVE TableInv'
  <1>1. PICK n \in fetches[k].found, total \in fetches[k].counted :
           shownPages' = [shownPages EXCEPT ![k] = [rows |-> RowsAt(n, k[2]), total |-> total,
                                                    torn |-> n # total, held |-> TRUE]]
    BY DEF FetchAnswered
  <1> DEFINE a == [rows |-> RowsAt(n, k[2]), total |-> total, torn |-> n # total, held |-> TRUE]
  <1>2. fetches' = [fetches EXCEPT ![k] = NoFetch]
        /\ UNCHANGED <<logged, tableView, promised>>
    BY DEF FetchAnswered
  <1>3. /\ fetches \in [TableKeys -> FetchStates]
        /\ shownPages \in [TableKeys -> [rows : 0..TablePage, total : 0..MaxLogged,
                                         torn : BOOLEAN, held : BOOLEAN]]
    BY DEF TableInv, TableTypeOK, FetchStates
  <1>4. n \in 0..MaxLogged /\ total \in 0..MaxLogged /\ n \in Nat
    BY <1>3, TableAssumption DEF FetchStates
  <1>5. fetches[k].on /\ Reaches(k)
    BY DEF TableInv, AnswersRead, HeldPromised
  <1>6. RowsAt(n, k[2]) \in 0..TablePage
    BY <1>4, KeysAre, RowsAre
  <1>7. (n # total) \in BOOLEAN
    BY Zenon
  <1>8. a \in [rows : 0..TablePage, total : 0..MaxLogged, torn : BOOLEAN, held : BOOLEAN]
    BY <1>4, <1>6, <1>7
  <1>9. a.held /\ a.total = total /\ a.rows = RowsAt(n, k[2]) /\ a.torn = (n # total)
    OBVIOUS
  <1>10. NoFetch \in FetchStates /\ ~NoFetch.on /\ NoFetch.found = {} /\ NoFetch.counted = {}
    BY NewFetchIs
  <1>11. k[1] = "all" => total <= LoggedAll /\ (k[2] > 1 => n > Skipped(k[2]))
    BY DEF TableInv, NeverFewer
  <1>12. AnswerOf(k, a)
    BY <1>4, <1>9, <1>11 DEF AnswerOf
  <1>13. shownPages' = [shownPages EXCEPT ![k] = a]
    BY <1>1
  <1> HIDE DEF a
  <1>14. /\ shownPages' \in [TableKeys -> [rows : 0..TablePage, total : 0..MaxLogged,
                                           torn : BOOLEAN, held : BOOLEAN]]
         /\ \A j \in TableKeys : shownPages'[j] = IF j = k THEN a ELSE shownPages[j]
    BY <1>3, <1>8, <1>13
  <1>15. /\ fetches' \in [TableKeys -> FetchStates]
         /\ \A j \in TableKeys : fetches'[j] = IF j = k THEN NoFetch ELSE fetches[j]
    BY <1>2, <1>3, <1>10
  <1>16. TableTypeOK' /\ WayPromised'
    BY <1>2, <1>14, <1>15 DEF TableInv, TableTypeOK, FetchStates, WayPromised, Reaches
  <1>17. HeldPromised'
    BY <1>2, <1>5, <1>14, <1>15 DEF TableInv, HeldPromised, Reaches
  <1>18. LoggedAll' = LoggedAll
    BY <1>2 DEF LoggedAll
  <1>19. NeverFewer'
    BY <1>2, <1>9, <1>10, <1>11, <1>14, <1>15, <1>18 DEF TableInv, NeverFewer
  <1>20. ASSUME NEW j \in TableKeys PROVE AnswerOf(j, shownPages'[j])
    BY <1>12, <1>14 DEF TableInv, AnswersRead
  <1>21. AnswersRead'
    BY <1>10, <1>15, <1>20 DEF TableInv, AnswersRead, AnswerOf
  <1> QED
    BY <1>16, <1>17, <1>19, <1>21 DEF TableInv

LEMMA TableKeeps == TableInv /\ [TableNext]_tableVars => TableInv'
  <1> SUFFICES ASSUME TableInv, [TableNext]_tableVars PROVE TableInv'
    OBVIOUS
  <1>1. ASSUME NEW status \in {"flagged", "approved"}, LogKept(status) PROVE TableInv'
    BY <1>1, LogKeptKeeps DEF LogStatuses
  <1>2. ASSUME NEW from \in LogStatuses, NEW to \in TableVerdicts, LogReviewed(from, to)
        PROVE  TableInv'
    <2>1. to \in LogStatuses
      BY TableAssumption DEF LogStatuses
    <2> QED
      BY <1>2, <2>1, LogReviewedKeeps
  <1>3. ASSUME UNCHANGED tableVars PROVE TableInv'
    <2>1. LoggedAll' = LoggedAll
      BY <1>3 DEF tableVars, LoggedAll
    <2> QED
      BY <1>3, <2>1 DEF tableVars, TableInv, TableTypeOK, WayPromised, HeldPromised, NeverFewer,
         AnswersRead, AnswerOf, Reaches
  <1> QED
    BY <1>1, <1>2, <1>3, SetTableFilterKeeps, TurnTablePageKeeps, RefetchKeeps, FindRunsKeeps,
       CountRunsKeeps, FetchAnsweredKeeps, FetchFailedKeeps DEF TableNext

\* Attendance Logs in pages, for any filters, sizes of page and numbers of logs
\* and fetches, whatever is cached, answered late or failed: a page past the
\* end is one that logs have left.  attendance-view.tsx, attendanceService.ts.
THEOREM PagesAreExplained == TableSpec => []PagesExplained
  <1> QED
    BY TableStarts, TableKeeps, TableInvMeans, PTL DEF TableSpec

-----------------------------------------------------------------------------
\* Tokens and tables together: whoever is deactivated is out in time, and while
\* a token is good the console offers what the API accepts.  auth.ts, rbac.ts.
THEOREM AccessIsSound == AccessSpec => []AccessSound
  BY DeactivationsEnd, ConsolesDoMatch, PTL DEF AccessSound
=============================================================================
