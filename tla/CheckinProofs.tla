---------------------------- MODULE CheckinProofs ----------------------------
(***************************************************************************)
(* Proofs about Checkin, for any number of attempts, any photos and        *)
(* request ids, either band policy and any number of restarts.             *)
(*                                                                         *)
(* LogEarned is not inductive: an entry is written by the last step of a   *)
(* handler from facts established by the earlier ones, while the AI        *)
(* service answers on its own.  IInv records, for every stage of a handler *)
(* and of a verification, what has been established when it is reached.    *)
(***************************************************************************)
EXTENDS Checkin, TLAPS

\* Stages from a given step of the handler on.
FromVerify   == {"verify", "alert", "record", "broadcast", "notify"}
FromGeofence == {"geofence", "embedding"} \cup FromVerify
FromPin      == {"pin"} \cup FromGeofence

\* What a handler has established by the stage it is in.
Established(a) ==
    /\ stage[a] \in {"user"} \cup FromPin => Has(a, "frames") /\ Has(a, "alive")
    /\ stage[a] \in FromPin => Has(a, "pin_set") /\ onRoll[a]
    /\ stage[a] \in FromGeofence => Has(a, "pin")
    /\ stage[a] \in {"embedding"} \cup FromVerify => Has(a, "inside")
    /\ stage[a] \in FromVerify => Has(a, "enrolled")
    /\ stage[a] = "alert" => ai[a] = "mock"
    /\ stage[a] \in {"record", "broadcast", "notify"} => ai[a] \in {"approved", "flagged"}

\* What a verification has established by the step it is in.
Verified(a) ==
    /\ ai[a] \in {"fetch", "score"} \cup Decided => Has(a, "clean") /\ Has(a, "fresh")
    /\ ai[a] \in Decided => Has(a, "usable") /\ ai[a] = Decide(body[a].face)
    /\ ai[a] = "mock" => ~Has(a, "clean")

\* Before a handler reaches the comparison there is nothing to show for it.
Ordered(a) ==
    /\ client[a] = "idle" => stage[a] = "unsent"
    /\ stage[a] \in {"unsent", "sent", "liveness", "user", "pin", "geofence", "embedding"}
         => ai[a] = "idle"
    /\ log[a] # "none" => stage[a] \in {"broadcast", "notify", "answered", "crashed"}

\* Deactivation is for good, so an employee active now was so all along.
OnRollWhileActive ==
    active => \A a \in Attempts : stage[a] \notin {"unsent", "sent"} => onRoll[a]

Earned(a) ==
    log[a] # "none" =>
        /\ body[a].lacks = {}
        /\ onRoll[a]
        /\ ai[a] = Decide(body[a].face) /\ ai[a] # "rejected"

IInv ==
    /\ TypeOK
    /\ OnRollWhileActive
    /\ \A a \in Attempts : Established(a) /\ Verified(a) /\ Ordered(a) /\ Earned(a)

-----------------------------------------------------------------------------
\* The submission a choice offers is one.
LEMMA ChoiceType ==
    ASSUME NEW a \in Attempts
    PROVE  Choices[a] \subseteq Submission /\ Choices[a] # {}
BY ChoicesAssumption

LEMMA TypeInit == Init => TypeOK
<1> SUFFICES ASSUME Init  PROVE TypeOK
  OBVIOUS
<1>1. \A a \in Attempts : (CHOOSE b \in Choices[a] : TRUE) \in Submission
  BY ChoiceType
<1>. QED
  BY <1>1 DEF Init, TypeOK, Screens, Stages, Answers

LEMMA TypeStep == IInv /\ [Next]_vars => TypeOK'
<1> SUFFICES ASSUME IInv, [Next]_vars  PROVE TypeOK'
  OBVIOUS
<1>0. TypeOK /\ \A a \in Attempts : Established(a)
  BY DEF IInv
<1> USE DEF TypeOK, Screens, Stages, Working, Answers, Asking, Verdicts, Decided,
            Goto, Reply, Untouched, AiOnly, Think, aiVars, hrVars
<1>1. ASSUME NEW a \in Attempts, Phone(a)  PROVE TypeOK'
  <2>1. CASE Submit(a)
    BY <1>0, <2>1, ChoiceType DEF Submit
  <2>2. CASE ReadAnswer(a)
    BY <1>0, <2>2 DEF ReadAnswer, Interpret
  <2>3. CASE GiveUp(a)
    BY <1>0, <2>3 DEF GiveUp
  <2>. QED  BY <1>1, <2>1, <2>2, <2>3 DEF Phone
<1>2. ASSUME NEW a \in Attempts, Receive(a)  PROVE TypeOK'
  BY <1>0, <1>2 DEF Receive
<1>3. ASSUME NEW a \in Attempts, Handler(a)  PROVE TypeOK'
  <2>1. CASE CheckLiveness(a)
    BY <1>0, <2>1 DEF CheckLiveness
  <2>2. CASE LoadUser(a)
    BY <1>0, <2>2 DEF LoadUser
  <2>3. CASE VerifyPin(a)
    BY <1>0, <2>3 DEF VerifyPin
  <2>4. CASE CheckGeofence(a)
    BY <1>0, <2>4 DEF CheckGeofence
  <2>5. CASE LoadEmbedding(a)
    BY <1>0, <2>5 DEF LoadEmbedding
  <2>6. CASE TakeVerdict(a)
    BY <1>0, <2>6 DEF TakeVerdict
  <2>7. CASE VerifyTimeout(a)
    BY <1>0, <2>7 DEF VerifyTimeout
  <2>8. CASE RaiseAlert(a)
    BY <1>0, <2>8 DEF RaiseAlert
  <2>9. CASE WriteLog(a)
    BY <1>0, <2>9 DEF WriteLog, Established
  <2>10. CASE Broadcast(a)
    BY <1>0, <2>10 DEF Broadcast
  <2>11. CASE Notify(a)
    BY <1>0, <2>11 DEF Notify
  <2>. QED
    BY <1>3, <2>1, <2>2, <2>3, <2>4, <2>5, <2>6, <2>7, <2>8, <2>9, <2>10, <2>11 DEF Handler
<1>4. ASSUME NEW a \in Attempts, Verify(a)  PROVE TypeOK'
  <2>0. body[a].id \in RequestIds \cup {Nil} /\ body[a].photo \in Photos
    BY <1>0 DEF Submission
  <2>1. CASE Admit(a)
    BY <1>0, <2>0, <2>1 DEF Admit
  <2>2. CASE Fetch(a)
    BY <1>0, <2>0, <2>2 DEF Fetch
  <2>3. CASE Score(a)
    BY <1>0, <2>3 DEF Score, Decide
  <2>. QED  BY <1>4, <2>1, <2>2, <2>3 DEF Verify
<1>5. ASSUME NEW a \in Attempts, Review(a)  PROVE TypeOK'
  BY <1>0, <1>5 DEF Review
<1>6. CASE RestartAi
  BY <1>0, <1>6 DEF RestartAi
<1>7. CASE CrashBackend
  BY <1>0, <1>7 DEF CrashBackend
<1>8. CASE Deactivate
  BY <1>0, <1>8 DEF Deactivate
<1>9. CASE UNCHANGED vars
  BY <1>0, <1>9 DEF vars
<1>. QED
  BY <1>1, <1>2, <1>3, <1>4, <1>5, <1>6, <1>7, <1>8, <1>9 DEF Next

\* Every step keeps what stages and verdicts establish, for every attempt.
LEMMA AttemptStep ==
    ASSUME IInv, [Next]_vars, NEW b \in Attempts
    PROVE  (Established(b) /\ Verified(b) /\ Ordered(b) /\ Earned(b))'
<1> DEFINE P == (Established(b) /\ Verified(b) /\ Ordered(b) /\ Earned(b))'
<1>0. /\ TypeOK
      /\ OnRollWhileActive
      /\ Established(b) /\ Verified(b) /\ Ordered(b) /\ Earned(b)
  BY DEF IInv
<1> USE DEF TypeOK, Established, Verified, Ordered, Earned, Has,
            FromVerify, FromGeofence, FromPin, Decided,
            Goto, Reply, Untouched, AiOnly, Think, aiVars, hrVars
<1>1. ASSUME NEW a \in Attempts, Phone(a)  PROVE P
  <2>1. CASE Submit(a)
    BY <1>0, <2>1 DEF Submit, MaySubmit
  <2>2. CASE ReadAnswer(a)
    BY <1>0, <2>2 DEF ReadAnswer, Interpret
  <2>3. CASE GiveUp(a)
    BY <1>0, <2>3 DEF GiveUp
  <2>. QED  BY <1>1, <2>1, <2>2, <2>3 DEF Phone
<1>2. ASSUME NEW a \in Attempts, Receive(a)  PROVE P
  BY <1>0, <1>2 DEF Receive
<1>3. ASSUME NEW a \in Attempts, Handler(a)  PROVE P
  <2>1. CASE CheckLiveness(a)
    BY <1>0, <2>1 DEF CheckLiveness
  <2>2. CASE LoadUser(a)
    BY <1>0, <2>2 DEF LoadUser, OnRollWhileActive
  <2>3. CASE VerifyPin(a)
    BY <1>0, <2>3 DEF VerifyPin
  <2>4. CASE CheckGeofence(a)
    BY <1>0, <2>4 DEF CheckGeofence
  <2>5. CASE LoadEmbedding(a)
    BY <1>0, <2>5 DEF LoadEmbedding
  <2>6. CASE TakeVerdict(a)
    BY <1>0, <2>6 DEF TakeVerdict
  <2>7. CASE VerifyTimeout(a)
    BY <1>0, <2>7 DEF VerifyTimeout
  <2>8. CASE RaiseAlert(a)
    BY <1>0, <2>8 DEF RaiseAlert
  <2>9. CASE WriteLog(a)
    <3>1. stage[a] = "record" => body[a].lacks = {} /\ onRoll[a]
      <4>1. body[a].lacks \subseteq Gates
        BY <1>0 DEF Submission
      <4>2. Established(a) /\ Verified(a)
        BY DEF IInv
      <4>. QED  BY <4>1, <4>2 DEF Gates
    <3>2. stage[a] = "record" => ai[a] = Decide(body[a].face) /\ ai[a] # "rejected"
      BY DEF IInv
    <3>. QED  BY <1>0, <2>9, <3>1, <3>2 DEF WriteLog
  <2>10. CASE Broadcast(a)
    BY <1>0, <2>10 DEF Broadcast
  <2>11. CASE Notify(a)
    BY <1>0, <2>11 DEF Notify
  <2>. QED
    BY <1>3, <2>1, <2>2, <2>3, <2>4, <2>5, <2>6, <2>7, <2>8, <2>9, <2>10, <2>11 DEF Handler
<1>4. ASSUME NEW a \in Attempts, Verify(a)  PROVE P
  <2>1. CASE Admit(a)
    BY <1>0, <2>1 DEF Admit, Decide
  <2>2. CASE Fetch(a)
    BY <1>0, <2>2 DEF Fetch, Decide
  <2>3. CASE Score(a)
    BY <1>0, <2>3 DEF Score, Decide
  <2>. QED  BY <1>4, <2>1, <2>2, <2>3 DEF Verify
<1>5. ASSUME NEW a \in Attempts, Review(a)  PROVE P
  BY <1>0, <1>5 DEF Review
<1>6. CASE RestartAi
  BY <1>0, <1>6 DEF RestartAi, Asking, Decide
<1>7. CASE CrashBackend
  BY <1>0, <1>7 DEF CrashBackend, Working
<1>8. CASE Deactivate
  BY <1>0, <1>8 DEF Deactivate
<1>9. CASE UNCHANGED vars
  BY <1>0, <1>9 DEF vars
<1>. QED
  BY <1>1, <1>2, <1>3, <1>4, <1>5, <1>6, <1>7, <1>8, <1>9 DEF Next

LEMMA OnRollStep == IInv /\ [Next]_vars => OnRollWhileActive'
<1> SUFFICES ASSUME IInv, [Next]_vars, active', NEW b \in Attempts,
                    stage'[b] \notin {"unsent", "sent"}
             PROVE  onRoll'[b]
  BY DEF OnRollWhileActive
<1>0. TypeOK /\ OnRollWhileActive
  BY DEF IInv
<1> USE DEF TypeOK, OnRollWhileActive, Goto, Reply, Untouched, AiOnly, Think, aiVars, hrVars
<1>1. ASSUME NEW a \in Attempts, Phone(a)  PROVE onRoll'[b]
  BY <1>0, <1>1 DEF Phone, Submit, ReadAnswer, GiveUp
<1>2. ASSUME NEW a \in Attempts, Receive(a)  PROVE onRoll'[b]
  BY <1>0, <1>2 DEF Receive
<1>3. ASSUME NEW a \in Attempts, Handler(a)  PROVE onRoll'[b]
  <2>1. UNCHANGED <<active, onRoll>>
    BY <1>3 DEF Handler, CheckLiveness, LoadUser, VerifyPin, CheckGeofence, LoadEmbedding,
                TakeVerdict, VerifyTimeout, RaiseAlert, WriteLog, Broadcast, Notify
  <2>2. stage[a] \in Working /\ \E s \in Stages : stage' = [stage EXCEPT ![a] = s]
    BY <1>0, <1>3 DEF Handler, CheckLiveness, LoadUser, VerifyPin, CheckGeofence, LoadEmbedding,
                TakeVerdict, VerifyTimeout, RaiseAlert, WriteLog, Broadcast, Notify,
                Working, Stages
  <2>. QED  BY <1>0, <2>1, <2>2 DEF Working
<1>4. ASSUME NEW a \in Attempts, Verify(a) \/ Review(a)  PROVE onRoll'[b]
  BY <1>0, <1>4 DEF Verify, Admit, Fetch, Score, Review
<1>5. CASE RestartAi
  BY <1>0, <1>5 DEF RestartAi
<1>6. CASE CrashBackend
  BY <1>0, <1>6 DEF CrashBackend, Working
<1>7. CASE Deactivate
  BY <1>7 DEF Deactivate
<1>8. CASE UNCHANGED vars
  BY <1>0, <1>8 DEF vars
<1>. QED
  BY <1>1, <1>2, <1>3, <1>4, <1>5, <1>6, <1>7, <1>8 DEF Next

\* IInv is an inductive invariant.
THEOREM Invariance == Spec => []IInv
<1>1. Init => IInv
  <2> SUFFICES ASSUME Init  PROVE IInv
    OBVIOUS
  <2>1. TypeOK
    BY TypeInit
  <2>. QED
    BY <2>1 DEF Init, IInv, OnRollWhileActive, Established, Verified, Ordered, Earned,
                FromVerify, FromGeofence, FromPin, Decided
<1>2. IInv /\ [Next]_vars => IInv'
  BY TypeStep, OnRollStep, AttemptStep DEF IInv
<1>. QED  BY <1>1, <1>2, PTL DEF Spec

\* Every variable keeps its type: in particular no answer of the AI service but
\* a decision ever becomes the status of an attendance entry.
THEOREM TypeCorrect == Spec => []TypeOK
<1>1. IInv => TypeOK
  BY DEF IInv
<1>. QED  BY <1>1, Invariance, PTL

\* Every attendance entry was earned by its own submission.
THEOREM LogIsEarned == Spec => []LogEarned
<1>1. IInv => LogEarned
  BY DEF IInv, Earned, LogEarned
<1>. QED  BY <1>1, Invariance, PTL

-----------------------------------------------------------------------------
(* What the employee and HR are told.                                      *)

\* An answer agrees with the entry, an alert with its cause.
Answered(a) ==
    /\ stage[a] # "answered" => answer[a] = "none"
    /\ stage[a] \in {"broadcast", "notify"} => log[a] # "none"
    /\ stage[a] = "notify" => ai[a] = "flagged" /\ a \in heard
    /\ answer[a] = "approved" => log[a] # "none" /\ ai[a] = "approved"
    /\ answer[a] = "flagged" => log[a] # "none" /\ ai[a] = "flagged" /\ a \in heard
    /\ answer[a] \in {"refused", "replay"} => log[a] = "none"
    /\ answer[a] = "refused" => ai[a] \notin Asking /\ (ai[a] = "mock" => a \in heard)
    /\ client[a] = "review" => answer[a] = "flagged"

Alerted(a) ==
    /\ a \in alerts => /\ stage[a] = "answered" /\ log[a] = "none"
                       /\ ~Has(a, "clean") /\ Has(a, "pin")
    /\ a \in heard \ alerts => log[a] # "none" /\ ai[a] = "flagged"

TInv == IInv /\ \A a \in Attempts : Answered(a) /\ Alerted(a)

LEMMA ToldStep ==
    ASSUME TInv, [Next]_vars, NEW b \in Attempts
    PROVE  (Answered(b) /\ Alerted(b))'
<1> DEFINE P == (Answered(b) /\ Alerted(b))'
<1>0. /\ TypeOK
      /\ Established(b) /\ Verified(b) /\ Ordered(b) /\ Earned(b)
      /\ Answered(b) /\ Alerted(b)
  BY DEF IInv, TInv
<1> USE DEF TypeOK, Established, Verified, Ordered, Earned, Has, Answered, Alerted,
            FromVerify, FromGeofence, FromPin, Decided, Decide,
            Goto, Reply, Untouched, AiOnly, Think, aiVars, hrVars, Asking
<1>1. ASSUME NEW a \in Attempts, Phone(a)  PROVE P
  <2>1. CASE Submit(a)
    BY <1>0, <2>1 DEF Submit, MaySubmit
  <2>2. CASE ReadAnswer(a)
    BY <1>0, <2>2 DEF ReadAnswer, Interpret
  <2>3. CASE GiveUp(a)
    BY <1>0, <2>3 DEF GiveUp
  <2>. QED  BY <1>1, <2>1, <2>2, <2>3 DEF Phone
<1>2. ASSUME NEW a \in Attempts, Receive(a)  PROVE P
  BY <1>0, <1>2 DEF Receive
<1>3. ASSUME NEW a \in Attempts, Handler(a)  PROVE P
  <2>1. CASE CheckLiveness(a)
    BY <1>0, <2>1 DEF CheckLiveness
  <2>2. CASE LoadUser(a)
    BY <1>0, <2>2 DEF LoadUser
  <2>3. CASE VerifyPin(a)
    BY <1>0, <2>3 DEF VerifyPin
  <2>4. CASE CheckGeofence(a)
    BY <1>0, <2>4 DEF CheckGeofence
  <2>5. CASE LoadEmbedding(a)
    BY <1>0, <2>5 DEF LoadEmbedding
  <2>6. CASE TakeVerdict(a)
    BY <1>0, <2>6 DEF TakeVerdict
  <2>7. CASE VerifyTimeout(a)
    BY <1>0, <2>7 DEF VerifyTimeout
  <2>8. CASE RaiseAlert(a)
    BY <1>0, <2>8 DEF RaiseAlert
  <2>9. CASE WriteLog(a)
    BY <1>0, <2>9 DEF WriteLog
  <2>10. CASE Broadcast(a)
    BY <1>0, <2>10 DEF Broadcast
  <2>11. CASE Notify(a)
    BY <1>0, <2>11 DEF Notify
  <2>. QED
    BY <1>3, <2>1, <2>2, <2>3, <2>4, <2>5, <2>6, <2>7, <2>8, <2>9, <2>10, <2>11 DEF Handler
<1>4. ASSUME NEW a \in Attempts, Verify(a)  PROVE P
  BY <1>0, <1>4 DEF Verify, Admit, Fetch, Score
<1>5. ASSUME NEW a \in Attempts, Review(a)  PROVE P
  BY <1>0, <1>5 DEF Review
<1>6. CASE RestartAi
  BY <1>0, <1>6 DEF RestartAi
<1>7. CASE CrashBackend
  BY <1>0, <1>7 DEF CrashBackend, Working
<1>8. CASE Deactivate
  BY <1>0, <1>8 DEF Deactivate
<1>9. CASE UNCHANGED vars
  BY <1>0, <1>9 DEF vars
<1>. QED
  BY <1>1, <1>2, <1>3, <1>4, <1>5, <1>6, <1>7, <1>8, <1>9 DEF Next

THEOREM ToldInvariance == Spec => []TInv
<1>1. Init => \A a \in Attempts : Answered(a) /\ Alerted(a)
  BY DEF Init, Answered, Alerted, Asking
<1>2. TInv /\ IInv' /\ [Next]_vars => TInv'
  BY ToldStep DEF TInv
<1>3. Init /\ IInv => TInv
  BY <1>1 DEF TInv
<1>. QED  BY <1>2, <1>3, Invariance, PTL DEF Spec

\* HR is never alerted of something that did not happen.
THEOREM AlertsAreTrue == Spec => []AlertsTrue
<1>1. TInv => AlertsTrue
  BY DEF TInv, IInv, TypeOK, Alerted, AlertsTrue
<1>. QED  BY <1>1, ToldInvariance, PTL

\* An employee sent for review has been announced to HR.
THEOREM ReviewIsHeard == Spec => []ReviewMeansHeard
<1>1. TInv => ReviewMeansHeard
  BY DEF TInv, Answered, ReviewMeansHeard
<1>. QED  BY <1>1, ToldInvariance, PTL

\* Both: alerts and answers agree, on every path of the handler.
THEOREM AlertsAreHonest == Spec => []AlertsHonest
  BY AlertsAreTrue, ReviewIsHeard, PTL DEF AlertsHonest

-----------------------------------------------------------------------------
(* Replays.  UsedOnce speaks of entries; the invariant speaks of the guards: *)
(* an attempt that passed them since the last restart has its photo and its *)
(* request id in their sets, and shares neither with another such attempt.  *)

\* The attempt holds its request id in the current cache.
Holds(a) == ai[a] = "fetch" \/ accepted[a] = restarts + 1

SameId(a, b) == body[a].id = body[b].id /\ body[a].id # Nil

Guarded(a) ==
    /\ accepted[a] <= restarts + 1
    /\ accepted[a] = restarts + 1 => body[a].photo \in images
    /\ Holds(a) => body[a].id \in nonces \cup {Nil}
    /\ ai[a] \in {"score"} \cup Decided => accepted[a] # 0
    /\ ai[a] \in {"idle", "admit", "fetch"} => accepted[a] = 0

Apart(a, b) ==
    /\ Holds(a) /\ Holds(b) => ~SameId(a, b)
    /\ accepted[a] = accepted[b] /\ accepted[a] # 0
         => body[a].photo # body[b].photo /\ ~SameId(a, b)

RInv ==
    /\ IInv
    /\ \A a \in Attempts : Guarded(a)
    /\ \A a, b \in Attempts : a # b => Apart(a, b)

\* Only the phone's submission, the AI service and its restart touch what the
\* guards are about.
LEMMA GuardsUntouched ==
    ASSUME IInv, [Next]_vars,
           \A a \in Attempts : ~Submit(a) /\ ~LoadEmbedding(a) /\ ~Verify(a), ~RestartAi
    PROVE  UNCHANGED <<body, ai, nonces, images, restarts, accepted>>
<1> USE DEF Untouched, aiVars
<1>1. ASSUME NEW a \in Attempts, Phone(a) \/ Receive(a) \/ Review(a)
      PROVE  UNCHANGED <<body, ai, nonces, images, restarts, accepted>>
  BY <1>1 DEF Phone, ReadAnswer, GiveUp, Receive, Review
<1>2. ASSUME NEW a \in Attempts, Handler(a)
      PROVE  UNCHANGED <<body, ai, nonces, images, restarts, accepted>>
  BY <1>2 DEF Handler, CheckLiveness, LoadUser, VerifyPin, CheckGeofence, TakeVerdict,
              VerifyTimeout, RaiseAlert, WriteLog, Broadcast, Notify
<1>3. CASE CrashBackend \/ Deactivate \/ UNCHANGED vars
  BY <1>3 DEF CrashBackend, Deactivate, vars
<1>. QED  BY <1>1, <1>2, <1>3 DEF Next

LEMMA GuardedStep ==
    ASSUME RInv, [Next]_vars, NEW b \in Attempts
    PROVE  Guarded(b)'
<1>0. TypeOK /\ Guarded(b) /\ Ordered(b) /\ restarts \in Nat /\ accepted[b] \in Nat
  BY DEF RInv, IInv, TypeOK
<1> USE DEF Guarded, Holds, Decided
<1>1. ASSUME NEW a \in Attempts, Submit(a)  PROVE Guarded(b)'
  BY <1>0, <1>1 DEF TypeOK, Submit, MaySubmit, Ordered, aiVars
<1>2. ASSUME NEW a \in Attempts, LoadEmbedding(a)  PROVE Guarded(b)'
  BY <1>0, <1>2 DEF TypeOK, LoadEmbedding, Ordered, Untouched, aiVars
<1>3. ASSUME NEW a \in Attempts, Verify(a)  PROVE Guarded(b)'
  <2>1. CASE Admit(a)
    BY <1>0, <2>1 DEF TypeOK, Admit, Think, AiOnly
  <2>2. CASE Fetch(a)
    BY <1>0, <2>2 DEF TypeOK, Fetch, Think, AiOnly
  <2>3. CASE Score(a)
    BY <1>0, <2>3 DEF TypeOK, Score, Decide, Think, AiOnly
  <2>. QED  BY <1>3, <2>1, <2>2, <2>3 DEF Verify
<1>4. CASE RestartAi
  BY <1>0, <1>4 DEF TypeOK, RestartAi, Asking
<1>5. CASE /\ \A a \in Attempts : ~Submit(a) /\ ~LoadEmbedding(a) /\ ~Verify(a)
           /\ ~RestartAi
  <2>1. UNCHANGED <<body, ai, nonces, images, restarts, accepted>>
    BY <1>5, GuardsUntouched DEF RInv
  <2>. QED  BY <1>0, <2>1
<1>. QED  BY <1>1, <1>2, <1>3, <1>4, <1>5

LEMMA ApartStep ==
    ASSUME RInv, [Next]_vars, NEW b \in Attempts, NEW c \in Attempts, b # c
    PROVE  Apart(b, c)'
<1>0. /\ TypeOK /\ restarts \in Nat /\ accepted[b] \in Nat /\ accepted[c] \in Nat
      /\ Guarded(b) /\ Guarded(c) /\ Ordered(b) /\ Ordered(c)
      /\ Apart(b, c)
  BY DEF RInv, IInv, TypeOK
<1> USE DEF Guarded, Apart, Holds, SameId
<1>1. ASSUME NEW a \in Attempts, Submit(a)  PROVE Apart(b, c)'
  BY <1>0, <1>1 DEF TypeOK, Submit, MaySubmit, Ordered, aiVars
<1>2. ASSUME NEW a \in Attempts, LoadEmbedding(a)  PROVE Apart(b, c)'
  BY <1>0, <1>2 DEF TypeOK, LoadEmbedding, Untouched, aiVars
<1>3. ASSUME NEW a \in Attempts, Verify(a)  PROVE Apart(b, c)'
  <2>1. CASE Admit(a)
    BY <1>0, <2>1 DEF TypeOK, Admit, Think, AiOnly
  <2>2. CASE Fetch(a)
    BY <1>0, <2>2 DEF TypeOK, Fetch, Think, AiOnly
  <2>3. CASE Score(a)
    BY <1>0, <2>3 DEF TypeOK, Score, Decide, Think, AiOnly
  <2>. QED  BY <1>3, <2>1, <2>2, <2>3 DEF Verify
<1>4. CASE RestartAi
  BY <1>0, <1>4 DEF TypeOK, RestartAi, Asking
<1>5. CASE /\ \A a \in Attempts : ~Submit(a) /\ ~LoadEmbedding(a) /\ ~Verify(a)
           /\ ~RestartAi
  <2>1. UNCHANGED <<body, ai, nonces, images, restarts, accepted>>
    BY <1>5, GuardsUntouched DEF RInv
  <2>. QED  BY <1>0, <2>1
<1>. QED  BY <1>1, <1>2, <1>3, <1>4, <1>5

THEOREM ReplayInvariance == Spec => []RInv
<1>1. Init /\ IInv => RInv
  BY DEF Init, RInv, Guarded, Apart, Holds, Decided
<1>2. RInv /\ IInv' /\ [Next]_vars => RInv'
  BY GuardedStep, ApartStep DEF RInv
<1>. QED  BY <1>1, <1>2, Invariance, PTL DEF Spec

\* As long as the AI service stays up, no selfie and no request id is recorded
\* twice.
THEOREM RecordedOnce == Spec => []UsedOnce
<1>1. RInv => UsedOnce
  <2> SUFFICES ASSUME RInv, NEW a \in Attempts, NEW b \in Attempts,
                      a # b, log[a] # "none", log[b] # "none",
                      body[a].photo = body[b].photo \/ SameId(a, b)
               PROVE  accepted[a] # accepted[b]
    BY DEF UsedOnce, SameId
  <2>1. ai[a] \in Decided
    BY DEF RInv, IInv, Earned, Decide, Decided
  <2>2. accepted[a] # 0 /\ Apart(a, b)
    BY <2>1 DEF RInv, Guarded
  <2>. QED  BY <2>2 DEF Apart
<1>. QED  BY <1>1, ReplayInvariance, PTL

-----------------------------------------------------------------------------
(* The refinement: what each step means to the ledger.                     *)

Settlements == [a \in Attempts |-> Settlement(a)]
Notices     == [a \in Attempts |-> Notice(a)]

\* How a step that concerns attempt a alone may settle it.
Settles(a) ==
    /\ Settlement(a) = "open"
    /\ Settlement(a)' \in {"approved", "flagged", "refused"}

LEMMA SettlingSteps ==
    ASSUME TInv, [Next]_vars, ~CrashBackend
    PROVE  \/ Settlements' = Settlements
           \/ \E a \in Attempts :
                 /\ Settles(a)
                 /\ Settlements' = [Settlements EXCEPT ![a] = Settlement(a)']
                 /\ client' = client
<1> DEFINE Stay == Settlements' = Settlements
           Move(a) == /\ Settles(a)
                      /\ Settlements' = [Settlements EXCEPT ![a] = Settlement(a)']
                      /\ client' = client
<1>0. /\ TypeOK
      /\ \A a \in Attempts : Established(a) /\ Ordered(a) /\ Answered(a)
  BY DEF TInv, IInv
<1>r. ASSUME NEW a \in Attempts, \A b \in Attempts \ {a} : Settlement(b)' = Settlement(b)
      PROVE  /\ Settlement(a)' = Settlement(a) => Stay
             /\ Settles(a) /\ client' = client => Move(a)
  BY <1>r DEF Settlements
<1> USE DEF Goto, Reply, Untouched, aiVars, hrVars
<1>1. ASSUME NEW a \in Attempts, Phone(a)  PROVE Stay
  BY <1>0, <1>1 DEF TypeOK, Phone, Submit, MaySubmit, ReadAnswer, GiveUp,
                    Settlements, Settlement, Ordered
<1>2. ASSUME NEW a \in Attempts, Handler(a) \/ Receive(a)  PROVE Stay \/ Move(a)
  <2>0. stage[a] \in Working \cup {"sent"}
    BY <1>2 DEF Receive, Handler, CheckLiveness, LoadUser, VerifyPin, CheckGeofence, LoadEmbedding,
                TakeVerdict, VerifyTimeout, RaiseAlert, WriteLog, Broadcast, Notify, Working
  <2>1. CASE WriteLog(a)
    <3>1. \A b \in Attempts \ {a} : Settlement(b)' = Settlement(b)
      BY <1>0, <2>1 DEF TypeOK, WriteLog, Settlement
    <3>2. ai[a] \in {"approved", "flagged"} /\ log[a] = "none"
      BY <1>0, <2>1 DEF WriteLog, Established, Ordered
    <3>3. Settles(a) /\ client' = client
      BY <1>0, <2>1, <3>2 DEF TypeOK, WriteLog, Settles, Settlement
    <3>. QED  BY <1>r, <3>1, <3>3
  <2>2. CASE ~WriteLog(a)
    <3>1. /\ log' = log /\ client' = client
          /\ \E s \in Stages \ {"unsent", "sent"} : stage' = [stage EXCEPT ![a] = s]
          /\ ai' = ai \/ (stage[a] = "embedding" /\ ai' = [ai EXCEPT ![a] = "admit"])
      BY <1>0, <1>2, <2>2
         DEF TypeOK, Receive, Handler, CheckLiveness, LoadUser, VerifyPin, CheckGeofence,
             LoadEmbedding, TakeVerdict, VerifyTimeout, RaiseAlert, Broadcast, Notify, Working, Stages
    <3>2. \A b \in Attempts \ {a} : Settlement(b)' = Settlement(b)
      BY <1>0, <3>1 DEF TypeOK, Settlement
    <3>3. Settlement(a)' = Settlement(a) \/ Settles(a)
      BY <1>0, <2>0, <3>1 DEF TypeOK, Settlement, Settles, Ordered, Working
    <3>. QED  BY <1>r, <3>1, <3>2, <3>3
  <2>. QED  BY <2>1, <2>2
<1>3. ASSUME NEW a \in Attempts, Verify(a)  PROVE Stay
  <2>1. /\ log' = log /\ stage' = stage
        /\ ai[a] \in Asking /\ \A b \in Attempts \ {a} : ai'[b] = ai[b]
    BY <1>0, <1>3 DEF TypeOK, Verify, Admit, Fetch, Score, AiOnly, Think, Asking
  <2>2. \A b \in Attempts : log[b] # "none" => ai[b] \notin Asking
    BY DEF TInv, IInv, Earned, Decide, Asking
  <2>. QED  BY <2>1, <2>2 DEF Settlements, Settlement
<1>4. ASSUME NEW a \in Attempts, Review(a)  PROVE Stay
  BY <1>0, <1>4 DEF TypeOK, Review, Settlements, Settlement
<1>5. CASE RestartAi
  <2>1. \A b \in Attempts : log[b] # "none" => ai[b] \notin Asking
    BY DEF TInv, IInv, Earned, Decide, Asking
  <2>. QED  BY <1>5, <2>1 DEF RestartAi, Settlements, Settlement
<1>6. CASE Deactivate \/ UNCHANGED vars
  BY <1>6 DEF Deactivate, vars, Settlements, Settlement
<1>. QED  BY <1>1, <1>2, <1>3, <1>4, <1>5, <1>6 DEF Next

\* Only the phone tells the employee anything, and what it tells has grounds.
LEMMA TellingSteps ==
    ASSUME TInv, [Next]_vars
    PROVE  \/ Notices' = Notices
           \/ \E a \in Attempts :
                 /\ Notice(a) = "nothing"
                 /\ \E n \in Ledger!Notices \ {"nothing"} :
                       /\ Settlement(a) \in Ledger!Grounds(n)
                       /\ Notices' = [Notices EXCEPT ![a] = n]
                 /\ Settlements' = Settlements
<1>0. TypeOK /\ \A a \in Attempts : Answered(a) /\ Ordered(a)
  BY DEF TInv, IInv
<1>1. \A a \in Attempts : Settlement(a) \in Ledger!Settlements
  <2>1. \A a \in Attempts : log[a] # "none" => ai[a] \in {"approved", "flagged"}
    BY DEF TInv, IInv, Earned, Decide
  <2>. QED  BY <2>1 DEF Settlement, Ledger!Settlements
<1>2. ASSUME NEW a \in Attempts, Submit(a)  PROVE Notices' = Notices
  BY <1>0, <1>2 DEF TypeOK, Submit, MaySubmit, Notices, Notice
<1>3. ASSUME NEW a \in Attempts, ReadAnswer(a) \/ GiveUp(a)
      PROVE  /\ Notice(a) = "nothing"
             /\ Settlements' = Settlements
             /\ \E n \in Ledger!Notices \ {"nothing"} :
                   /\ Settlement(a) \in Ledger!Grounds(n)
                   /\ Notices' = [Notices EXCEPT ![a] = n]
  <2>1. Notice(a) = "nothing" /\ Settlements' = Settlements
    BY <1>0, <1>3 DEF ReadAnswer, GiveUp, Notice, Settlements, Settlement
  <2>2. PICK screen \in Screens \ {"idle", "waiting"} :
          /\ client' = [client EXCEPT ![a] = screen]
          /\ screen = "recorded" => log[a] # "none" /\ ai[a] = "approved"
          /\ screen = "review" => log[a] # "none" /\ ai[a] = "flagged"
          /\ screen = "refused" => log[a] = "none" /\ stage[a] = "answered"
    BY <1>0, <1>3 DEF ReadAnswer, GiveUp, Interpret, Answered, Screens
  <2> DEFINE n == IF screen \in {"server_error", "network_error"} THEN "unknown" ELSE screen
  <2>3. n \in Ledger!Notices \ {"nothing"}
    BY DEF Ledger!Notices, Screens
  <2>4. Settlement(a) \in Ledger!Grounds(n)
    BY <1>1, <2>2 DEF Settlement, Ledger!Grounds, Screens
  <2>5. Notices' = [Notices EXCEPT ![a] = n]
    BY <1>0, <2>2 DEF TypeOK, Notices, Notice, Screens
  <2>. QED  BY <2>1, <2>3, <2>4, <2>5
<1>4. ASSUME client' = client  PROVE Notices' = Notices
  BY <1>4 DEF Notices, Notice
<1>5. ASSUME NEW a \in Attempts, Handler(a) \/ Verify(a) \/ Receive(a) \/ Review(a)
      PROVE  client' = client
  BY <1>5 DEF Handler, CheckLiveness, LoadUser, VerifyPin, CheckGeofence, LoadEmbedding,
              TakeVerdict, VerifyTimeout, RaiseAlert, WriteLog, Broadcast, Notify, Untouched,
              Verify, Admit, Fetch, Score, AiOnly, Receive, Review
<1>6. CASE RestartAi \/ CrashBackend \/ Deactivate \/ UNCHANGED vars
  BY <1>4, <1>6 DEF RestartAi, CrashBackend, Deactivate, vars
<1>. QED  BY <1>2, <1>3, <1>4, <1>5, <1>6 DEF Next, Phone

\* The check-in path implements the ledger: settled once, and told truly.
THEOREM CheckinImplementsLedger == Spec => ImplementsLedger
<1>1. Init => Ledger!LedgerInit
  BY DEF Init, Ledger!LedgerInit, Settlement, Notice
<1>2. TInv /\ [Next]_vars => [Ledger!LedgerNext]_(Ledger!ledger)
  <2> SUFFICES ASSUME TInv, [Next]_vars  PROVE [Ledger!LedgerNext]_(Ledger!ledger)
    OBVIOUS
  <2>1. CASE CrashBackend
    <3> DEFINE S == {a \in Attempts : Settlement(a) = "open" /\ Settlement(a)' = "refused"}
    <3>1. UNCHANGED <<log, ai, client>> /\ \A a \in Attempts : log[a] # "none" \/ a \in S
                                            \/ Settlement(a)' = Settlement(a)
      BY <2>1 DEF CrashBackend, Working, TInv, IInv, TypeOK, Settlement
    <3>2. Settlements' = [a \in Attempts |-> IF a \in S THEN "refused" ELSE Settlement(a)]
      BY <3>1 DEF Settlements, Settlement
    <3>3. Notices' = Notices
      BY <3>1 DEF Notices, Notice
    <3>. QED  BY <3>2, <3>3 DEF Settlements, Notices, Ledger!LedgerNext, Ledger!Abandon
  <2>2. CASE ~CrashBackend
    <3>1. CASE Settlements' = Settlements /\ Notices' = Notices
      BY <3>1 DEF Settlements, Notices, Ledger!ledger
    <3>2. CASE Notices' # Notices
      <4>1. \E a \in Attempts : Ledger!Tell(a)
        BY <3>2, TellingSteps DEF Settlements, Notices, Ledger!Tell
      <4>. QED  BY <4>1 DEF Ledger!LedgerNext
    <3>3. CASE Settlements' # Settlements
      <4>1. PICK a \in Attempts :
              /\ Settles(a)
              /\ Settlements' = [Settlements EXCEPT ![a] = Settlement(a)']
              /\ client' = client
        BY <2>2, <3>3, SettlingSteps
      <4>2. Notices' = Notices
        BY <4>1 DEF Notices, Notice
      <4>3. Ledger!Settle(a)
        BY <4>1, <4>2 DEF Settles, Settlements, Notices, Ledger!Settle
      <4>. QED  BY <4>3 DEF Ledger!LedgerNext
    <3>. QED  BY <3>1, <3>2, <3>3
  <2>. QED  BY <2>1, <2>2
<1>. QED  BY <1>1, <1>2, ToldInvariance, PTL DEF Spec, ImplementsLedger, Ledger!Spec
=============================================================================
