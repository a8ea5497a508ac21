------------------------------ MODULE PinLockout ------------------------------
(***************************************************************************)
(* PIN verification in the AI service: LockoutPolicy                       *)
(* (app/security/lockout.py), a bounded per-employee failure counter behind *)
(* a mutex, used by PinService.verify_pin (app/services/pin_service.py).   *)
(*                                                                         *)
(* The endpoint is a plain `def`, so FastAPI runs requests concurrently on *)
(* its thread pool.  verify_pin takes the mutex twice: once to read the    *)
(* standing, once to record the outcome, with the slow bcrypt comparison   *)
(* between the two.  Each critical section is one action here.             *)
(***************************************************************************)
EXTENDS Naturals, Sequences, FiniteSets, LruDict

CONSTANTS
    Users,           \* employees: the `user_ref` keys
    Requests,        \* thread-pool slots, each serving one verify_pin at a time
    MaxAttempts,     \* settings.pin_max_attempts
    LockoutSeconds,  \* settings.pin_lockout_seconds
    MaxKeys,         \* LockoutPolicy max_keys
    MaxTime          \* bound on the clock, for model checking

ASSUME UsersAssumption    == Users # {}
ASSUME RequestsAssumption == IsFiniteSet(Requests) /\ Requests # {}
ASSUME BudgetAssumption   == MaxAttempts \in Nat \ {0} /\ LockoutSeconds \in Nat \ {0}
ASSUME BoundsAssumption   == MaxKeys \in Nat \ {0} /\ MaxTime \in Nat

VARIABLES
    now,      \* the monotonic clock
    recency,  \* keys of _state, least recently used first
    fails,    \* first half of an entry; 0 for an absent key
    until,    \* second half of an entry: 0, or when the lockout ends
    phase,    \* progress of the request in each slot
    account,  \* the employee each slot serves (or served last)
    spent     \* ghost: wrong comparisons made since the budget was last whole

vars == <<now, recency, fails, until, phase, account, spent>>

Phases == {"idle", "admitted", "matched", "mismatched"}

TypeOK ==
    /\ now \in Nat
    /\ recency \in Seq(Users)
    /\ fails \in [Users -> Nat]
    /\ until \in [Users -> Nat]
    /\ phase \in [Requests -> Phases]
    /\ account \in [Requests -> Users]
    /\ spent \in [Users -> Nat]

Init ==
    /\ now = 0
    /\ recency = <<>>
    /\ fails = [u \in Users |-> 0]
    /\ until = [u \in Users |-> 0]
    /\ phase = [r \in Requests |-> "idle"]
    /\ account = [r \in Requests |-> CHOOSE u \in Users : TRUE]
    /\ spent = [u \in Users |-> 0]

Locked(u) == until[u] > now

-----------------------------------------------------------------------------
\* Mutation: the dictionary is never trimmed.
StoreUntrimmed(u, f, t) ==
    /\ recency' = MoveToEnd(recency, u)
    /\ fails' = [fails EXCEPT ![u] = f]
    /\ until' = [until EXCEPT ![u] = t]

\* _touch_locked(u), after which the entry of u becomes (f, t).  Keys pushed
\* out of the dictionary lose their entry, and with it their history.
Store(u, f, t) ==
    LET dropped == Evicted(recency, u, MaxKeys) IN
    /\ recency' = Used(recency, u, MaxKeys)
    /\ fails' = [v \in Users |-> IF v = u THEN f ELSE IF v \in dropped THEN 0 ELSE fails[v]]
    /\ until' = [v \in Users |-> IF v = u THEN t ELSE IF v \in dropped THEN 0 ELSE until[v]]

\* The ghost after Store: an evicted entry gives its employee a whole budget.
SpentAfterStore(u, n) ==
    spent' = [v \in Users |->
                IF v = u THEN n
                ELSE IF v \in Evicted(recency, u, MaxKeys) THEN 0 ELSE spent[v]]

\* Mutation: the standing is read but a lockout is not acted on.
VerifyPinUnchecked(r, u) ==
    /\ phase[r] = "idle"
    /\ account' = [account EXCEPT ![r] = u]
    /\ phase' = [phase EXCEPT ![r] = "admitted"]
    /\ Store(u, fails[u], until[u])
    /\ SpentAfterStore(u, spent[u])
    /\ UNCHANGED now

\* Mutation: a request refused by the lockout starts it over.
VerifyPinRenewing(r, u) ==
    /\ phase[r] = "idle"
    /\ account' = [account EXCEPT ![r] = u]
    /\ \/ /\ Locked(u)
          /\ Store(u, fails[u], now + LockoutSeconds)
          /\ SpentAfterStore(u, spent[u])
          /\ UNCHANGED phase
       \/ /\ ~Locked(u)
          /\ Store(u, IF until[u] = 0 THEN fails[u] ELSE 0, 0)
          /\ SpentAfterStore(u, IF until[u] = 0 THEN spent[u] ELSE 0)
          /\ phase' = [phase EXCEPT ![r] = "admitted"]
    /\ UNCHANGED now

\* A verify_pin call arrives and reads the standing: LockoutPolicy.status.
\* While locked it is answered RATE_LIMITED at once; an expired lockout is
\* reset on read.
VerifyPin(r, u) ==
    /\ phase[r] = "idle"
    /\ account' = [account EXCEPT ![r] = u]
    /\ \/ /\ Locked(u)
          /\ Store(u, fails[u], until[u])
          /\ SpentAfterStore(u, spent[u])
          /\ UNCHANGED phase
       \/ /\ ~Locked(u)
          /\ until[u] # 0
          /\ Store(u, 0, 0)
          /\ SpentAfterStore(u, 0)
          /\ phase' = [phase EXCEPT ![r] = "admitted"]
       \/ /\ ~Locked(u)
          /\ until[u] = 0
          /\ Store(u, fails[u], 0)
          /\ SpentAfterStore(u, spent[u])
          /\ phase' = [phase EXCEPT ![r] = "admitted"]
    /\ UNCHANGED now

\* pinmod.verify_pin: the bcrypt comparison, outside any lock.  Whether the
\* submitted PIN is the right one was decided by its sender.
ComparePin(r) ==
    /\ phase[r] = "admitted"
    /\ \/ /\ phase' = [phase EXCEPT ![r] = "matched"]
          /\ UNCHANGED spent
       \/ /\ phase' = [phase EXCEPT ![r] = "mismatched"]
          /\ spent' = [spent EXCEPT ![account[r]] = @ + 1]
    /\ UNCHANGED <<now, recency, fails, until, account>>

\* Mutation: a right PIN takes one failure back instead of clearing them.
RegisterSuccessGivingBack(r) ==
    LET u == account[r] IN
    /\ phase[r] = "matched"
    /\ phase' = [phase EXCEPT ![r] = "idle"]
    /\ fails' = [fails EXCEPT ![u] = @ - 1]
    /\ UNCHANGED <<now, recency, until, account, spent>>

\* LockoutPolicy.register_success: the entry is dropped, whatever it says by now.
RegisterSuccess(r) ==
    LET u == account[r] IN
    /\ phase[r] = "matched"
    /\ phase' = [phase EXCEPT ![r] = "idle"]
    /\ recency' = Without(recency, u)
    /\ fails' = [fails EXCEPT ![u] = 0]
    /\ until' = [until EXCEPT ![u] = 0]
    /\ spent' = [spent EXCEPT ![u] = 0]
    /\ UNCHANGED <<now, account>>

\* Mutation: the lock comes one failure too late.
RegisterFailureLate(r) ==
    LET u == account[r]
        n == fails[u] + 1 IN
    /\ phase[r] = "mismatched"
    /\ phase' = [phase EXCEPT ![r] = "idle"]
    /\ \/ Locked(u) /\ Store(u, fails[u], until[u])
       \/ ~Locked(u) /\ n > MaxAttempts /\ Store(u, n, now + LockoutSeconds)
       \/ ~Locked(u) /\ n <= MaxAttempts /\ Store(u, n, 0)
    /\ SpentAfterStore(u, spent[u])
    /\ UNCHANGED <<now, account>>

\* Mutation: a failure counts, and locks anew, while a lockout is running.
RegisterFailureRelocking(r) ==
    LET u == account[r]
        n == fails[u] + 1 IN
    /\ phase[r] = "mismatched"
    /\ phase' = [phase EXCEPT ![r] = "idle"]
    /\ Store(u, n, IF n >= MaxAttempts THEN now + LockoutSeconds ELSE 0)
    /\ SpentAfterStore(u, spent[u])
    /\ UNCHANGED <<now, account>>

\* LockoutPolicy.register_failure: nothing more to count while locked,
\* otherwise one more failure, and a lockout when the budget is spent.
RegisterFailure(r) ==
    LET u == account[r]
        n == fails[u] + 1 IN
    /\ phase[r] = "mismatched"
    /\ phase' = [phase EXCEPT ![r] = "idle"]
    /\ \/ Locked(u) /\ Store(u, fails[u], until[u])
       \/ ~Locked(u) /\ n >= MaxAttempts /\ Store(u, n, now + LockoutSeconds)
       \/ ~Locked(u) /\ n < MaxAttempts /\ Store(u, n, 0)
    /\ SpentAfterStore(u, spent[u])
    /\ UNCHANGED <<now, account>>

Tick ==
    /\ now < MaxTime
    /\ now' = now + 1
    /\ UNCHANGED <<recency, fails, until, phase, account, spent>>

Next ==
    \/ \E r \in Requests, u \in Users : VerifyPin(r, u)
    \/ \E r \in Requests : ComparePin(r) \/ RegisterSuccess(r) \/ RegisterFailure(r)
    \/ Tick

Spec == Init /\ [][Next]_vars

\* Time passes, and a thread that entered verify_pin runs to its end.
Fairness ==
    /\ WF_vars(Tick)
    /\ \A r \in Requests : WF_vars(ComparePin(r) \/ RegisterSuccess(r) \/ RegisterFailure(r))

FairSpec == Spec /\ Fairness

-----------------------------------------------------------------------------
\* The race between reading the standing and recording the outcome costs at
\* most one extra guess per other concurrent request: no employee's budget is
\* ever overspent by more than the number of threads minus one.
OverspendBounded ==
    \A u \in Users : spent[u] <= MaxAttempts + Cardinality(Requests) - 1

\* A lockout lasts at most LockoutSeconds from any moment it is looked at, and
\* an employee has one exactly when the recorded failures exhaust the budget;
\* so an unlocked standing always reports at least one attempt left.
LockMatchesBudget ==
    \A u \in Users :
        /\ until[u] <= now + LockoutSeconds
        /\ until[u] # 0 <=> fails[u] >= MaxAttempts

\* The dictionary stays within max_keys, holds no key twice, and a key it does
\* not hold has no failures: bounded memory loses history, never invents it.
StoreBounded ==
    /\ Len(recency) <= MaxKeys
    /\ Distinct(recency)
    /\ \A u \in Users : u \notin Keys(recency) => fails[u] = 0 /\ until[u] = 0

\* While an employee is locked the deadline never moves: more failures, by any
\* number of concurrent requests, neither extend nor shorten it.  The entry can
\* only be dropped whole, by a right PIN admitted before the lock or by eviction.
LockedDeadlineFixed ==
    [][\A u \in Users :
         Locked(u) /\ until'[u] # until[u] =>
            /\ until'[u] = 0
            /\ fails'[u] = 0
            /\ \/ \E r \in Requests : phase[r] = "matched" /\ account[r] = u
               \/ Head(recency) = u /\ Len(recency) = MaxKeys]_vars

\* The lock expires on its own, whatever requests keep arriving meanwhile.
LockExpires ==
    \A u \in Users : (Locked(u) /\ until[u] <= MaxTime) ~> ~Locked(u)

\* pin_service.py says the counter and the comparison are kept together so
\* that concurrent attempts cannot spend one budget twice.
BudgetSpentOnce == \A u \in Users : spent[u] <= MaxAttempts
=============================================================================
