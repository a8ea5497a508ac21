------------------------------- MODULE RateMeter -------------------------------
(***************************************************************************)
(* The per-employee request rate of the AI service: check_rate             *)
(* (app/security/guards.py) over SlidingWindowRateLimiter                  *)
(* (app/security/stores.py).  allow() reads the clock before it takes the  *)
(* mutex, so readings may be recorded out of order.                        *)
(***************************************************************************)
EXTENDS Integers, Sequences, FiniteSets, LruDict

CONSTANTS
    MeteredUsers,  \* employees: user_ref
    MeterSlots,    \* threads of the pool
    RateLimit,     \* settings.rate_limit_per_min
    RateWindow,    \* window_s
    MaxMeters,     \* max_keys
    MeterStall,    \* bound: the longest wait for the mutex
    MeterMaxTime   \* bound on the clock, for model checking

ASSUME MeterAssumption ==
    /\ RateLimit \in Nat /\ RateWindow \in Nat /\ MaxMeters \in Nat \ {0}
    /\ MeterStall \in Nat /\ MeterMaxTime \in Nat

VARIABLES
    clock,    \* time.monotonic
    waiting,  \* what each thread wants counted: <<>>, or <<employee, reading>>
    meters,   \* keys of _hits, least recently used first
    hits,     \* its values: the readings of each employee's requests
    allowed   \* ghost: when requests were let through since the meter was made

rateVars == <<clock, waiting, meters, hits, allowed>>

RateTypeOK ==
    /\ clock \in Nat
    /\ waiting \in [MeterSlots -> (MeteredUsers \X Nat) \cup {<<>>}]
    /\ meters \in Seq(MeteredUsers)
    /\ hits \in [MeteredUsers -> Seq(Nat)]
    /\ allowed \in [MeteredUsers -> Seq(Nat)]

RateInit ==
    /\ clock = 0
    /\ waiting = [s \in MeterSlots |-> <<>>]
    /\ meters = <<>>
    /\ hits = [u \in MeteredUsers |-> <<>>]
    /\ allowed = [u \in MeteredUsers |-> <<>>]

\* allow(u) reads the clock.
CheckRate(s, u) ==
    /\ waiting[s] = <<>>
    /\ waiting' = [waiting EXCEPT ![s] = <<u, clock>>]
    /\ UNCHANGED <<clock, meters, hits, allowed>>

\* Mutation: a hit ages by the longest wait for the mutex, not the window.
StillCountedShort(readings, t) ==
    LET gone == {i \in 1..Len(readings) :
                    \A j \in 1..i : readings[j] + MeterStall <= t}
    IN  SubSeq(readings, Cardinality(gone) + 1, Len(readings))

\* while hits and hits[0] <= now - window: popleft().
StillCounted(readings, t) ==
    LET gone == {i \in 1..Len(readings) :
                    \A j \in 1..i : readings[j] + RateWindow <= t}
    IN  SubSeq(readings, Cardinality(gone) + 1, Len(readings))

\* allow() under the mutex, on the clock as it was read.
Allow(s) ==
    LET u    == waiting[s][1]
        t    == waiting[s][2]
        gone == Evicted(meters, u, MaxMeters)
        live == StillCounted(hits[u], t)
        Kept(f) == [v \in MeteredUsers |-> IF v \in gone THEN <<>> ELSE f[v]]
    IN
    /\ waiting[s] # <<>>
    /\ meters' = Used(meters, u, MaxMeters)
    /\ \/ /\ Len(live) >= RateLimit
          /\ hits' = [Kept(hits) EXCEPT ![u] = live]
          /\ allowed' = Kept(allowed)
       \/ /\ Len(live) < RateLimit
          /\ hits' = [Kept(hits) EXCEPT ![u] = Append(live, t)]
          /\ allowed' = [Kept(allowed) EXCEPT ![u] = Append(@, clock)]
    /\ waiting' = [waiting EXCEPT ![s] = <<>>]
    /\ UNCHANGED clock

\* Time passes; nobody waits for the mutex longer than MeterStall.
RateTick ==
    /\ clock < MeterMaxTime
    /\ \A s \in MeterSlots : waiting[s] # <<>> => clock < waiting[s][2] + MeterStall
    /\ clock' = clock + 1
    /\ UNCHANGED <<waiting, meters, hits, allowed>>

RateNext ==
    \/ \E s \in MeterSlots, u \in MeteredUsers : CheckRate(s, u)
    \/ \E s \in MeterSlots : Allow(s)
    \/ RateTick

RateSpec == RateInit /\ [][RateNext]_rateVars

-----------------------------------------------------------------------------
\* In any stretch of the window less the wait for the mutex, at most
\* RateLimit requests of one employee are let through: readings recorded out
\* of order cost the limiter that wait and no more.
RateHeld ==
    \A u \in MeteredUsers : \A i, j \in 1..Len(allowed[u]) :
        (i <= j /\ allowed[u][j] - allowed[u][i] < RateWindow - MeterStall)
            => j - i < RateLimit
=============================================================================
