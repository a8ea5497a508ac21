------------------------------ MODULE NonceStore ------------------------------
(***************************************************************************)
(* Freshness and single use of a check-in request in the AI service:       *)
(* check_freshness and check_request_id (app/security/guards.py) over      *)
(* InMemoryTTLStore (app/security/stores.py).  Checkin takes the store as  *)
(* an ever-growing set; here entries expire and are evicted.               *)
(*                                                                         *)
(* Requests run on a thread pool.  The store reads its clock before it     *)
(* takes its mutex, so the reading and the critical section are two        *)
(* actions.  datetime.now and time.monotonic are one clock here.           *)
(***************************************************************************)
EXTENDS Integers, Sequences, FiniteSets, LruDict

CONSTANTS
    RequestIds,    \* ULIDs
    Bodies,        \* the requests that may arrive, each any number of times
    Slots,         \* threads of the pool
    MaxSkew,       \* settings.max_clock_skew_s
    NonceTtl,      \* settings.nonce_ttl_s
    MaxNonces,     \* InMemoryTTLStore max_entries
    Stall,         \* bound: the longest other threads hold a request up
    MaxTime        \* bound on the clock, for model checking

ASSUME BodiesAssumption == Bodies \subseteq [id : RequestIds, captured : Nat]
ASSUME NonceNumbersAssumption ==
    /\ MaxSkew \in Nat /\ NonceTtl \in Nat /\ MaxNonces \in Nat
    /\ Stall \in Nat /\ MaxTime \in Nat
\* True of the defaults (600 and 120), not enforced by Settings.
ASSUME TtlAssumption == NonceTtl > 2 * MaxSkew + Stall

VARIABLES
    now,      \* the clock
    serving,  \* the bodies in the guards, by thread; <<>> for an idle thread
    checked,  \* when the thread found its body fresh
    read,     \* the store's clock reading; -1 before it is taken
    nonces,   \* keys of the store, oldest insertion first
    expires,  \* its values; 0 for an absent key
    passes    \* ghost: how often each body passed since max_entries last
              \* evicted its id before it expired

nonceVars == <<now, serving, checked, read, nonces, expires, passes>>

Idle == <<>>

NonceTypeOK ==
    /\ now \in Nat
    /\ serving \in [Slots -> Bodies \cup {Idle}]
    /\ checked \in [Slots -> Nat]
    /\ read \in [Slots -> Nat \cup {-1}]
    /\ nonces \in Seq(RequestIds)
    /\ expires \in [RequestIds -> Nat]
    /\ passes \in [Bodies -> Nat]

NonceInit ==
    /\ now = 0
    /\ serving = [s \in Slots |-> Idle]
    /\ checked = [s \in Slots |-> 0]
    /\ read = [s \in Slots |-> -1]
    /\ nonces = <<>>
    /\ expires = [i \in RequestIds |-> 0]
    /\ passes = [b \in Bodies |-> 0]

\* Mutation: only a capture that is too old is refused.
FreshPastOnly(b) == now <= b.captured + MaxSkew

\* abs(now - captured_at) <= max_clock_skew_s.
Fresh(b) == now <= b.captured + MaxSkew /\ b.captured <= now + MaxSkew

\* A fresh request enters (a stale one changes nothing here).
Enter(s, b) ==
    /\ serving[s] = Idle
    /\ Fresh(b)
    /\ serving' = [serving EXCEPT ![s] = b]
    /\ checked' = [checked EXCEPT ![s] = now]
    /\ UNCHANGED <<now, read, nonces, expires, passes>>

\* add_if_absent reads the clock.
ReadClock(s) ==
    /\ serving[s] # Idle
    /\ read[s] = -1
    /\ read' = [read EXCEPT ![s] = now]
    /\ UNCHANGED <<now, serving, checked, nonces, expires, passes>>

\* _purge_locked, first loop: pop the front while it has expired.
Unexpired(t) ==
    LET popped == {i \in 1..Len(nonces) : \A j \in 1..i : expires[nonces[j]] <= t}
    IN  SubSeq(nonces, Cardinality(popped) + 1, Len(nonces))

\* Mutation: the second loop is left out.
PurgedOfExpired(t) == Unexpired(t)

\* _purge_locked, second loop: pop the front while over max_entries.
Purged(t) ==
    LET live == Unexpired(t)
        over == IF Len(live) > MaxNonces THEN Len(live) - MaxNonces ELSE 0
    IN  SubSeq(live, over + 1, Len(live))

\* add_if_absent under the mutex, on the clock as it was read; a seen id is
\* REPLAY_DETECTED, a new one is stored and its request goes on.
AddIfAbsent(s) ==
    LET b    == serving[s]
        t    == read[s]
        kept == Purged(t)
        left == [i \in RequestIds |-> IF i \in Keys(kept) THEN expires[i] ELSE 0]
        lost == Keys(Unexpired(t)) \ Keys(kept)
        past == [c \in Bodies |-> IF c.id \in lost THEN 0 ELSE passes[c]]
    IN
    /\ b # Idle /\ t # -1
    /\ \/ /\ b.id \in Keys(kept) /\ expires[b.id] > t
          /\ nonces' = kept
          /\ expires' = left
          /\ passes' = past
       \/ /\ ~(b.id \in Keys(kept) /\ expires[b.id] > t)
          /\ nonces' = MoveToEnd(kept, b.id)
          /\ expires' = [left EXCEPT ![b.id] = t + NonceTtl]
          /\ passes' = [past EXCEPT ![b] = @ + 1]
    /\ serving' = [serving EXCEPT ![s] = Idle]
    /\ checked' = [checked EXCEPT ![s] = 0]
    /\ read' = [read EXCEPT ![s] = -1]
    /\ UNCHANGED now

\* Mutation: a clock that may be set back.
NonceTickWallClock ==
    /\ now < MaxTime
    /\ now' \in {now - 1, now + 1}
    /\ UNCHANGED <<serving, checked, read, nonces, expires, passes>>

\* Time passes; nobody is held up between the guards for longer than Stall.
NonceTick ==
    /\ now < MaxTime
    /\ \A s \in Slots : serving[s] # Idle => now < checked[s] + Stall
    /\ now' = now + 1
    /\ UNCHANGED <<serving, checked, read, nonces, expires, passes>>

NonceNext ==
    \/ \E s \in Slots, b \in Bodies : Enter(s, b)
    \/ \E s \in Slots : ReadClock(s) \/ AddIfAbsent(s)
    \/ NonceTick

NonceSpec == NonceInit /\ [][NonceNext]_nonceVars

-----------------------------------------------------------------------------
\* check_request_id "enforces single use of a request id".  A request sent
\* again unchanged is never served twice, although ids expire, unless
\* max_entries pushed its id out in between: an id outlives the freshness of its
\* capture, however the threads interleave.
RequestServedOnce == \A b \in Bodies : passes[b] <= 1

\* The store trims before it inserts, so it may hold one entry more than
\* max_entries; it never holds an id twice.
NoncesBounded == Len(nonces) <= MaxNonces + 1 /\ Distinct(nonces)
=============================================================================
