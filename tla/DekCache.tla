------------------------------- MODULE DekCache -------------------------------
(***************************************************************************)
(* The data keys of the AI service under AWS KMS: AwsKmsKeyProvider and    *)
(* its _DekCache (app/crypto/keyproviders.py).  A data key is minted and   *)
(* unwrapped by KMS as long as the service's grant stands, and cached in   *)
(* plaintext.  The cache reads its clock outside its mutex, and put()      *)
(* reads it only after KMS's answer has arrived; other threads run, and    *)
(* KMS decides, between any two steps of a call.                           *)
(***************************************************************************)
EXTENDS Integers, Sequences, LruDict

CONSTANTS
    Deks,        \* wrapped data keys, each with its encryption context
    Callers,     \* threads of the pool
    CacheTtl,    \* settings.kms_dek_cache_ttl_s
    MaxDeks,     \* _DekCache max_entries
    CallStall,   \* bound: the longest between two steps of a call
    DekMaxTime   \* bound on the clock, for model checking

ASSUME DekNumbersAssumption ==
    /\ CacheTtl \in Nat /\ MaxDeks \in Nat
    /\ CallStall \in Nat /\ DekMaxTime \in Nat

VARIABLES
    time,     \* time.monotonic
    granted,  \* KMS lets the service use the master key
    revoked,  \* when the grant was last withdrawn
    cached,   \* keys of the cache, least recently used first
    goodTill, \* its expiry times; 0 for an absent key
    call,     \* each thread's call: the step it is at, its key, and the time of
              \* its last step, which is the clock reading it holds
    opened    \* ghost: the calls that returned a key while the grant was
              \* withdrawn, as times

dekVars == <<time, granted, revoked, cached, goodTill, call, opened>>

NoCall == <<>>
\* get() has read the clock, the request is under way to KMS, KMS has granted
\* it, put() has read the clock.
Steps == {"lookup", "kms", "answer", "store"}

DekTypeOK ==
    /\ time \in Nat /\ revoked \in Nat
    /\ granted \in BOOLEAN
    /\ cached \in Seq(Deks)
    /\ goodTill \in [Deks -> Nat]
    /\ call \in [Callers -> (Steps \X Deks \X Nat) \cup {NoCall}]
    /\ opened \subseteq Nat

DekInit ==
    /\ time = 0 /\ revoked = 0
    /\ granted = TRUE
    /\ cached = <<>>
    /\ goodTill = [d \in Deks |-> 0]
    /\ call = [c \in Callers |-> NoCall]
    /\ opened = {}

\* The call of c returns the plaintext.
Return(c) ==
    /\ call' = [call EXCEPT ![c] = NoCall]
    /\ opened' = IF granted THEN opened ELSE opened \cup {time}

\* data_key_for_decrypt: _DekCache.get reads the clock.
Unwrap(c, d) ==
    /\ call[c] = NoCall
    /\ call' = [call EXCEPT ![c] = <<"lookup", d, time>>]
    /\ UNCHANGED <<time, granted, revoked, cached, goodTill, opened>>

\* Mutation: an entry is returned however old it is.
LookupStale(c, d, t) ==
    /\ call[c] = <<"lookup", d, t>>
    /\ \/ /\ d \in Keys(cached)
          /\ cached' = MoveToEnd(cached, d)
          /\ Return(c)
       \/ /\ d \notin Keys(cached)
          /\ call' = [call EXCEPT ![c] = <<"kms", d, time>>]
          /\ UNCHANGED <<cached, opened>>
    /\ UNCHANGED <<time, granted, revoked, goodTill>>

\* get() under the mutex: an expired entry is removed, a live one returned.
Lookup(c, d, t) ==
    /\ call[c] = <<"lookup", d, t>>
    /\ \/ /\ d \in Keys(cached) /\ goodTill[d] > t
          /\ cached' = MoveToEnd(cached, d)
          /\ Return(c)
          /\ UNCHANGED goodTill
       \/ /\ ~(d \in Keys(cached) /\ goodTill[d] > t)
          /\ cached' = Without(cached, d)
          /\ goodTill' = [goodTill EXCEPT ![d] = 0]
          /\ call' = [call EXCEPT ![c] = <<"kms", d, time>>]
          /\ UNCHANGED opened
    /\ UNCHANGED <<time, granted, revoked>>

\* data_key_for_encrypt asks KMS for a fresh data key.
Mint(c, d) ==
    /\ call[c] = NoCall
    /\ call' = [call EXCEPT ![c] = <<"kms", d, time>>]
    /\ UNCHANGED <<time, granted, revoked, cached, goodTill, opened>>

\* KMS decides a Decrypt or GenerateDataKey as the grant now stands; a request
\* that is refused, or lost on the way, is a KeyUnavailableError.
KmsDecides(c, d, t) ==
    /\ call[c] = <<"kms", d, t>>
    /\ \/ granted /\ call' = [call EXCEPT ![c] = <<"answer", d, time>>]
       \/ call' = [call EXCEPT ![c] = NoCall]
    /\ UNCHANGED <<time, granted, revoked, cached, goodTill, opened>>

\* The answer has arrived and put() reads the clock, which times the entry
\* from now and not from KMS's decision.
KmsAnswers(c, d, t) ==
    /\ call[c] = <<"answer", d, t>>
    /\ call' = [call EXCEPT ![c] = <<"store", d, time>>]
    /\ UNCHANGED <<time, granted, revoked, cached, goodTill, opened>>

\* put() under the mutex, on the clock as it was read.
Store(c, d, t) ==
    /\ call[c] = <<"store", d, t>>
    /\ cached' = Used(cached, d, MaxDeks)
    /\ goodTill' = [e \in Deks |-> IF e \in Evicted(cached, d, MaxDeks) THEN 0
                                   ELSE IF e = d THEN t + CacheTtl ELSE goodTill[e]]
    /\ Return(c)
    /\ UNCHANGED <<time, granted, revoked>>

\* The operator withdraws the service's grant, or gives it back.
Revoke ==
    /\ granted
    /\ granted' = FALSE
    /\ revoked' = time
    /\ opened' = {}
    /\ UNCHANGED <<time, cached, goodTill, call>>

Regrant ==
    /\ ~granted
    /\ granted' = TRUE
    /\ opened' = {}
    /\ UNCHANGED <<time, revoked, cached, goodTill, call>>

DekTick ==
    /\ time < DekMaxTime
    /\ \A c \in Callers : call[c] # NoCall => time < call[c][3] + CallStall
    /\ time' = time + 1
    /\ UNCHANGED <<granted, revoked, cached, goodTill, call, opened>>

DekNext ==
    \/ \E c \in Callers, d \in Deks : Unwrap(c, d) \/ Mint(c, d)
    \/ \E c \in Callers, d \in Deks, t \in 0..DekMaxTime :
          Lookup(c, d, t) \/ KmsDecides(c, d, t) \/ KmsAnswers(c, d, t) \/ Store(c, d, t)
    \/ Revoke \/ Regrant \/ DekTick

DekSpec == DekInit /\ [][DekNext]_dekVars

-----------------------------------------------------------------------------
\* A withdrawn grant takes effect: whatever was cached before and whatever
\* calls were under way, no data key is handed out later than the cache's
\* time to live and two steps of a call: the one on which KMS's answer came,
\* which put() adds to the time to live, and the one from get()'s reading of
\* the clock to its return.
RevocationTakesEffect == \A t \in opened : t <= revoked + CacheTtl + 2 * CallStall

\* The class comment's "size-capped": plaintext keys never exceed
\* max_entries, and none is kept twice.
DeksBounded == Len(cached) <= MaxDeks /\ Distinct(cached)
=============================================================================
