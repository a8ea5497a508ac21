---------------------------- MODULE AiServiceProofs ----------------------------
(***************************************************************************)
(* The AI service, for any number of threads, employees, keys, requests,   *)
(* photos and restarts, and any limits: what the guards of /v1/verify keep *)
(* between requests (a request is served once, the rate is held, a photo   *)
(* passes once); a withdrawn key grant takes effect; no migration of the   *)
(* face envelopes loses an enrolment, and a finished one is complete; no   *)
(* reload of the calibration lets one in that was not fitted here; and     *)
(* how the service starts, and the backend beside it.                      *)
(***************************************************************************)
EXTENDS NonceStore, RateMeter, PhotoHistory, DekCache, KeyMigration, AiRuntime,
        Startup, LruDictProofs, FiniteSetTheorems

\* The last moment at which a thread may still hold a fresh copy of b.
Deadline(b) == b.captured + MaxSkew + Stall

\* A thread's body was fresh when it was checked, at most Stall ago, and the
\* thread read the store's clock since.
ThreadOK(s) ==
    /\ read[s] # -1 => serving[s] # Idle
    /\ serving[s] # Idle =>
          /\ checked[s] <= now /\ now <= checked[s] + Stall
          /\ checked[s] <= serving[s].captured + MaxSkew
          /\ serving[s].captured <= checked[s] + MaxSkew
          /\ read[s] # -1 => checked[s] <= read[s] /\ read[s] <= now

\* A body that has passed has its id in the store beyond its deadline, or is
\* past it.
StillStored(b) ==
    b.id \in Keys(nonces) /\ expires[b.id] > Deadline(b)
PassedOK(b) == passes[b] = 0 \/ (passes[b] = 1 /\ (now > Deadline(b) \/ StillStored(b)))

NonceInv ==
    /\ NonceTypeOK
    /\ Distinct(nonces)
    /\ \A s \in Slots : ThreadOK(s)
    /\ \A b \in Bodies : PassedOK(b)

\* A body is a record of an id and a time, and no idle thread's value.
LEMMA BodyIsRecord ==
    \A b \in Bodies : b.id \in RequestIds /\ b.captured \in Nat /\ b # Idle
  BY BodiesAssumption DEF Idle

\* What popping p keys off the front leaves.
LEMMA FrontPopped ==
    ASSUME NEW K, NEW q \in Seq(K), NEW p \in 0..Len(q), Distinct(q)
    PROVE  /\ SubSeq(q, p + 1, Len(q)) \in Seq(K)
           /\ Keys(SubSeq(q, p + 1, Len(q))) \subseteq Keys(q)
           /\ Distinct(SubSeq(q, p + 1, Len(q)))
           /\ Len(SubSeq(q, p + 1, Len(q))) = Len(q) - p
           /\ \A i \in (p + 1)..Len(q) : q[i] \in Keys(SubSeq(q, p + 1, Len(q)))
  <1> DEFINE n == Len(q)
             r == SubSeq(q, p + 1, n)
  <1>1. n \in Nat /\ p \in Nat /\ p <= n /\ \A i \in 1..n : q[i] \in K
    BY LenProperties
  <1>2. /\ r \in Seq(K)
        /\ Len(r) = IF p + 1 <= n THEN n - (p + 1) + 1 ELSE 0
        /\ \A i \in 1..(n - (p + 1) + 1) : r[i] = q[(p + 1) + i - 1]
    <2>1. p + 1 \in Int /\ n \in Int /\ \A i \in (p + 1)..n : q[i] \in K
      BY <1>1
    <2> HIDE DEF n
    <2> QED
      BY <2>1, SubSeqProperties
  <1> HIDE DEF r, n
  <1>3. /\ Len(r) = n - p
        /\ \A i \in 1..(n - p) : r[i] = q[p + i] /\ p + i \in 1..n
    BY <1>1, <1>2
  <1>4. Keys(r) \subseteq Keys(q)
    BY <1>3 DEF Keys, n
  <1>5. Distinct(r)
    <2> SUFFICES ASSUME NEW i \in 1..(n - p), NEW j \in 1..(n - p), r[i] = r[j]
                 PROVE  i = j
      BY <1>3 DEF Distinct
    <2>1. p + i \in 1..n /\ p + j \in 1..n /\ q[p + i] = q[p + j]
      BY <1>3
    <2>2. p + i = p + j
      BY <2>1 DEF Distinct, n
    <2> QED
      BY <1>1, <2>2
  <1>6. ASSUME NEW i \in (p + 1)..n PROVE q[i] \in Keys(r)
    <2>1. i - p \in 1..(n - p) /\ p + (i - p) = i
      BY <1>1
    <2>2. r[i - p] = q[i]
      BY <1>3, <2>1
    <2> QED
      BY <1>3, <2>1, <2>2 DEF Keys
  <1> QED
    BY <1>2, <1>3, <1>4, <1>5, <1>6 DEF r, n

\* Both loops of _purge_locked pop from the front, and the first pops no id
\* that has not expired.
LEMMA PurgeKeeps ==
    ASSUME nonces \in Seq(RequestIds), Distinct(nonces),
           expires \in [RequestIds -> Nat], NEW t \in Nat
    PROVE  /\ Purged(t) \in Seq(RequestIds) /\ Distinct(Purged(t))
           /\ Keys(Purged(t)) \subseteq Keys(nonces)
           /\ Len(Purged(t)) <= MaxNonces
           /\ \A k \in Keys(nonces) : expires[k] > t => k \in Keys(Unexpired(t))
  <1> DEFINE n == Len(nonces)
             popped == {i \in 1..n : \A j \in 1..i : expires[nonces[j]] <= t}
             p == Cardinality(popped)
             live == Unexpired(t)
             over == IF Len(live) > MaxNonces THEN Len(live) - MaxNonces ELSE 0
  <1>1. n \in Nat /\ \A i \in 1..n : nonces[i] \in RequestIds
    BY LenProperties
  <1> HIDE DEF n
  <1>2. ASSUME NEW m \in 0..n, popped \subseteq 1..m PROVE p \in 0..m
    <2>1. IsFiniteSet(1..m) /\ Cardinality(1..m) = m
      BY <1>1, <1>2, FS_Interval
    <2> HIDE DEF popped
    <2>2. IsFiniteSet(popped) /\ Cardinality(popped) <= Cardinality(1..m)
      BY <1>2, <2>1, FS_Subset
    <2>3. Cardinality(popped) \in Nat
      BY <2>2, FS_CardinalityType
    <2> QED
      BY <1>1, <1>2, <2>1, <2>2, <2>3
  <1>3. p \in 0..n
    <2>1. n \in 0..n /\ popped \subseteq 1..n
      BY <1>1
    <2> HIDE DEF popped, p
    <2> QED
      BY <1>2, <2>1
  <1>4. live = SubSeq(nonces, p + 1, n)
    BY DEF Unexpired, n
  <1>5. ASSUME NEW k \in Keys(nonces), expires[k] > t PROVE k \in Keys(live)
    <2>1. PICK i \in 1..n : k = nonces[i]
      BY DEF Keys, n
    <2>2. popped \subseteq 1..(i - 1)
      <3> SUFFICES ASSUME NEW j \in popped PROVE j \in 1..(i - 1)
        OBVIOUS
      <3>1. j \in 1..n /\ (i \in 1..j => expires[nonces[i]] <= t)
        OBVIOUS
      <3> HIDE DEF popped, p, live
      <3>2. expires[k] \in Nat
        BY <1>1, <2>1
      <3>3. ~(expires[nonces[i]] <= t)
        BY <1>5, <2>1, <3>2
      <3>4. i \notin 1..j
        BY <3>1, <3>3
      <3> QED
        BY <1>1, <3>1, <3>4
    <2> HIDE DEF popped, p, live
    <2>3. p \in 0..(i - 1)
      <3>1. i - 1 \in 0..n
        BY <1>1
      <3> QED
        BY <1>2, <2>2, <3>1
    <2>4. i \in (p + 1)..n
      BY <1>1, <2>3
    <2> QED
      BY <1>3, <1>4, <2>1, <2>4, FrontPopped DEF n
  <1>6. /\ live \in Seq(RequestIds) /\ Distinct(live)
        /\ Keys(live) \subseteq Keys(nonces)
    <2> HIDE DEF popped, p, live
    <2> QED
      BY <1>3, <1>4, FrontPopped DEF n
  <1>7. Purged(t) = SubSeq(live, over + 1, Len(live))
    BY DEF Purged
  <1> HIDE DEF live
  <1>8. over \in 0..Len(live) /\ Len(live) - over <= MaxNonces
    BY <1>6, LenProperties, NonceNumbersAssumption
  <1> HIDE DEF over
  <1>9. /\ Purged(t) \in Seq(RequestIds) /\ Distinct(Purged(t))
        /\ Keys(Purged(t)) \subseteq Keys(live)
        /\ Len(Purged(t)) <= MaxNonces
    BY <1>6, <1>7, <1>8, FrontPopped
  <1> QED
    BY <1>5, <1>6, <1>9 DEF live

\* Inserting an id moves it to the end and keeps the others.
LEMMA MovedToEnd ==
    ASSUME NEW K, NEW order \in Seq(K), NEW key \in K, Distinct(order)
    PROVE  /\ MoveToEnd(order, key) \in Seq(K)
           /\ Distinct(MoveToEnd(order, key))
           /\ Keys(MoveToEnd(order, key)) = Keys(order) \cup {key}
           /\ Len(MoveToEnd(order, key)) <= Len(order) + 1
  <1> DEFINE w == Without(order, key)
             m == Append(w, key)
             n == Len(w)
  <1>1. /\ w \in Seq(K) /\ Keys(w) = Keys(order) \ {key} /\ Distinct(w)
        /\ n <= Len(order)
    BY WithoutProperties
  <1>2. MoveToEnd(order, key) = m
    BY DEF MoveToEnd
  <1> HIDE DEF w
  <1>3. /\ m \in Seq(K) /\ Len(m) = n + 1 /\ n \in Nat
        /\ \A i \in 1..n : m[i] = w[i] /\ w[i] \in Keys(w)
        /\ m[n + 1] = key
    BY <1>1, AppendProperties, LenProperties DEF Keys
  <1> HIDE DEF m
  <1>4. Keys(m) = Keys(w) \cup {key}
    <2>1. ASSUME NEW x \in Keys(m)
          PROVE  x \in Keys(w) \cup {key}
      <3>1. PICK i \in 1..(n + 1) : m[i] = x
        BY <1>3 DEF Keys
      <3>2. CASE i \in 1..n
        BY <1>3, <3>1, <3>2
      <3>3. CASE i = n + 1
        BY <1>3, <3>1, <3>3
      <3> QED
        BY <1>3, <3>2, <3>3
    <2>2. ASSUME NEW x \in Keys(w)
          PROVE  x \in Keys(m)
      <3>1. PICK i \in 1..n : w[i] = x
        BY DEF Keys, n
      <3>2. i \in 1..(n + 1) /\ m[i] = x
        BY <1>3, <3>1
      <3> QED
        BY <1>3, <3>2 DEF Keys
    <2>3. key \in Keys(m)
      <3>1. n + 1 \in 1..(n + 1)
        BY <1>3
      <3> QED
        BY <1>3, <3>1 DEF Keys
    <2> QED
      BY <2>1, <2>2, <2>3
  <1>5. Distinct(m)
    <2> SUFFICES ASSUME NEW i \in 1..(n + 1), NEW j \in 1..(n + 1), m[i] = m[j]
                 PROVE  i = j
      BY <1>3 DEF Distinct
    <2>1. CASE i \in 1..n /\ j \in 1..n
      BY <1>1, <1>3, <2>1 DEF Distinct
    <2>2. CASE i = n + 1 /\ j \in 1..n
      BY <1>1, <1>3, <2>2
    <2>3. CASE j = n + 1 /\ i \in 1..n
      BY <1>1, <1>3, <2>3
    <2>4. CASE i = n + 1 /\ j = n + 1
      BY <2>4
    <2> QED
      BY <1>3, <2>1, <2>2, <2>3, <2>4
  <1>6. Len(m) <= Len(order) + 1
    BY <1>1, <1>3, LenProperties
  <1> QED
    BY <1>1, <1>2, <1>3, <1>4, <1>5, <1>6

\* No thread and no entry at the start.
LEMMA NonceStarts == NonceInit => NonceInv
  <1> SUFFICES ASSUME NonceInit PROVE NonceInv
    OBVIOUS
  <1>1. nonces = <<>> /\ nonces \in Seq(RequestIds) /\ Distinct(nonces)
    BY DEF NonceInit, Distinct
  <1>2. NonceTypeOK
    BY <1>1 DEF NonceInit, NonceTypeOK
  <1>3. ASSUME NEW s \in Slots PROVE ThreadOK(s)
    BY <1>3 DEF NonceInit, ThreadOK
  <1>4. ASSUME NEW b \in Bodies PROVE PassedOK(b)
    BY <1>4 DEF NonceInit, PassedOK
  <1> QED
    BY <1>1, <1>2, <1>3, <1>4 DEF NonceInv

\* What a thread in add_if_absent knows: it read the clock before its body's
\* deadline, and the entry it would insert outlives that deadline.
LEMMA ReadInTime ==
    ASSUME NonceInv, NEW s \in Slots, serving[s] # Idle, read[s] # -1
    PROVE  /\ serving[s] \in Bodies /\ read[s] \in Nat /\ read[s] <= now
           /\ now <= Deadline(serving[s])
           /\ read[s] + NonceTtl > Deadline(serving[s])
  <1> DEFINE b == serving[s]
             c == b.captured
  <1>1. b \in Bodies /\ read[s] \in Nat /\ checked[s] \in Nat /\ now \in Nat
    BY DEF NonceInv, NonceTypeOK
  <1>2. c \in Nat
    BY <1>1, BodyIsRecord
  <1>3. /\ now <= checked[s] + Stall /\ checked[s] <= c + MaxSkew
        /\ c <= checked[s] + MaxSkew
        /\ checked[s] <= read[s] /\ read[s] <= now
    BY DEF NonceInv, ThreadOK
  <1>4. Deadline(b) = c + MaxSkew + Stall
    BY DEF Deadline
  <1> HIDE DEF b, c
  <1>5. now <= c + MaxSkew + Stall /\ read[s] + NonceTtl > c + MaxSkew + Stall
    BY <1>1, <1>2, <1>3, NonceNumbersAssumption, TtlAssumption
  <1> QED
    BY <1>1, <1>3, <1>4, <1>5 DEF b

\* add_if_absent keeps the invariant.
LEMMA AddKeeps ==
    ASSUME NonceInv, NEW s \in Slots, AddIfAbsent(s)
    PROVE  NonceInv'
  <1> DEFINE b    == serving[s]
             t    == read[s]
             kept == Purged(t)
             left == [i \in RequestIds |-> IF i \in Keys(kept) THEN expires[i] ELSE 0]
             lost == Keys(Unexpired(t)) \ Keys(kept)
             past == [c \in Bodies |-> IF c.id \in lost THEN 0 ELSE passes[c]]
             seen == b.id \in Keys(kept) /\ expires[b.id] > t
  <1>1. /\ now \in Nat /\ serving \in [Slots -> Bodies \cup {Idle}]
        /\ checked \in [Slots -> Nat] /\ read \in [Slots -> Nat \cup {-1}]
        /\ nonces \in Seq(RequestIds) /\ expires \in [RequestIds -> Nat]
        /\ passes \in [Bodies -> Nat] /\ Distinct(nonces)
    BY DEF NonceInv, NonceTypeOK
  <1>2. b # Idle /\ t # -1
    BY DEF AddIfAbsent
  <1>3. /\ b \in Bodies /\ t \in Nat /\ t <= now
        /\ now <= Deadline(b) /\ t + NonceTtl > Deadline(b)
    BY <1>2, ReadInTime
  <1>4. /\ kept \in Seq(RequestIds) /\ Distinct(kept) /\ Keys(kept) \subseteq Keys(nonces)
        /\ \A k \in Keys(nonces) : expires[k] > t => k \in Keys(Unexpired(t))
    BY <1>1, <1>3, PurgeKeeps
  <1>5. /\ serving' = [serving EXCEPT ![s] = Idle]
        /\ checked' = [checked EXCEPT ![s] = 0]
        /\ read' = [read EXCEPT ![s] = -1]
        /\ now' = now
    BY DEF AddIfAbsent
  <1>6. \/ seen /\ nonces' = kept /\ expires' = left /\ passes' = past
        \/ /\ ~seen /\ nonces' = MoveToEnd(kept, b.id)
           /\ expires' = [left EXCEPT ![b.id] = t + NonceTtl]
           /\ passes' = [past EXCEPT ![b] = @ + 1]
    BY DEF AddIfAbsent
  <1>7. b.id \in RequestIds /\ b.captured \in Nat
    BY <1>3, BodyIsRecord
  <1>8. left \in [RequestIds -> Nat] /\ past \in [Bodies -> Nat]
    BY <1>1
  <1> HIDE DEF kept, left, lost, past, seen, t, b
  <1>9. /\ MoveToEnd(kept, b.id) \in Seq(RequestIds)
        /\ Distinct(MoveToEnd(kept, b.id))
        /\ Keys(MoveToEnd(kept, b.id)) = Keys(kept) \cup {b.id}
    <2>1. kept \in Seq(RequestIds) /\ Distinct(kept) /\ b.id \in RequestIds
      BY <1>4, <1>7
    <2> QED
      BY <2>1, MovedToEnd
  <1>10. NonceTypeOK' /\ Distinct(nonces)'
    <2>1. t + NonceTtl \in Nat
      BY <1>3, NonceNumbersAssumption
    <2>2. nonces' \in Seq(RequestIds) /\ Distinct(nonces')
      BY <1>4, <1>6, <1>9
    <2>3. expires' \in [RequestIds -> Nat]
      BY <1>6, <1>8, <2>1
    <2>4. passes' \in [Bodies -> Nat]
      BY <1>3, <1>6, <1>8
    <2>5. /\ serving' \in [Slots -> Bodies \cup {Idle}]
          /\ checked' \in [Slots -> Nat] /\ read' \in [Slots -> Nat \cup {-1}]
      BY <1>1, <1>5
    <2> QED
      BY <1>1, <1>5, <2>2, <2>3, <2>4, <2>5 DEF NonceTypeOK
  <1>11. ASSUME NEW u \in Slots PROVE ThreadOK(u)'
    <2>1. CASE u = s
      BY <1>1, <1>5, <2>1 DEF ThreadOK
    <2>2. CASE u # s
      <3>1. /\ serving'[u] = serving[u] /\ checked'[u] = checked[u]
            /\ read'[u] = read[u] /\ now' = now
        BY <1>1, <1>5, <2>2
      <3> QED
        BY <3>1 DEF NonceInv, ThreadOK
    <2> QED
      BY <2>1, <2>2
  <1>12. ASSUME NEW c \in Bodies PROVE PassedOK(c)'
    <2>1. PassedOK(c) /\ c.id \in RequestIds /\ Deadline(c) \in Nat
      BY BodyIsRecord, NonceNumbersAssumption DEF NonceInv, Deadline
    <2>2. past[c] = (IF c.id \in lost THEN 0 ELSE passes[c])
      BY DEF past
    \* An id in time for its deadline has not been purged, unless it was pushed out.
    <2>3. ASSUME past[c] # 0, now <= Deadline(c)
          PROVE  /\ past[c] = 1 /\ c.id \in Keys(kept)
                 /\ expires[c.id] > Deadline(c) /\ expires[c.id] > t
      <3>1. past[c] = passes[c] /\ c.id \notin lost
        BY <2>2, <2>3
      <3>2. ~(now > Deadline(c))
        BY <1>1, <2>1, <2>3
      <3>3. past[c] = 1 /\ StillStored(c)
        BY <2>1, <2>3, <3>1, <3>2 DEF PassedOK
      <3>4. c.id \in Keys(nonces) /\ expires[c.id] > Deadline(c)
        BY <3>3 DEF StillStored
      <3>5. expires[c.id] > t
        <4>1. expires[c.id] \in Nat
          BY <1>1, <2>1
        <4> QED
          BY <1>1, <1>3, <2>1, <2>3, <3>4, <4>1
      <3>6. c.id \in Keys(Unexpired(t))
        BY <1>4, <3>4, <3>5
      <3> QED
        BY <3>1, <3>3, <3>4, <3>5, <3>6 DEF lost
    <2>4. past[c] \in {0, 1}
      BY <2>1, <2>2 DEF PassedOK
    <2>5. left[c.id] = IF c.id \in Keys(kept) THEN expires[c.id] ELSE 0
      BY <2>1 DEF left
    <2>6. CASE seen
      <3>1. nonces' = kept /\ expires' = left /\ passes'[c] = past[c]
        BY <1>6, <2>6
      <3>2. CASE past[c] = 0
        BY <3>1, <3>2 DEF PassedOK
      <3>3. CASE past[c] # 0 /\ now > Deadline(c)
        BY <1>5, <2>4, <3>1, <3>3 DEF PassedOK, Deadline
      <3>4. CASE past[c] # 0 /\ now <= Deadline(c)
        <4>1. c.id \in Keys(nonces') /\ expires'[c.id] > Deadline(c)
          BY <2>3, <2>5, <3>1, <3>4
        <4> QED
          BY <2>3, <3>1, <3>4, <4>1 DEF PassedOK, StillStored, Deadline
      <3> QED
        BY <1>1, <2>1, <3>2, <3>3, <3>4
    <2>7. CASE ~seen
      <3>1. /\ Keys(nonces') = Keys(kept) \cup {b.id}
            /\ expires' = [left EXCEPT ![b.id] = t + NonceTtl]
            /\ passes' = [past EXCEPT ![b] = @ + 1]
        BY <1>6, <1>9, <2>7
      <3>2. CASE c = b
        \* It did not pass before: its id would have been seen.
        <4>1. past[b] = 0
          <5> SUFFICES ASSUME past[b] # 0 PROVE FALSE
            OBVIOUS
          <5>1. b.id \in Keys(kept) /\ expires[b.id] > t
            BY <1>3, <2>3, <3>2
          <5> QED
            BY <2>7, <5>1 DEF seen
        <4>2. passes'[c] = 1
          BY <1>3, <1>8, <3>1, <3>2, <4>1
        <4>3. c.id \in Keys(nonces') /\ expires'[c.id] > Deadline(c)
          BY <1>3, <1>7, <1>8, <3>1, <3>2
        <4> QED
          BY <4>2, <4>3 DEF PassedOK, StillStored, Deadline
      <3>3. CASE c # b
        <4>1. passes'[c] = past[c]
          BY <1>8, <3>1, <3>3
        <4>2. CASE past[c] = 0
          BY <4>1, <4>2 DEF PassedOK
        <4>3. CASE past[c] # 0 /\ now > Deadline(c)
          BY <1>5, <2>4, <4>1, <4>3 DEF PassedOK, Deadline
        <4>4. CASE past[c] # 0 /\ now <= Deadline(c)
          <5>1. past[c] = 1 /\ c.id \in Keys(kept)
                /\ expires[c.id] > Deadline(c) /\ expires[c.id] > t
            BY <2>3, <4>4
          <5>2. c.id # b.id
            BY <2>7, <5>1 DEF seen
          <5>3. c.id \in Keys(nonces') /\ expires'[c.id] > Deadline(c)
            BY <1>8, <2>1, <2>5, <3>1, <5>1, <5>2
          <5> QED
            BY <4>1, <5>1, <5>3 DEF PassedOK, StillStored, Deadline
        <4> QED
          BY <1>1, <2>1, <4>2, <4>3, <4>4
      <3> QED
        BY <3>2, <3>3
    <2> QED
      BY <2>6, <2>7
  <1> QED
    BY <1>10, <1>11, <1>12 DEF NonceInv

\* Each step keeps the invariant.
LEMMA NonceStep == NonceInv /\ [NonceNext]_nonceVars => NonceInv'
  <1> SUFFICES ASSUME NonceInv, [NonceNext]_nonceVars PROVE NonceInv'
    OBVIOUS
  <1>1. /\ now \in Nat /\ serving \in [Slots -> Bodies \cup {Idle}]
        /\ checked \in [Slots -> Nat] /\ read \in [Slots -> Nat \cup {-1}]
        /\ nonces \in Seq(RequestIds) /\ expires \in [RequestIds -> Nat]
        /\ passes \in [Bodies -> Nat] /\ Distinct(nonces)
        /\ \A u \in Slots : ThreadOK(u)
        /\ \A c \in Bodies : PassedOK(c)
    BY DEF NonceInv, NonceTypeOK
  <1>2. ASSUME NEW s \in Slots, NEW b \in Bodies, Enter(s, b) PROVE NonceInv'
    <2>1. /\ serving[s] = Idle /\ now <= b.captured + MaxSkew
          /\ b.captured <= now + MaxSkew
          /\ serving' = [serving EXCEPT ![s] = b]
          /\ checked' = [checked EXCEPT ![s] = now]
          /\ UNCHANGED <<now, read, nonces, expires, passes>>
      BY <1>2 DEF Enter, Fresh
    <2>2. NonceTypeOK' /\ Distinct(nonces)'
      BY <1>1, <2>1 DEF NonceTypeOK
    <2>3. ASSUME NEW u \in Slots PROVE ThreadOK(u)'
      <3>1. CASE u = s
        <4>1. serving'[u] = b /\ checked'[u] = now /\ read'[u] = read[u] /\ now' = now
          BY <1>1, <2>1, <3>1
        <4>2. read[u] = -1 /\ b # Idle
          BY <1>1, <2>1, <3>1, BodyIsRecord DEF ThreadOK
        <4>3. now <= now + Stall
          BY <1>1, NonceNumbersAssumption
        <4> QED
          BY <1>1, <2>1, <4>1, <4>2, <4>3 DEF ThreadOK
      <3>2. CASE u # s
        <4>1. /\ serving'[u] = serving[u] /\ checked'[u] = checked[u]
              /\ read'[u] = read[u] /\ now' = now
          BY <1>1, <2>1, <3>2
        <4> QED
          BY <1>1, <4>1 DEF ThreadOK
      <3> QED
        BY <3>1, <3>2
    <2>4. ASSUME NEW c \in Bodies PROVE PassedOK(c)'
      BY <1>1, <2>1 DEF PassedOK, StillStored, Deadline
    <2> QED
      BY <2>2, <2>3, <2>4 DEF NonceInv
  <1>3. ASSUME NEW s \in Slots, ReadClock(s) PROVE NonceInv'
    <2>1. /\ serving[s] # Idle /\ read' = [read EXCEPT ![s] = now]
          /\ UNCHANGED <<now, serving, checked, nonces, expires, passes>>
      BY <1>3 DEF ReadClock
    <2>2. NonceTypeOK' /\ Distinct(nonces)'
      BY <1>1, <2>1 DEF NonceTypeOK
    <2>3. ASSUME NEW u \in Slots PROVE ThreadOK(u)'
      <3>1. CASE u = s
        <4>1. read'[u] = now /\ now <= now
          BY <1>1, <2>1, <3>1
        <4> QED
          BY <1>1, <2>1, <3>1, <4>1 DEF ThreadOK
      <3>2. CASE u # s
        <4>1. read'[u] = read[u]
          BY <1>1, <2>1, <3>2
        <4> QED
          BY <1>1, <2>1, <4>1 DEF ThreadOK
      <3> QED
        BY <3>1, <3>2
    <2>4. ASSUME NEW c \in Bodies PROVE PassedOK(c)'
      BY <1>1, <2>1 DEF PassedOK, StillStored, Deadline
    <2> QED
      BY <2>2, <2>3, <2>4 DEF NonceInv
  <1>4. ASSUME NonceTick PROVE NonceInv'
    <2>1. /\ \A s \in Slots : serving[s] # Idle => now < checked[s] + Stall
          /\ now' = now + 1
          /\ UNCHANGED <<serving, checked, read, nonces, expires, passes>>
      BY <1>4 DEF NonceTick
    <2>2. now' \in Nat
      BY <1>1, <2>1
    <2>3. NonceTypeOK' /\ Distinct(nonces)'
      BY <1>1, <2>1, <2>2 DEF NonceTypeOK
    <2>4. ASSUME NEW u \in Slots PROVE ThreadOK(u)'
      <3> SUFFICES ASSUME serving[u] # Idle
                   PROVE  /\ checked[u] <= now + 1 /\ now + 1 <= checked[u] + Stall
                          /\ read[u] # -1 => read[u] <= now + 1
        BY <1>1, <2>1 DEF ThreadOK
      <3>1. checked[u] <= now /\ now < checked[u] + Stall /\ checked[u] \in Nat
        BY <1>1, <2>1 DEF ThreadOK
      <3>2. ASSUME read[u] # -1 PROVE read[u] \in Nat /\ read[u] <= now
        BY <1>1, <3>2 DEF ThreadOK
      <3> QED
        BY <1>1, <3>1, <3>2, NonceNumbersAssumption
    <2>5. ASSUME NEW c \in Bodies PROVE PassedOK(c)'
      <3>1. Deadline(c) \in Nat
        BY BodyIsRecord, NonceNumbersAssumption DEF Deadline
      <3>2. now > Deadline(c) => now' > Deadline(c)
        BY <1>1, <2>1, <3>1
      <3>3. StillStored(c) => StillStored(c)'
        BY <2>1 DEF StillStored, Deadline
      <3>4. passes'[c] = passes[c] /\ PassedOK(c)
        BY <1>1, <2>1
      <3>5. Deadline(c)' = Deadline(c)
        BY DEF Deadline
      <3> QED
        BY <3>2, <3>3, <3>4, <3>5 DEF PassedOK
    <2> QED
      BY <2>3, <2>4, <2>5 DEF NonceInv
  <1>5. ASSUME UNCHANGED nonceVars PROVE NonceInv'
    BY <1>5 DEF nonceVars, NonceInv, NonceTypeOK, ThreadOK, PassedOK, StillStored, Deadline
  <1> QED
    BY <1>2, <1>3, <1>4, <1>5, AddKeeps DEF NonceNext

\* The store trims before it inserts.
LEMMA NoncesStayFew == NonceInv /\ NoncesBounded /\ [NonceNext]_nonceVars => NoncesBounded'
  <1> SUFFICES ASSUME NonceInv, NoncesBounded, [NonceNext]_nonceVars PROVE NoncesBounded'
    OBVIOUS
  <1>1. /\ nonces \in Seq(RequestIds) /\ Distinct(nonces)
        /\ serving \in [Slots -> Bodies \cup {Idle}]
        /\ read \in [Slots -> Nat \cup {-1}]
        /\ expires \in [RequestIds -> Nat]
    BY DEF NonceInv, NonceTypeOK
  <1>2. ASSUME NEW s \in Slots, AddIfAbsent(s) PROVE NoncesBounded'
    <2>1. PICK b, t, kept : b = serving[s] /\ t = read[s] /\ kept = Purged(t)
      OBVIOUS
    <2>2. /\ b # Idle /\ t # -1
          /\ nonces' = kept \/ nonces' = MoveToEnd(kept, b.id)
      BY <1>2, <2>1 DEF AddIfAbsent
    <2>3. t \in Nat /\ b.id \in RequestIds
      BY <1>1, <2>1, <2>2, BodyIsRecord
    <2>4. kept \in Seq(RequestIds) /\ Distinct(kept) /\ Len(kept) <= MaxNonces
      BY <1>1, <2>1, <2>3, PurgeKeeps
    <2>5. /\ MoveToEnd(kept, b.id) \in Seq(RequestIds) /\ Distinct(MoveToEnd(kept, b.id))
          /\ Len(MoveToEnd(kept, b.id)) <= Len(kept) + 1
      BY <2>3, <2>4, MovedToEnd
    <2>6. nonces' \in Seq(RequestIds) /\ Distinct(nonces') /\ Len(nonces') <= Len(kept) + 1
      BY <2>2, <2>4, <2>5, LenProperties
    <2> QED
      BY <2>4, <2>6, LenProperties, NonceNumbersAssumption DEF NoncesBounded
  <1>3. CASE nonces' = nonces
    BY <1>3 DEF NoncesBounded
  <1> QED
    BY <1>2, <1>3 DEF NonceNext, nonceVars, Enter, ReadClock, NonceTick

\* A request sent again, to any thread, is served once as long as max_entries
\* does not push its id out.
THEOREM RequestsServedOnce == NonceSpec => []RequestServedOnce
  <1>1. NonceInv => RequestServedOnce
    BY DEF NonceInv, PassedOK, RequestServedOnce
  <1> QED
    BY <1>1, NonceStarts, NonceStep, PTL DEF NonceSpec

\* The store keeps at most one entry more than max_entries, and no id twice.
THEOREM NoncesStayBounded == NonceSpec => []NoncesBounded
  <1>1. NonceInit => NoncesBounded
    BY NonceNumbersAssumption DEF NonceInit, NoncesBounded, Distinct
  <1> QED
    BY <1>1, NonceStarts, NonceStep, NoncesStayFew, PTL DEF NonceSpec

-----------------------------------------------------------------------------
\* How the readings h an employee's meter holds go with the moments a at which
\* requests were let through: they are the readings of the last of these, and
\* those before them left the window, but for the wait for the mutex.
Windowed(h, a, c) ==
    /\ Len(h) <= Len(a)
    /\ \A i \in 1..Len(a) :
          /\ a[i] <= c
          /\ i <= Len(a) - Len(h) => a[i] + RateWindow <= c + MeterStall
    /\ \A k \in 1..Len(h) : a[k + (Len(a) - Len(h))] <= h[k] + MeterStall

HeldOver(a) ==
    \A i, j \in 1..Len(a) :
        (i <= j /\ a[j] - a[i] < RateWindow - MeterStall) => j - i < RateLimit

\* A thread waits for the mutex with a reading at most MeterStall old.
WaitOK(s) ==
    waiting[s] # <<>> => waiting[s][2] <= clock /\ clock <= waiting[s][2] + MeterStall

RateInv ==
    /\ RateTypeOK
    /\ Distinct(meters) /\ Len(meters) <= MaxMeters
    /\ \A s \in MeterSlots : WaitOK(s)
    /\ \A u \in MeteredUsers : Windowed(hits[u], allowed[u], clock) /\ HeldOver(allowed[u])

\* A set of indices that holds every index before one of its own is the first
\* ones, as many as it has.
LEMMA FirstOnes ==
    ASSUME NEW n \in Nat, NEW G \in SUBSET (1..n),
           \A i \in G : 1..i \subseteq G
    PROVE  /\ Cardinality(G) \in 0..n
           /\ \A i \in 1..n : i \in G <=> i <= Cardinality(G)
  <1>1. ASSUME NEW m \in Nat PROVE IsFiniteSet(1..m) /\ Cardinality(1..m) = m
    BY <1>1, FS_Interval
  <1>2. IsFiniteSet(G) /\ Cardinality(G) \in Nat /\ Cardinality(G) <= n
    <2>1. IsFiniteSet(1..n) /\ Cardinality(1..n) = n
      BY <1>1
    <2>2. IsFiniteSet(G) /\ Cardinality(G) <= Cardinality(1..n)
      BY <2>1, FS_Subset
    <2> QED
      BY <2>1, <2>2, FS_CardinalityType
  <1>3. ASSUME NEW i \in 1..n, i \in G PROVE i <= Cardinality(G)
    <2>1. Cardinality(1..i) <= Cardinality(G)
      BY <1>2, <1>3, FS_Subset
    <2> QED
      BY <1>1, <2>1
  <1>4. ASSUME NEW i \in 1..n, i \notin G PROVE Cardinality(G) < i
    <2>1. G \subseteq 1..(i - 1)
      <3> SUFFICES ASSUME NEW j \in G PROVE j < i
        OBVIOUS
      <3>1. i \notin 1..j
        BY <1>4
      <3> QED
        BY <3>1
    <2>2. IsFiniteSet(1..(i - 1)) /\ Cardinality(1..(i - 1)) = i - 1
      BY <1>1
    <2>3. Cardinality(G) <= Cardinality(1..(i - 1))
      BY <2>1, <2>2, FS_Subset
    <2> QED
      BY <1>2, <2>2, <2>3
  <1> QED
    BY <1>2, <1>3, <1>4

\* Popping the readings that left the window.
LEMMA PopKeepsWindow ==
    ASSUME NEW h \in Seq(Nat), NEW a \in Seq(Nat), NEW c \in Nat, NEW t \in Nat, t <= c,
           Windowed(h, a, c)
    PROVE  StillCounted(h, t) \in Seq(Nat) /\ Windowed(StillCounted(h, t), a, c)
  <1> DEFINE n == Len(h)
             gone == {i \in 1..n : \A j \in 1..i : h[j] + RateWindow <= t}
             p == Cardinality(gone)
             l == SubSeq(h, p + 1, n)
  <1>1. n \in Nat /\ Len(a) \in Nat /\ n <= Len(a)
        /\ (\A i \in 1..n : h[i] \in Nat) /\ (\A i \in 1..Len(a) : a[i] \in Nat)
    BY LenProperties DEF Windowed
  <1>2. StillCounted(h, t) = l
    BY DEF StillCounted
  <1>3. p \in 0..n /\ \A i \in 1..n : i \in gone <=> i <= p
    <2>1. gone \in SUBSET (1..n) /\ \A i \in gone : 1..i \subseteq gone
      BY <1>1
    <2> HIDE DEF gone, n
    <2> QED
      BY <1>1, <2>1, FirstOnes
  <1>4. \A i \in 1..n : i <= p => h[i] + RateWindow <= t
    BY <1>1, <1>3
  <1> HIDE DEF gone, p, l
  <1>5. l \in Seq(Nat) /\ Len(l) = n - p /\ \A i \in 1..(n - p) : l[i] = h[p + i]
    <2>1. p + 1 \in Int /\ n \in Int /\ \A i \in (p + 1)..n : h[i] \in Nat
      BY <1>1, <1>3
    <2>2. /\ l \in Seq(Nat)
          /\ Len(l) = IF p + 1 <= n THEN n - (p + 1) + 1 ELSE 0
          /\ \A i \in 1..(n - (p + 1) + 1) : l[i] = h[(p + 1) + i - 1]
      BY <2>1, SubSeqProperties DEF l
    <2> HIDE DEF n
    <2>3. Len(l) = n - p
      BY <1>1, <1>3, <2>2
    <2>4. ASSUME NEW i \in 1..(n - p) PROVE l[i] = h[p + i]
      <3>1. i \in 1..(n - (p + 1) + 1) /\ (p + 1) + i - 1 = p + i
        BY <1>1, <1>3
      <3> QED
        BY <2>2, <3>1
    <2> QED
      BY <2>2, <2>3, <2>4
  <1> HIDE DEF n
  <1> DEFINE d == Len(a) - n
  <1>6. /\ \A i \in 1..Len(a) : a[i] <= c /\ (i <= d => a[i] + RateWindow <= c + MeterStall)
        /\ \A k \in 1..n : a[k + d] <= h[k] + MeterStall
    BY DEF Windowed, n
  <1>7. d \in Nat /\ Len(a) - Len(l) = d + p
    BY <1>1, <1>3, <1>5
  <1> HIDE DEF d
  <1>8. ASSUME NEW i \in 1..Len(a), i <= d + p PROVE a[i] + RateWindow <= c + MeterStall
    <2>1. CASE i <= d
      BY <1>6, <2>1
    <2>2. CASE i > d
      <3>1. i - d \in 1..n /\ i - d <= p /\ (i - d) + d = i
        BY <1>1, <1>3, <1>7, <1>8, <2>2
      <3>2. PICK r \in Nat : r = h[i - d]
        BY <1>1, <3>1
      <3>3. a[i] <= r + MeterStall /\ r + RateWindow <= t
        BY <1>4, <1>6, <3>1, <3>2
      <3>4. a[i] \in Nat /\ t \in Nat /\ c \in Nat
        BY <1>1, <3>1
      <3> QED
        BY <3>3, <3>4, MeterAssumption
    <2> QED
      BY <1>1, <1>7, <2>1, <2>2
  <1>9. ASSUME NEW k \in 1..(n - p) PROVE a[k + (d + p)] <= l[k] + MeterStall
    <2>1. p + k \in 1..n /\ (p + k) + d = k + (d + p)
      BY <1>1, <1>3, <1>7
    <2> QED
      BY <1>5, <1>6, <2>1
  <1>10. Len(l) <= Len(a)
    BY <1>1, <1>3, <1>5
  <1> QED
    BY <1>2, <1>5, <1>6, <1>7, <1>8, <1>9, <1>10 DEF Windowed

\* Letting a request through when fewer than RateLimit readings are left.
LEMMA LetThroughKeepsWindow ==
    ASSUME NEW h \in Seq(Nat), NEW a \in Seq(Nat), NEW c \in Nat, NEW t \in Nat,
           c <= t + MeterStall,
           Windowed(h, a, c), HeldOver(a), Len(h) < RateLimit
    PROVE  /\ Append(h, t) \in Seq(Nat) /\ Append(a, c) \in Seq(Nat)
           /\ Windowed(Append(h, t), Append(a, c), c)
           /\ HeldOver(Append(a, c))
  <1> DEFINE H == Append(h, t)
             A == Append(a, c)
             n == Len(h)
             m == Len(a)
  <1>1. n \in Nat /\ m \in Nat /\ n <= m
        /\ (\A i \in 1..n : h[i] \in Nat) /\ (\A i \in 1..m : a[i] \in Nat)
    BY LenProperties DEF Windowed
  <1>2. /\ H \in Seq(Nat) /\ Len(H) = n + 1
        /\ \A i \in 1..n : H[i] = h[i]
        /\ H[n + 1] = t
    BY AppendProperties
  <1>3. /\ A \in Seq(Nat) /\ Len(A) = m + 1
        /\ \A i \in 1..m : A[i] = a[i]
        /\ A[m + 1] = c
    BY AppendProperties
  <1>4. /\ \A i \in 1..m : a[i] <= c /\ (i <= m - n => a[i] + RateWindow <= c + MeterStall)
        /\ \A k \in 1..n : a[k + (m - n)] <= h[k] + MeterStall
    BY DEF Windowed
  <1>5. \A i, j \in 1..m :
            (i <= j /\ a[j] - a[i] < RateWindow - MeterStall) => j - i < RateLimit
    BY DEF HeldOver
  <1> HIDE DEF H, A, n, m
  <1>6. Windowed(H, A, c)
    <2>1. Len(H) <= Len(A) /\ Len(A) - Len(H) = m - n
      BY <1>1, <1>2, <1>3
    <2>2. ASSUME NEW i \in 1..(m + 1)
          PROVE  A[i] <= c /\ (i <= m - n => A[i] + RateWindow <= c + MeterStall)
      <3>1. CASE i \in 1..m
        BY <1>3, <1>4, <3>1
      <3>2. CASE i = m + 1
        BY <1>1, <1>3, <3>2
      <3> QED
        BY <1>1, <3>1, <3>2
    <2>3. ASSUME NEW k \in 1..(n + 1) PROVE A[k + (m - n)] <= H[k] + MeterStall
      <3>1. CASE k \in 1..n
        <4>1. k + (m - n) \in 1..m
          BY <1>1, <3>1
        <4> QED
          BY <1>2, <1>3, <1>4, <3>1, <4>1
      <3>2. CASE k = n + 1
        <4>1. k + (m - n) = m + 1
          BY <1>1, <3>2
        <4> QED
          BY <1>2, <1>3, <3>2, <4>1
      <3> QED
        BY <1>1, <3>1, <3>2
    <2> QED
      BY <1>2, <1>3, <2>1, <2>2, <2>3 DEF Windowed
  <1>7. HeldOver(A)
    <2> SUFFICES ASSUME NEW i \in 1..(m + 1), NEW j \in 1..(m + 1), i <= j,
                        A[j] - A[i] < RateWindow - MeterStall
                 PROVE  j - i < RateLimit
      BY <1>3 DEF HeldOver
    <2>1. CASE j \in 1..m
      <3>1. i \in 1..m
        BY <1>1, <2>1
      <3> QED
        BY <1>3, <1>5, <2>1, <3>1
    <2>2. CASE j = m + 1 /\ i = m + 1
      BY <1>1, <2>2, MeterAssumption DEF n
    <2>3. CASE j = m + 1 /\ i \in 1..m
      <3>1. a[i] \in Nat /\ c - a[i] < RateWindow - MeterStall
        BY <1>1, <1>3, <2>3
      <3>2. ~(a[i] + RateWindow <= c + MeterStall)
        BY <3>1, MeterAssumption
      <3>3. ~(i <= m - n)
        BY <1>4, <2>3, <3>2
      <3>4. n < RateLimit
        BY DEF n
      <3> QED
        BY <1>1, <2>3, <3>3, <3>4, MeterAssumption
    <2> QED
      BY <1>1, <2>1, <2>2, <2>3
  <1> QED
    BY <1>2, <1>3, <1>6, <1>7 DEF H, A

LEMMA RateStarts == RateInit => RateInv
  <1> SUFFICES ASSUME RateInit PROVE RateInv
    OBVIOUS
  <1>1. /\ clock = 0 /\ meters = <<>>
        /\ waiting = [s \in MeterSlots |-> <<>>]
        /\ hits = [u \in MeteredUsers |-> <<>>]
        /\ allowed = [u \in MeteredUsers |-> <<>>]
    BY DEF RateInit
  <1>2. RateTypeOK
    BY <1>1 DEF RateTypeOK
  <1>3. Distinct(meters) /\ Len(meters) <= MaxMeters
    BY <1>1, MeterAssumption DEF Distinct
  <1>4. Windowed(<<>>, <<>>, 0) /\ HeldOver(<<>>)
    BY DEF Windowed, HeldOver
  <1> QED
    BY <1>1, <1>2, <1>3, <1>4 DEF RateInv, WaitOK

\* One turn of allow() under the mutex.
LEMMA AllowKeeps ==
    ASSUME RateInv, NEW s \in MeterSlots, Allow(s)
    PROVE  RateInv'
  <1> DEFINE Rest(f, gone) == [v \in MeteredUsers |-> IF v \in gone THEN <<>> ELSE f[v]]
  <1>1. PICK u, t, gone, live :
            /\ u = waiting[s][1] /\ t = waiting[s][2]
            /\ gone = Evicted(meters, u, MaxMeters)
            /\ live = StillCounted(hits[u], t)
    OBVIOUS
  <1>2. /\ waiting[s] # <<>>
        /\ meters' = Used(meters, u, MaxMeters)
        /\ \/ /\ hits' = [Rest(hits, gone) EXCEPT ![u] = live]
              /\ allowed' = Rest(allowed, gone)
           \/ /\ Len(live) < RateLimit
              /\ hits' = [Rest(hits, gone) EXCEPT ![u] = Append(live, t)]
              /\ allowed' = [Rest(allowed, gone) EXCEPT ![u] = Append(@, clock)]
        /\ waiting' = [waiting EXCEPT ![s] = <<>>]
        /\ clock' = clock
    BY <1>1 DEF Allow
  <1>3. /\ clock \in Nat /\ waiting \in [MeterSlots -> (MeteredUsers \X Nat) \cup {<<>>}]
        /\ meters \in Seq(MeteredUsers)
        /\ hits \in [MeteredUsers -> Seq(Nat)] /\ allowed \in [MeteredUsers -> Seq(Nat)]
        /\ Distinct(meters) /\ Len(meters) <= MaxMeters
        /\ WaitOK(s)
    BY DEF RateInv, RateTypeOK
  <1>4. u \in MeteredUsers /\ t \in Nat /\ t <= clock /\ clock <= t + MeterStall
    BY <1>1, <1>2, <1>3 DEF WaitOK
  <1>5. /\ Used(meters, u, MaxMeters) \in Seq(MeteredUsers)
        /\ Len(Used(meters, u, MaxMeters)) <= MaxMeters
        /\ Distinct(Used(meters, u, MaxMeters))
        /\ u \notin gone
    BY <1>1, <1>3, <1>4, UsedProperties, MeterAssumption
  <1>6. \A v \in MeteredUsers : Windowed(hits[v], allowed[v], clock) /\ HeldOver(allowed[v])
    BY DEF RateInv
  <1>7. live \in Seq(Nat) /\ Windowed(live, allowed[u], clock)
    <2>1. hits[u] \in Seq(Nat) /\ allowed[u] \in Seq(Nat)
      BY <1>3, <1>4
    <2> QED
      BY <1>1, <1>3, <1>4, <1>6, <2>1, PopKeepsWindow
  <1>8. ASSUME Len(live) < RateLimit
        PROVE  /\ Append(live, t) \in Seq(Nat) /\ Append(allowed[u], clock) \in Seq(Nat)
               /\ Windowed(Append(live, t), Append(allowed[u], clock), clock)
               /\ HeldOver(Append(allowed[u], clock))
    <2>1. allowed[u] \in Seq(Nat) /\ HeldOver(allowed[u])
      BY <1>3, <1>4, <1>6
    <2> QED
      BY <1>3, <1>4, <1>7, <1>8, <2>1, LetThroughKeepsWindow
  <1>9. ASSUME NEW v \in MeteredUsers
        PROVE  /\ hits'[v] \in Seq(Nat) /\ allowed'[v] \in Seq(Nat)
               /\ Windowed(hits'[v], allowed'[v], clock) /\ HeldOver(allowed'[v])
    <2>1. CASE v = u
      <3>1. \/ hits'[v] = live /\ allowed'[v] = allowed[u]
            \/ /\ Len(live) < RateLimit
               /\ hits'[v] = Append(live, t) /\ allowed'[v] = Append(allowed[u], clock)
        BY <1>2, <1>5, <2>1
      <3> QED
        BY <1>3, <1>6, <1>7, <1>8, <2>1, <3>1
    <2>2. CASE v # u /\ v \in gone
      <3>1. hits'[v] = <<>> /\ allowed'[v] = <<>>
        BY <1>2, <2>2
      <3>2. Windowed(<<>>, <<>>, clock) /\ HeldOver(<<>>)
        BY DEF Windowed, HeldOver
      <3> QED
        BY <3>1, <3>2
    <2>3. CASE v # u /\ v \notin gone
      <3>1. hits'[v] = hits[v] /\ allowed'[v] = allowed[v]
        BY <1>2, <2>3
      <3> QED
        BY <1>3, <1>6, <3>1
    <2> QED
      BY <2>1, <2>2, <2>3
  <1>10. RateTypeOK'
    <2>1. /\ hits' = [v \in MeteredUsers |-> hits'[v]]
          /\ allowed' = [v \in MeteredUsers |-> allowed'[v]]
      BY <1>2
    <2>2. hits' \in [MeteredUsers -> Seq(Nat)] /\ allowed' \in [MeteredUsers -> Seq(Nat)]
      BY <1>9, <2>1
    <2>3. waiting' \in [MeterSlots -> (MeteredUsers \X Nat) \cup {<<>>}]
      BY <1>2, <1>3
    <2> QED
      BY <1>2, <1>3, <1>5, <2>2, <2>3 DEF RateTypeOK
  <1>11. ASSUME NEW r \in MeterSlots PROVE WaitOK(r)'
    <2>1. waiting'[r] = waiting[r] \/ waiting'[r] = <<>>
      BY <1>2, <1>3
    <2> QED
      BY <1>2, <2>1 DEF RateInv, WaitOK
  <1> QED
    BY <1>2, <1>5, <1>9, <1>10, <1>11 DEF RateInv

LEMMA RateStep == RateInv /\ [RateNext]_rateVars => RateInv'
  <1> SUFFICES ASSUME RateInv, [RateNext]_rateVars PROVE RateInv'
    OBVIOUS
  <1>1. /\ clock \in Nat /\ waiting \in [MeterSlots -> (MeteredUsers \X Nat) \cup {<<>>}]
        /\ meters \in Seq(MeteredUsers)
        /\ hits \in [MeteredUsers -> Seq(Nat)] /\ allowed \in [MeteredUsers -> Seq(Nat)]
    BY DEF RateInv, RateTypeOK
  <1>2. ASSUME NEW s \in MeterSlots, NEW u \in MeteredUsers, CheckRate(s, u) PROVE RateInv'
    <2>1. /\ waiting[s] = <<>>
          /\ waiting' = [waiting EXCEPT ![s] = <<u, clock>>]
          /\ UNCHANGED <<clock, meters, hits, allowed>>
      BY <1>2 DEF CheckRate
    <2>2. RateTypeOK'
      BY <1>1, <2>1 DEF RateTypeOK
    <2>3. ASSUME NEW r \in MeterSlots PROVE WaitOK(r)'
      <3>1. CASE r = s
        <4>1. waiting'[r] = <<u, clock>>
          BY <1>1, <2>1, <3>1
        <4> QED
          BY <1>1, <2>1, <4>1, MeterAssumption DEF WaitOK
      <3>2. CASE r # s
        BY <1>1, <2>1, <3>2 DEF WaitOK, RateInv
      <3> QED
        BY <3>1, <3>2
    <2> QED
      BY <2>1, <2>2, <2>3 DEF RateInv
  <1>3. ASSUME RateTick PROVE RateInv'
    <2>1. /\ \A s \in MeterSlots : waiting[s] # <<>> => clock < waiting[s][2] + MeterStall
          /\ clock' = clock + 1
          /\ UNCHANGED <<waiting, meters, hits, allowed>>
      BY <1>3 DEF RateTick
    <2>2. RateTypeOK'
      BY <1>1, <2>1 DEF RateTypeOK
    <2>3. ASSUME NEW r \in MeterSlots PROVE WaitOK(r)'
      <3> SUFFICES ASSUME waiting[r] # <<>>
                   PROVE  waiting[r][2] <= clock + 1 /\ clock + 1 <= waiting[r][2] + MeterStall
        BY <2>1 DEF WaitOK
      <3>1. waiting[r][2] \in Nat /\ waiting[r][2] <= clock /\ clock < waiting[r][2] + MeterStall
        BY <1>1, <2>1 DEF RateInv, WaitOK
      <3> QED
        BY <1>1, <3>1, MeterAssumption
    <2>4. ASSUME NEW v \in MeteredUsers PROVE Windowed(hits[v], allowed[v], clock + 1)
      <3>1. hits[v] \in Seq(Nat) /\ allowed[v] \in Seq(Nat) /\ Windowed(hits[v], allowed[v], clock)
        BY <1>1 DEF RateInv
      <3>2. \A i \in 1..Len(allowed[v]) : allowed[v][i] \in Nat
        BY <3>1
      <3> QED
        BY <1>1, <3>1, <3>2, MeterAssumption DEF Windowed
    <2> QED
      BY <2>1, <2>2, <2>3, <2>4 DEF RateInv
  <1>4. ASSUME UNCHANGED rateVars PROVE RateInv'
    BY <1>4 DEF rateVars, RateInv, RateTypeOK, WaitOK
  <1> QED
    BY <1>2, <1>3, <1>4, AllowKeeps DEF RateNext

\* In any stretch of the window less the wait for the mutex an employee is
\* let through at most RateLimit times.
THEOREM RateIsHeld == RateSpec => []RateHeld
  <1>1. RateInv => RateHeld
    BY DEF RateInv, HeldOver, RateHeld
  <1> QED
    BY <1>1, RateStarts, RateStep, PTL DEF RateSpec

-----------------------------------------------------------------------------
\* A face's history h holds the last photos of those accepted, a: all of
\* them, or ReplayWindow.
LastOnes(h, a) ==
    /\ Len(h) <= Len(a) /\ Len(h) <= ReplayWindow
    /\ Len(h) < Len(a) => Len(h) = ReplayWindow
    /\ \A k \in 1..Len(h) : h[k] = a[k + (Len(a) - Len(h))]

NewInWindow(a) ==
    \A i, j \in 1..Len(a) : (i < j /\ j - i <= ReplayWindow) => a[i] # a[j]

PhotoInv ==
    /\ PhotoTypeOK
    /\ Distinct(histories) /\ Len(histories) <= MaxHistories
    /\ \A u \in Faces : LastOnes(history[u], accepted[u]) /\ NewInWindow(accepted[u])

\* Accepting a photo that is not in the history.
LEMMA AcceptKeepsHistory ==
    ASSUME NEW h \in Seq(Digests), NEW a \in Seq(Digests), NEW d \in Digests,
           LastOnes(h, a), NewInWindow(a), d \notin Keys(h), ReplayWindow > 0
    PROVE  /\ Remembered(h, d) \in Seq(Digests) /\ Append(a, d) \in Seq(Digests)
           /\ LastOnes(Remembered(h, d), Append(a, d))
           /\ NewInWindow(Append(a, d))
  <1> DEFINE H == Append(h, d)
             A == Append(a, d)
             R == Remembered(h, d)
             n == Len(h)
             m == Len(a)
  <1>1. n \in Nat /\ m \in Nat /\ ReplayWindow \in Nat
    BY LenProperties, HistoryAssumption
  <1>2. /\ n <= m /\ n <= ReplayWindow /\ (n < m => n = ReplayWindow)
        /\ \A k \in 1..n : h[k] = a[k + (m - n)]
    BY DEF LastOnes
  <1>3. /\ H \in Seq(Digests) /\ Len(H) = n + 1
        /\ \A i \in 1..n : H[i] = h[i]
        /\ H[n + 1] = d
    BY AppendProperties
  <1>4. /\ A \in Seq(Digests) /\ Len(A) = m + 1
        /\ \A i \in 1..m : A[i] = a[i]
        /\ A[m + 1] = d
    BY AppendProperties
  <1>5. \A i, j \in 1..m : (i < j /\ j - i <= ReplayWindow) => a[i] # a[j]
    BY DEF NewInWindow
  <1>6. \A k \in 1..n : h[k] # d
    BY DEF Keys
  <1>7. R = IF Len(H) > ReplayWindow THEN Tail(H) ELSE H
    BY DEF Remembered
  <1> HIDE DEF H, A, R, n, m
  <1>8. \A k \in 1..(n + 1) : H[k] = A[k + (m - n)]
    <2> SUFFICES ASSUME NEW k \in 1..(n + 1) PROVE H[k] = A[k + (m - n)]
      OBVIOUS
    <2>1. CASE k \in 1..n
      <3>1. k + (m - n) \in 1..m
        BY <1>1, <1>2, <2>1
      <3> QED
        BY <1>2, <1>3, <1>4, <2>1, <3>1
    <2>2. CASE k = n + 1
      <3>1. k + (m - n) = m + 1
        BY <1>1, <2>2
      <3> QED
        BY <1>3, <1>4, <2>2, <3>1
    <2> QED
      BY <1>1, <2>1, <2>2
  <1>9. R \in Seq(Digests) /\ LastOnes(R, A)
    <2>1. CASE n + 1 > ReplayWindow
      <3>1. R = Tail(H) /\ n = ReplayWindow /\ H # <<>>
        BY <1>1, <1>2, <1>3, <1>7, <2>1
      <3>2. /\ R \in Seq(Digests) /\ Len(R) = n
            /\ \A i \in 1..n : R[i] = H[i + 1]
        BY <1>1, <1>3, <3>1, HeadTailProperties
      <3>3. ASSUME NEW k \in 1..n PROVE R[k] = A[k + ((m + 1) - n)]
        <4>1. k + 1 \in 1..(n + 1) /\ (k + 1) + (m - n) = k + ((m + 1) - n)
          BY <1>1
        <4> QED
          BY <1>8, <3>2, <4>1
      <3>4. n <= m + 1 /\ n <= ReplayWindow /\ Len(R) = ReplayWindow
        BY <1>1, <1>2, <3>1, <3>2
      <3> QED
        BY <1>4, <3>2, <3>3, <3>4 DEF LastOnes
    <2>2. CASE ~(n + 1 > ReplayWindow)
      <3>1. R = H /\ n = m /\ (m + 1) - (n + 1) = m - n
        BY <1>1, <1>2, <1>3, <1>7, <2>2
      <3> QED
        BY <1>1, <1>3, <1>4, <1>8, <2>2, <3>1 DEF LastOnes
    <2> QED
      BY <2>1, <2>2
  <1>10. NewInWindow(A)
    <2> SUFFICES ASSUME NEW i \in 1..(m + 1), NEW j \in 1..(m + 1), i < j, j - i <= ReplayWindow
                 PROVE  A[i] # A[j]
      BY <1>4 DEF NewInWindow
    <2>1. i \in 1..m
      BY <1>1
    <2>2. CASE j \in 1..m
      BY <1>4, <1>5, <2>1, <2>2
    <2>3. CASE j = m + 1
      \* The photos within the window are those of the history.
      <3>1. i > m - n
        BY <1>1, <1>2, <2>1, <2>3
      <3>2. i - (m - n) \in 1..n /\ (i - (m - n)) + (m - n) = i
        <4>1. i \in Nat /\ i <= m /\ n <= m
          BY <1>1, <1>2, <2>1
        <4> QED
          BY <1>1, <3>1, <4>1
      <3>3. A[i] = h[i - (m - n)]
        BY <1>2, <1>4, <2>1, <3>2
      <3> QED
        BY <1>4, <1>6, <2>3, <3>2, <3>3
    <2> QED
      BY <1>1, <2>2, <2>3
  <1> QED
    BY <1>4, <1>9, <1>10 DEF R, A

LEMMA PhotosStart == PhotoInit => PhotoInv
  <1> SUFFICES ASSUME PhotoInit PROVE PhotoInv
    OBVIOUS
  <1>1. /\ histories = <<>>
        /\ history = [u \in Faces |-> <<>>] /\ accepted = [u \in Faces |-> <<>>]
    BY DEF PhotoInit
  <1>2. PhotoTypeOK
    BY <1>1 DEF PhotoTypeOK
  <1>3. Distinct(histories) /\ Len(histories) <= MaxHistories
    BY <1>1, HistoryAssumption DEF Distinct
  <1>4. LastOnes(<<>>, <<>>) /\ NewInWindow(<<>>)
    BY HistoryAssumption DEF LastOnes, NewInWindow
  <1> QED
    BY <1>1, <1>2, <1>3, <1>4 DEF PhotoInv

LEMMA PhotoStep == PhotoInv /\ [PhotoNext]_photoVars => PhotoInv'
  <1> SUFFICES ASSUME PhotoInv, [PhotoNext]_photoVars PROVE PhotoInv'
    OBVIOUS
  <1> DEFINE Rest(f, gone) == [v \in Faces |-> IF v \in gone THEN <<>> ELSE f[v]]
  <1>1. ASSUME NEW u \in Faces, NEW d \in Digests, SeenOrAdd(u, d) PROVE PhotoInv'
    <2>1. PICK gone : gone = Evicted(histories, u, MaxHistories)
      OBVIOUS
    <2>2. /\ ReplayWindow > 0
          /\ histories' = Used(histories, u, MaxHistories)
          /\ \/ /\ history' = Rest(history, gone)
                /\ accepted' = Rest(accepted, gone)
             \/ /\ d \notin Keys(history[u])
                /\ history' = [Rest(history, gone) EXCEPT ![u] = Remembered(history[u], d)]
                /\ accepted' = [Rest(accepted, gone) EXCEPT ![u] = Append(@, d)]
      BY <1>1, <2>1 DEF SeenOrAdd
    <2>3. /\ histories \in Seq(Faces)
          /\ history \in [Faces -> Seq(Digests)] /\ accepted \in [Faces -> Seq(Digests)]
          /\ Distinct(histories) /\ Len(histories) <= MaxHistories
          /\ \A v \in Faces : LastOnes(history[v], accepted[v]) /\ NewInWindow(accepted[v])
      BY DEF PhotoInv, PhotoTypeOK
    <2>4. /\ histories' \in Seq(Faces)
          /\ Len(histories') <= MaxHistories /\ Distinct(histories')
          /\ u \notin gone
      BY <2>1, <2>2, <2>3, UsedProperties, HistoryAssumption
    <2>5. ASSUME d \notin Keys(history[u])
          PROVE  /\ Remembered(history[u], d) \in Seq(Digests)
                 /\ Append(accepted[u], d) \in Seq(Digests)
                 /\ LastOnes(Remembered(history[u], d), Append(accepted[u], d))
                 /\ NewInWindow(Append(accepted[u], d))
      <3>1. history[u] \in Seq(Digests) /\ accepted[u] \in Seq(Digests)
        BY <2>3
      <3> QED
        BY <2>2, <2>3, <2>5, <3>1, AcceptKeepsHistory
    <2>6. ASSUME NEW v \in Faces
          PROVE  /\ history'[v] \in Seq(Digests) /\ accepted'[v] \in Seq(Digests)
                 /\ LastOnes(history'[v], accepted'[v]) /\ NewInWindow(accepted'[v])
      <3>1. \/ v \in gone /\ history'[v] = <<>> /\ accepted'[v] = <<>>
            \/ history'[v] = history[v] /\ accepted'[v] = accepted[v]
            \/ /\ d \notin Keys(history[u])
               /\ history'[v] = Remembered(history[u], d)
               /\ accepted'[v] = Append(accepted[u], d)
        BY <2>2, <2>4
      <3>2. LastOnes(<<>>, <<>>) /\ NewInWindow(<<>>)
        BY HistoryAssumption, <2>2 DEF LastOnes, NewInWindow
      <3>3. <<>> \in Seq(Digests) /\ history[v] \in Seq(Digests) /\ accepted[v] \in Seq(Digests)
        BY <2>3
      <3>4. CASE v \in gone /\ history'[v] = <<>> /\ accepted'[v] = <<>>
        BY <3>2, <3>3, <3>4
      <3>5. CASE history'[v] = history[v] /\ accepted'[v] = accepted[v]
        BY <2>3, <3>3, <3>5
      <3> QED
        BY <2>5, <3>1, <3>4, <3>5
    <2>7. /\ history' = [v \in Faces |-> history'[v]]
          /\ accepted' = [v \in Faces |-> accepted'[v]]
      BY <2>2
    <2>8. PhotoTypeOK'
      BY <2>4, <2>6, <2>7 DEF PhotoTypeOK
    <2> QED
      BY <2>4, <2>6, <2>8 DEF PhotoInv
  <1>2. ASSUME UNCHANGED photoVars PROVE PhotoInv'
    BY <1>2 DEF photoVars, PhotoInv, PhotoTypeOK
  <1> QED
    BY <1>1, <1>2 DEF PhotoNext

\* The same photo passes again only after ReplayWindow others did, or after the
\* employee's history was evicted.
THEOREM PhotosServedOnce == PhotoSpec => []PhotoServedOnce
  <1>1. PhotoInv => PhotoServedOnce
    BY DEF PhotoInv, NewInWindow, PhotoServedOnce
  <1> QED
    BY <1>1, PhotosStart, PhotoStep, PTL DEF PhotoSpec

-----------------------------------------------------------------------------
\* When the grant last stood.
LastGrant == IF granted THEN time ELSE revoked

CallOK(c) ==
    call[c] # NoCall =>
        /\ call[c][3] <= time /\ time <= call[c][3] + CallStall
        /\ call[c][1] = "answer" => call[c][3] <= LastGrant
        /\ call[c][1] = "store" => call[c][3] <= LastGrant + CallStall

\* KMS answers by a grant that stood; put() reads the clock one step later.
DekInv ==
    /\ DekTypeOK
    /\ DeksBounded
    /\ revoked <= time
    /\ \A c \in Callers : CallOK(c)
    /\ \A d \in Deks : goodTill[d] <= LastGrant + CallStall + CacheTtl
    /\ granted => opened = {}
    /\ RevocationTakesEffect

\* A use of a key keeps a cache of any limit, 0 included, within it.
LEMMA UseKeepsLimit ==
    ASSUME NEW K, NEW order \in Seq(K), NEW key \in K, NEW limit \in Nat,
           Distinct(order), Len(order) <= limit
    PROVE  /\ Used(order, key, limit) \in Seq(K)
           /\ Len(Used(order, key, limit)) <= limit
           /\ Distinct(Used(order, key, limit))
  <1>1. CASE limit # 0
    BY <1>1, UsedProperties
  <1>2. CASE limit = 0
    <2>1. order = <<>> /\ Keys(order) = {}
      BY <1>2, LenProperties DEF Keys
    <2>2. Without(order, key) = <<>>
      BY <2>1 DEF Without
    <2>3. MoveToEnd(order, key) = <<key>>
      BY <2>2 DEF MoveToEnd
    <2>4. Used(order, key, limit) = Tail(<<key>>)
      BY <1>2, <2>3 DEF Used, Trim
    <2>5. Tail(<<key>>) = <<>>
      OBVIOUS
    <2> QED
      BY <1>2, <2>4, <2>5 DEF Distinct
  <1> QED
    BY <1>1, <1>2

\* A call's end hands its key out now, or while the grant stands.
LEMMA ReturnKeeps ==
    ASSUME DekInv, NEW c \in Callers, Return(c), UNCHANGED <<time, granted, revoked>>,
           ~granted => time <= revoked + CacheTtl + 2 * CallStall
    PROVE  /\ call' \in [Callers -> (Steps \X Deks \X Nat) \cup {NoCall}]
           /\ opened' \subseteq Nat /\ (granted' => opened' = {})
           /\ RevocationTakesEffect'
           /\ \A b \in Callers : CallOK(b)'
  <1>1. /\ call' = [call EXCEPT ![c] = NoCall]
        /\ opened' = IF granted THEN opened ELSE opened \cup {time}
    BY DEF Return
  <1>2. /\ time \in Nat /\ opened \subseteq Nat
        /\ call \in [Callers -> (Steps \X Deks \X Nat) \cup {NoCall}]
        /\ (granted => opened = {}) /\ RevocationTakesEffect
    BY DEF DekInv, DekTypeOK
  <1>3. RevocationTakesEffect'
    <2> SUFFICES ASSUME NEW t \in opened' PROVE t <= revoked + CacheTtl + 2 * CallStall
      BY DEF RevocationTakesEffect
    <2>1. t \in opened \/ (~granted /\ t = time)
      BY <1>1
    <2> QED
      BY <1>2, <2>1 DEF RevocationTakesEffect
  <1>4. ASSUME NEW b \in Callers PROVE CallOK(b)'
    <2>1. call'[b] = call[b] \/ call'[b] = NoCall
      BY <1>1, <1>2
    <2>2. LastGrant' = LastGrant
      BY DEF LastGrant
    <2>3. CallOK(b)
      BY DEF DekInv
    <2> QED
      BY <2>1, <2>2, <2>3 DEF CallOK
  <1> QED
    BY <1>1, <1>2, <1>3, <1>4

LEMMA DeksStart == DekInit => DekInv
  <1> SUFFICES ASSUME DekInit PROVE DekInv
    OBVIOUS
  <1>1. DekTypeOK
    BY DEF DekInit, DekTypeOK
  <1>2. DeksBounded
    BY DekNumbersAssumption DEF DekInit, DeksBounded, Distinct
  <1> QED
    BY <1>1, <1>2, DekNumbersAssumption
    DEF DekInit, DekInv, CallOK, LastGrant, RevocationTakesEffect

LEMMA DekStep == DekInv /\ [DekNext]_dekVars => DekInv'
  <1> SUFFICES ASSUME DekInv, [DekNext]_dekVars PROVE DekInv'
    OBVIOUS
  <1>1. /\ time \in Nat /\ revoked \in Nat /\ revoked <= time
        /\ granted \in BOOLEAN
        /\ cached \in Seq(Deks) /\ goodTill \in [Deks -> Nat]
        /\ call \in [Callers -> (Steps \X Deks \X Nat) \cup {NoCall}]
        /\ opened \subseteq Nat
        /\ Len(cached) <= MaxDeks /\ Distinct(cached)
        /\ (\A c \in Callers : CallOK(c))
        /\ (\A d \in Deks : goodTill[d] <= LastGrant + CallStall + CacheTtl)
        /\ (granted => opened = {})
    BY DEF DekInv, DekTypeOK, DeksBounded
  <1>2. LastGrant \in Nat /\ LastGrant <= time
    BY <1>1 DEF LastGrant
  \* A call goes on to a step of its own, with the clock as it is.
  <1>3. ASSUME NEW c \in Callers, NEW d \in Deks, NEW step \in Steps,
               call' = [call EXCEPT ![c] = <<step, d, time>>],
               step = "answer" => granted,
               step = "store" => time <= LastGrant + CallStall,
               UNCHANGED <<time, granted, revoked>>
        PROVE  /\ call' \in [Callers -> (Steps \X Deks \X Nat) \cup {NoCall}]
               /\ \A b \in Callers : CallOK(b)'
    <2>1. call' \in [Callers -> (Steps \X Deks \X Nat) \cup {NoCall}]
      BY <1>1, <1>3
    <2>2. ASSUME NEW b \in Callers PROVE CallOK(b)'
      <3>1. LastGrant' = LastGrant
        BY <1>3 DEF LastGrant
      <3>2. CASE b = c
        <4>1. call'[b] = <<step, d, time>>
          BY <1>1, <1>3, <3>2
        <4>2. step = "answer" => time <= LastGrant
          BY <1>1, <1>3 DEF LastGrant
        <4> QED
          BY <1>1, <1>3, <3>1, <4>1, <4>2, DekNumbersAssumption DEF CallOK
      <3>3. CASE b # c
        <4>1. call'[b] = call[b]
          BY <1>1, <1>3, <3>3
        <4> QED
          BY <1>1, <1>3, <3>1, <4>1 DEF CallOK
      <3> QED
        BY <3>2, <3>3
    <2> QED
      BY <2>1, <2>2
  <1>4. ASSUME NEW c \in Callers, NEW d \in Deks, Unwrap(c, d) PROVE DekInv'
    <2>1. /\ call' = [call EXCEPT ![c] = <<"lookup", d, time>>]
          /\ UNCHANGED <<time, granted, revoked, cached, goodTill, opened>>
      BY <1>4 DEF Unwrap
    <2>2. /\ call' \in [Callers -> (Steps \X Deks \X Nat) \cup {NoCall}]
          /\ \A b \in Callers : CallOK(b)'
      BY <1>3, <2>1 DEF Steps
    <2> QED
      BY <2>1, <2>2 DEF DekInv, DekTypeOK, DeksBounded, LastGrant, RevocationTakesEffect
  <1>5. ASSUME NEW c \in Callers, NEW d \in Deks, Mint(c, d) PROVE DekInv'
    <2>1. /\ call' = [call EXCEPT ![c] = <<"kms", d, time>>]
          /\ UNCHANGED <<time, granted, revoked, cached, goodTill, opened>>
      BY <1>5 DEF Mint
    <2>2. /\ call' \in [Callers -> (Steps \X Deks \X Nat) \cup {NoCall}]
          /\ \A b \in Callers : CallOK(b)'
      BY <1>3, <2>1 DEF Steps
    <2> QED
      BY <2>1, <2>2 DEF DekInv, DekTypeOK, DeksBounded, LastGrant, RevocationTakesEffect
  <1>6. ASSUME NEW c \in Callers, NEW d \in Deks, NEW t \in 0..DekMaxTime, Lookup(c, d, t)
        PROVE  DekInv'
    <2>1. call[c] = <<"lookup", d, t>> /\ UNCHANGED <<time, granted, revoked>>
      BY <1>6 DEF Lookup
    <2>2. t \in Nat /\ t <= time /\ time <= t + CallStall
      <3>1. CallOK(c) /\ call[c] # NoCall /\ call[c][3] = t
        BY <1>1, <2>1 DEF NoCall
      <3>2. t \in Nat
        BY DekNumbersAssumption
      <3> QED
        BY <3>1, <3>2 DEF CallOK
    <2>3. CASE d \in Keys(cached) /\ goodTill[d] > t
      <3>1. cached' = MoveToEnd(cached, d) /\ Return(c) /\ goodTill' = goodTill
        BY <1>6, <2>3 DEF Lookup
      <3>2. ~granted => time <= revoked + CacheTtl + 2 * CallStall
        <4>1. goodTill[d] \in Nat /\ goodTill[d] <= LastGrant + CallStall + CacheTtl
          BY <1>1
        <4> QED
          BY <1>1, <2>2, <2>3, <4>1, DekNumbersAssumption DEF LastGrant
      <3>3. /\ call' \in [Callers -> (Steps \X Deks \X Nat) \cup {NoCall}]
            /\ opened' \subseteq Nat /\ (granted' => opened' = {})
            /\ RevocationTakesEffect'
            /\ \A b \in Callers : CallOK(b)'
        BY <2>1, <3>1, <3>2, ReturnKeeps
      <3>4. cached' \in Seq(Deks) /\ Distinct(cached')
        BY <1>1, <3>1, MovedToEnd
      <3>5. Len(cached') <= MaxDeks
        <4>1. Len(Without(cached, d)) < Len(cached)
          BY <1>1, <2>3, WithoutShortens
        <4>2. Without(cached, d) \in Seq(Deks)
          BY <1>1, WithoutProperties
        <4>3. Len(cached') = Len(Without(cached, d)) + 1
          BY <3>1, <4>2, AppendProperties DEF MoveToEnd
        <4>4. Len(cached) \in Nat /\ Len(Without(cached, d)) \in Nat
          BY <1>1, <4>2, LenProperties
        <4> QED
          BY <1>1, <4>1, <4>3, <4>4, DekNumbersAssumption
      <3> QED
        BY <1>1, <2>1, <3>1, <3>3, <3>4, <3>5 DEF DekInv, DekTypeOK, DeksBounded, LastGrant
    <2>4. CASE ~(d \in Keys(cached) /\ goodTill[d] > t)
      <3>1. /\ cached' = Without(cached, d)
            /\ goodTill' = [goodTill EXCEPT ![d] = 0]
            /\ call' = [call EXCEPT ![c] = <<"kms", d, time>>]
            /\ opened' = opened
        BY <1>6, <2>4 DEF Lookup
      <3>2. /\ call' \in [Callers -> (Steps \X Deks \X Nat) \cup {NoCall}]
            /\ \A b \in Callers : CallOK(b)'
        BY <1>3, <2>1, <3>1 DEF Steps
      <3>3. cached' \in Seq(Deks) /\ Distinct(cached') /\ Len(cached') <= Len(cached)
        BY <1>1, <3>1, WithoutProperties
      <3>4. Len(cached') <= MaxDeks
        <4>1. Len(cached) \in Nat /\ Len(cached') \in Nat
          BY <1>1, <3>3, LenProperties
        <4> QED
          BY <1>1, <3>3, <4>1, DekNumbersAssumption
      <3>5. /\ goodTill' \in [Deks -> Nat]
            /\ \A e \in Deks : goodTill'[e] = goodTill[e] \/ goodTill'[e] = 0
        BY <1>1, <3>1
      <3>6. \A e \in Deks : goodTill'[e] <= LastGrant + CallStall + CacheTtl
        <4>1. 0 <= LastGrant + CallStall + CacheTtl
          BY <1>2, DekNumbersAssumption
        <4> QED
          BY <1>1, <3>5, <4>1
      <3> QED
        BY <1>1, <2>1, <3>1, <3>2, <3>3, <3>4, <3>5, <3>6
        DEF DekInv, DekTypeOK, DeksBounded, LastGrant, RevocationTakesEffect
    <2> QED
      BY <2>3, <2>4
  <1>7. ASSUME NEW c \in Callers, NEW d \in Deks, NEW t \in 0..DekMaxTime,
               KmsDecides(c, d, t) \/ KmsAnswers(c, d, t)
        PROVE  DekInv'
    <2>1. UNCHANGED <<time, granted, revoked, cached, goodTill, opened>>
      BY <1>7 DEF KmsDecides, KmsAnswers
    <2>2. /\ call' \in [Callers -> (Steps \X Deks \X Nat) \cup {NoCall}]
          /\ \A b \in Callers : CallOK(b)'
      <3>1. CASE granted /\ call' = [call EXCEPT ![c] = <<"answer", d, time>>]
        BY <1>3, <2>1, <3>1 DEF Steps
      <3>2. CASE KmsAnswers(c, d, t)
        <4>1. /\ call[c] = <<"answer", d, t>>
              /\ call' = [call EXCEPT ![c] = <<"store", d, time>>]
          BY <3>2 DEF KmsAnswers
        <4>2. t \in Nat /\ time <= t + CallStall /\ t <= LastGrant
          <5>1. CallOK(c) /\ call[c] # NoCall /\ call[c][3] = t /\ call[c][1] = "answer"
            BY <1>1, <4>1 DEF NoCall
          <5>2. t \in Nat
            BY DekNumbersAssumption
          <5> QED
            BY <5>1, <5>2 DEF CallOK
        <4>3. time <= LastGrant + CallStall
          BY <1>1, <1>2, <4>2, DekNumbersAssumption
        <4> QED
          BY <1>3, <2>1, <4>1, <4>3 DEF Steps
      <3>3. CASE call' = [call EXCEPT ![c] = NoCall]
        <4>1. \A b \in Callers : call'[b] = call[b] \/ call'[b] = NoCall
          BY <1>1, <3>3
        <4>2. LastGrant' = LastGrant
          BY <2>1 DEF LastGrant
        <4> QED
          BY <1>1, <2>1, <3>3, <4>1, <4>2 DEF CallOK
      <3> QED
        BY <1>7, <3>1, <3>2, <3>3 DEF KmsDecides
    <2> QED
      BY <2>1, <2>2 DEF DekInv, DekTypeOK, DeksBounded, LastGrant, RevocationTakesEffect
  <1>8. ASSUME NEW c \in Callers, NEW d \in Deks, NEW t \in 0..DekMaxTime, Store(c, d, t)
        PROVE  DekInv'
    <2>1. /\ call[c] = <<"store", d, t>>
          /\ cached' = Used(cached, d, MaxDeks)
          /\ goodTill' = [e \in Deks |-> IF e \in Evicted(cached, d, MaxDeks) THEN 0
                                         ELSE IF e = d THEN t + CacheTtl ELSE goodTill[e]]
          /\ Return(c) /\ UNCHANGED <<time, granted, revoked>>
      BY <1>8 DEF Store
    <2>2. t \in Nat /\ t <= time /\ time <= t + CallStall /\ t <= LastGrant + CallStall
      <3>1. CallOK(c) /\ call[c] # NoCall /\ call[c][3] = t /\ call[c][1] = "store"
        BY <1>1, <2>1 DEF NoCall
      <3>2. t \in Nat
        BY DekNumbersAssumption
      <3> QED
        BY <3>1, <3>2 DEF CallOK
    <2>3. ~granted => time <= revoked + CacheTtl + 2 * CallStall
      BY <1>1, <2>2, DekNumbersAssumption DEF LastGrant
    <2>4. /\ call' \in [Callers -> (Steps \X Deks \X Nat) \cup {NoCall}]
          /\ opened' \subseteq Nat /\ (granted' => opened' = {})
          /\ RevocationTakesEffect'
          /\ \A b \in Callers : CallOK(b)'
      BY <2>1, <2>3, ReturnKeeps
    <2>5. cached' \in Seq(Deks) /\ Len(cached') <= MaxDeks /\ Distinct(cached')
      BY <1>1, <2>1, DekNumbersAssumption, UseKeepsLimit
    <2>6. t + CacheTtl \in Nat /\ t + CacheTtl <= LastGrant + CallStall + CacheTtl
      BY <1>2, <2>2, DekNumbersAssumption
    <2>7. \A e \in Deks : goodTill'[e] \in {0, t + CacheTtl, goodTill[e]}
      BY <2>1
    <2>8. \A e \in Deks : goodTill'[e] \in Nat /\ goodTill'[e] <= LastGrant + CallStall + CacheTtl
      BY <1>1, <1>2, <2>6, <2>7, DekNumbersAssumption
    <2>9. goodTill' \in [Deks -> Nat]
      BY <2>1, <2>8
    <2> QED
      BY <1>1, <2>1, <2>4, <2>5, <2>8, <2>9 DEF DekInv, DekTypeOK, DeksBounded, LastGrant
  <1>9. ASSUME Revoke PROVE DekInv'
    <2>1. /\ granted /\ granted' = FALSE /\ revoked' = time /\ opened' = {}
          /\ UNCHANGED <<time, cached, goodTill, call>>
      BY <1>9 DEF Revoke
    <2>2. LastGrant' = time /\ LastGrant = time
      BY <2>1 DEF LastGrant
    <2>3. ASSUME NEW c \in Callers PROVE CallOK(c)'
      <3> SUFFICES ASSUME call[c] # NoCall
                   PROVE  /\ call[c][3] <= time /\ time <= call[c][3] + CallStall
                          /\ call[c][1] = "answer" => call[c][3] <= LastGrant'
                          /\ call[c][1] = "store" => call[c][3] <= LastGrant' + CallStall
        BY <2>1 DEF CallOK
      <3>1. PICK r \in Nat : r = call[c][3]
        BY <1>1
      <3>2. r <= time /\ time <= r + CallStall
        BY <1>1, <3>1 DEF CallOK
      <3> QED
        BY <1>1, <2>2, <3>1, <3>2, DekNumbersAssumption
    <2>4. \A d \in Deks : goodTill'[d] <= LastGrant' + CallStall + CacheTtl
      BY <1>1, <2>1, <2>2
    <2>5. RevocationTakesEffect'
      BY <2>1 DEF RevocationTakesEffect
    <2> QED
      <3>1. DekTypeOK'
        BY <1>1, <2>1 DEF DekTypeOK
      <3>2. DeksBounded' /\ revoked' <= time' /\ opened' = {}
        BY <1>1, <2>1 DEF DeksBounded
      <3> QED
        BY <2>3, <2>4, <2>5, <3>1, <3>2 DEF DekInv
  <1>10. ASSUME Regrant PROVE DekInv'
    <2>1. /\ ~granted /\ granted' = TRUE /\ opened' = {}
          /\ UNCHANGED <<time, revoked, cached, goodTill, call>>
      BY <1>10 DEF Regrant
    <2>2. LastGrant' = time
      BY <2>1 DEF LastGrant
    <2>3. ASSUME NEW c \in Callers PROVE CallOK(c)'
      <3> SUFFICES ASSUME call[c] # NoCall
                   PROVE  /\ call[c][3] <= time /\ time <= call[c][3] + CallStall
                          /\ call[c][1] = "answer" => call[c][3] <= LastGrant'
                          /\ call[c][1] = "store" => call[c][3] <= LastGrant' + CallStall
        BY <2>1 DEF CallOK
      <3>1. PICK r \in Nat : r = call[c][3]
        BY <1>1
      <3>2. r <= time /\ time <= r + CallStall
        BY <1>1, <3>1 DEF CallOK
      <3> QED
        BY <1>1, <2>2, <3>1, <3>2, DekNumbersAssumption
    <2>4. \A d \in Deks : goodTill[d] <= time + CallStall + CacheTtl
      BY <1>1, <1>2, DekNumbersAssumption
    <2> QED
      BY <1>1, <2>1, <2>2, <2>3, <2>4 DEF DekInv, DekTypeOK, DeksBounded, RevocationTakesEffect
  <1>11. ASSUME DekTick PROVE DekInv'
    <2>1. /\ \A c \in Callers : call[c] # NoCall => time < call[c][3] + CallStall
          /\ time' = time + 1
          /\ UNCHANGED <<granted, revoked, cached, goodTill, call, opened>>
      BY <1>11 DEF DekTick
    <2>2. LastGrant' \in Nat /\ LastGrant <= LastGrant'
      BY <1>1, <2>1 DEF LastGrant
    <2>3. ASSUME NEW c \in Callers PROVE CallOK(c)'
      <3> SUFFICES ASSUME call[c] # NoCall
                   PROVE  /\ call[c][3] <= time + 1 /\ time + 1 <= call[c][3] + CallStall
                          /\ call[c][1] = "answer" => call[c][3] <= LastGrant'
                          /\ call[c][1] = "store" => call[c][3] <= LastGrant' + CallStall
        BY <2>1 DEF CallOK
      <3>1. PICK r \in Nat : r = call[c][3]
        BY <1>1
      <3>2. /\ r <= time /\ time < r + CallStall
            /\ call[c][1] = "answer" => r <= LastGrant
            /\ call[c][1] = "store" => r <= LastGrant + CallStall
        BY <1>1, <2>1, <3>1 DEF CallOK
      <3> QED
        BY <1>1, <1>2, <2>2, <3>1, <3>2, DekNumbersAssumption
    <2>4. \A d \in Deks : goodTill[d] <= LastGrant' + CallStall + CacheTtl
      BY <1>1, <1>2, <2>2, DekNumbersAssumption
    <2> QED
      BY <1>1, <2>1, <2>3, <2>4 DEF DekInv, DekTypeOK, DeksBounded, RevocationTakesEffect
  <1>12. ASSUME UNCHANGED dekVars PROVE DekInv'
    BY <1>12 DEF dekVars, DekInv, DekTypeOK, DeksBounded, CallOK, LastGrant, RevocationTakesEffect
  <1> QED
    BY <1>4, <1>5, <1>6, <1>7, <1>8, <1>9, <1>10, <1>11, <1>12 DEF DekNext

\* A withdrawn grant takes effect, whatever was cached and under way.
THEOREM RevocationsTakeEffect == DekSpec => []RevocationTakesEffect
  <1>1. DekInv => RevocationTakesEffect
    BY DEF DekInv
  <1> QED
    BY <1>1, DeksStart, DekStep, PTL DEF DekSpec

\* The plaintext keys stay within max_entries, none kept twice.
THEOREM DeksStayBounded == DekSpec => []DeksBounded
  <1>1. DekInv => DeksBounded
    BY DEF DekInv
  <1> QED
    BY <1>1, DeksStart, DekStep, PTL DEF DekSpec

-----------------------------------------------------------------------------
\* An envelope that belongs to u and that some key setting opens.
WellSealed(e, u) == e \in Envelopes /\ e.owner = u /\ <<SealedBy(e), e.kv>> \in Settings

\* The vector, with its model, that u last enrolled.
Latest(e, who) == who = <<e.vector, e.model>>

\* Every envelope there is, stored or exported, is well sealed.
AllSealed ==
    \A u \in Employees :
        /\ stored[u] # NoEnvelope => WellSealed(stored[u], u)
        /\ file[u] # NoEnvelope => WellSealed(file[u], u)

\* What is stored, and what is in the file, is the newest enrolment, except
\* for those who enrolled since the export and those an import outdated.
AllLatest ==
    \A u \in Employees \ outdated :
        /\ stored[u] # NoEnvelope => Latest(stored[u], enrolled[u])
        /\ (u \notin meanwhile /\ file[u] # NoEnvelope) => Latest(file[u], enrolled[u])

\* How far the migration is: the file holds everybody enrolled before the
\* export, once written it is sealed for the target, and what was imported
\* is what is stored.
FileHasAll ==
    /\ script # "idle" =>
          \A u \in Employees \ meanwhile : file[u] = NoEnvelope => stored[u] = NoEnvelope
    /\ script = "exported" => imported = {}
    /\ script = "written" =>
          /\ \A u \in Employees : file[u] # NoEnvelope =>
                SealedBy(file[u]) = target[1] /\ file[u].kv = target[2]
          /\ \A u \in imported \ meanwhile : stored[u] = file[u]

KeyInv == KeyTypeOK /\ AllSealed /\ AllLatest /\ FileHasAll

\* A fresh envelope is well sealed, for its owner and under its setting.
LEMMA SealIsWell ==
    ASSUME NEW v \in Vectors, NEW u \in Employees, NEW m \in Models, NEW s \in Settings
    PROVE  /\ WellSealed(Seal(v, u, m, s), u)
           /\ Seal(v, u, m, s).vector = v /\ Seal(v, u, m, s).model = m
           /\ SealedBy(Seal(v, u, m, s)) = s[1] /\ Seal(v, u, m, s).kv = s[2]
           /\ Seal(v, u, m, s) # NoEnvelope
  <1>1. s[1] \in {"static", "kms"} /\ s[2] \in StaticKeys \cup MasterKeys /\ s = <<s[1], s[2]>>
    BY DEF Settings
  <1>2. Seal(v, u, m, s) \in Envelopes
    BY <1>1 DEF Seal, Envelopes
  <1> QED
    BY <1>1, <1>2, KeysAssumption DEF WellSealed, Seal, SealedBy

\* Re-wrapping an envelope that can be opened keeps its vector, its model and
\* its owner, and leaves it sealed for the target.
LEMMA RewrapKeeps ==
    ASSUME NEW e, NEW u \in Employees, WellSealed(e, u), NEW from \in Settings, NEW to \in Settings,
           AlreadyCurrent(e, to) \/ Opened(e, u, from) # Refused
    PROVE  /\ WellSealed(RewrapRecord(e, u, from, to), u)
           /\ RewrapRecord(e, u, from, to).vector = e.vector
           /\ RewrapRecord(e, u, from, to).model = e.model
           /\ SealedBy(RewrapRecord(e, u, from, to)) = to[1]
           /\ RewrapRecord(e, u, from, to).kv = to[2]
           /\ RewrapRecord(e, u, from, to) # NoEnvelope
  <1>1. e \in Envelopes /\ e # NoEnvelope
    BY KeysAssumption DEF WellSealed
  <1>2. CASE AlreadyCurrent(e, to)
    BY <1>1, <1>2 DEF AlreadyCurrent, RewrapRecord, SealedBy
  <1>3. CASE ~AlreadyCurrent(e, to)
    <2>1. Opened(e, u, from) = e.vector
      BY <1>3 DEF Opened
    <2>2. e.vector \in Vectors /\ e.model \in Models
      BY <1>1 DEF Envelopes
    <2> QED
      BY <1>3, <2>1, <2>2, SealIsWell DEF RewrapRecord
  <1> QED
    BY <1>2, <1>3

\* The first enrolments, in version 1 envelopes, and no migration.
LEMMA KeyStarts == KeyInit => KeyInv
  <1> SUFFICES ASSUME KeyInit PROVE KeyInv
    OBVIOUS
  <1> USE KeysAssumption
  <1> DEFINE First(u) == [Seal(enrolled[u][1], u, model, setting) EXCEPT !.kp = "none"]
  <1>1. setting \in Settings /\ setting[1] = "static" /\ setting[2] \in StaticKeys
    BY DEF KeyInit, Settings
  <1>2. ASSUME NEW u \in Employees, enrolled[u] # NoEnvelope
        PROVE  /\ enrolled[u] \in Vectors \X {model}
               /\ First(u) \in Envelopes /\ First(u).owner = u
               /\ First(u).kp = "none" /\ First(u).kv = setting[2]
               /\ First(u).vector = enrolled[u][1] /\ First(u).model = model
    <2>1. enrolled[u] \in Vectors \X {model} /\ model \in Models
      BY <1>2 DEF KeyInit
    <2> DEFINE e == Seal(enrolled[u][1], u, model, setting)
    <2>2. enrolled[u][1] \in Vectors
      BY <2>1
    <2>3. e = [kp |-> setting[1], kv |-> setting[2], model |-> model, owner |-> u,
                vector |-> enrolled[u][1]]
      BY DEF Seal
    <2>4. First(u) = [kp |-> "none", kv |-> setting[2], model |-> model, owner |-> u,
                      vector |-> enrolled[u][1]]
      BY <2>3
    <2>5. [kp |-> "none", kv |-> setting[2], model |-> model, owner |-> u,
           vector |-> enrolled[u][1]] \in Envelopes
      BY <1>1, <2>1, <2>2 DEF Envelopes
    <2> HIDE DEF First
    <2> QED
      BY <2>1, <2>4, <2>5
  <1>3. stored = [u \in Employees |-> IF enrolled[u] = NoEnvelope THEN NoEnvelope ELSE First(u)]
    BY DEF KeyInit
  <1> HIDE DEF First
  <1>4. ASSUME NEW u \in Employees, enrolled[u] # NoEnvelope
        PROVE  WellSealed(First(u), u) /\ Latest(First(u), enrolled[u])
    <2>1. <<SealedBy(First(u)), First(u).kv>> \in Settings
      <3>1. SealedBy(First(u)) = "static" /\ First(u).kv = setting[2]
        BY <1>2, <1>4 DEF SealedBy
      <3>2. <<"static", setting[2]>> \in Settings
        BY <1>1 DEF Settings
      <3> QED
        BY <3>1, <3>2
    <2> QED
      BY <1>2, <1>4, <2>1 DEF WellSealed, Latest
  <1>5. stored \in Collections /\ file \in Collections
    BY <1>2, <1>3 DEF KeyInit, Collections
  <1>6. enrolled \in [Employees -> (Vectors \X Models) \cup {NoEnvelope}] /\ 0 \in 0..MaxDeeds
    BY DEF KeyInit
  <1>7. KeyTypeOK
    BY <1>1, <1>5, <1>6 DEF KeyInit, KeyTypeOK
  <1>8. AllSealed /\ AllLatest
    BY <1>3, <1>4 DEF KeyInit, AllSealed, AllLatest
  <1>9. FileHasAll
    BY DEF KeyInit, FileHasAll
  <1> QED
    BY <1>7, <1>8, <1>9 DEF KeyInv

\* Each step keeps the invariant.
LEMMA KeyStep == KeyInv /\ [KeyNext]_keyVars => KeyInv'
  <1> SUFFICES ASSUME KeyInv, [KeyNext]_keyVars PROVE KeyInv'
    OBVIOUS
  <1> USE KeysAssumption
  <1>1. /\ setting \in Settings /\ target \in Settings /\ model \in Models
        /\ stored \in [Employees -> Envelopes \cup {NoEnvelope}]
        /\ file \in [Employees -> Envelopes \cup {NoEnvelope}]
        /\ script \in {"idle", "exported", "written"}
        /\ imported \subseteq Employees
        /\ meanwhile \subseteq Employees /\ outdated \subseteq Employees
        /\ enrolled \in [Employees -> (Vectors \X Models) \cup {NoEnvelope}]
        /\ deeds \in 0..MaxDeeds
    BY DEF KeyInv, KeyTypeOK, Collections
  <1>2. AllSealed /\ AllLatest /\ FileHasAll
    BY DEF KeyInv
  <1>3. Deed => deeds' \in 0..MaxDeeds
    BY <1>1 DEF Deed
  <1>4. ASSUME NEW u \in Employees, NEW v \in Vectors, Enrol(u, v) PROVE KeyInv'
    <2> DEFINE e == Seal(v, u, model, setting)
    <2>1. WellSealed(e, u) /\ Latest(e, <<v, model>>) /\ e \in Envelopes
      BY <1>1, SealIsWell DEF WellSealed, Latest
    <2>2. /\ stored' = [stored EXCEPT ![u] = e]
          /\ enrolled' = [enrolled EXCEPT ![u] = <<v, model>>]
          /\ meanwhile' = meanwhile \cup {u} /\ outdated' = outdated \ {u}
          /\ UNCHANGED <<setting, model, script, target, file, imported>>
          /\ deeds' \in 0..MaxDeeds
      BY <1>3, <1>4 DEF Enrol
    <2> HIDE DEF e
    <2>3. KeyTypeOK'
      BY <1>1, <2>1, <2>2 DEF KeyTypeOK, Collections
    <2>4. AllSealed'
      BY <1>1, <1>2, <2>1, <2>2 DEF AllSealed
    <2>5. AllLatest'
      BY <1>1, <1>2, <2>1, <2>2 DEF AllLatest
    <2>6. FileHasAll'
      BY <1>1, <1>2, <2>2 DEF FileHasAll
    <2> QED
      BY <2>3, <2>4, <2>5, <2>6 DEF KeyInv
  <1>5. ASSUME NEW s \in Settings, NEW m \in Models, Restart(s, m) PROVE KeyInv'
    <2>1. UNCHANGED <<stored, script, target, file, imported, enrolled, meanwhile, outdated>>
          /\ setting' = s /\ model' = m /\ deeds' \in 0..MaxDeeds
      BY <1>3, <1>5 DEF Restart
    <2> QED
      BY <1>1, <1>2, <2>1 DEF KeyInv, KeyTypeOK, Collections, AllSealed, AllLatest, FileHasAll
  <1>6. ASSUME NEW s \in Settings, Export(s) PROVE KeyInv'
    <2>1. /\ script' = "exported" /\ target' = s /\ file' = stored /\ imported' = {}
          /\ meanwhile' = {} /\ UNCHANGED <<setting, model, stored, enrolled, outdated>>
          /\ deeds' \in 0..MaxDeeds
      BY <1>3, <1>6 DEF Export
    <2>2. KeyTypeOK'
      BY <1>1, <2>1 DEF KeyTypeOK, Collections
    <2>3. AllSealed' /\ AllLatest'
      BY <1>2, <2>1 DEF AllSealed, AllLatest
    <2>4. FileHasAll'
      BY <2>1 DEF FileHasAll
    <2> QED
      BY <2>2, <2>3, <2>4 DEF KeyInv
  <1>7. CASE Rewrap
    <2>1. UNCHANGED <<setting, model, stored, target, imported, enrolled, meanwhile, outdated, deeds>>
          /\ script = "exported"
      BY <1>7 DEF Rewrap
    <2>2. CASE script' = "idle" /\ UNCHANGED file
      BY <1>1, <1>2, <2>1, <2>2
         DEF KeyInv, KeyTypeOK, Collections, AllSealed, AllLatest, FileHasAll
    <2>3. CASE script' # "idle"
      <3> DEFINE r(u) == RewrapRecord(file[u], u, setting, target)
      <3>1. /\ script' = "written"
            /\ file' = [u \in Employees |-> IF file[u] # NoEnvelope THEN r(u) ELSE NoEnvelope]
            /\ \A u \in Employees : file[u] # NoEnvelope =>
                  AlreadyCurrent(file[u], target) \/ Opened(file[u], u, setting) # Refused
        BY <1>7, <2>3 DEF Rewrap
      <3>2. ASSUME NEW u \in Employees, file[u] # NoEnvelope
            PROVE  /\ WellSealed(r(u), u) /\ r(u).vector = file[u].vector
                   /\ r(u).model = file[u].model /\ SealedBy(r(u)) = target[1]
                   /\ r(u).kv = target[2] /\ r(u) # NoEnvelope
        BY <1>1, <1>2, <3>1, <3>2, RewrapKeeps DEF AllSealed
      <3> HIDE DEF r
      <3>3. \A u \in Employees : file'[u] = IF file[u] # NoEnvelope THEN r(u) ELSE NoEnvelope
        BY <3>1
      <3>4. file' \in [Employees -> Envelopes \cup {NoEnvelope}]
        BY <3>1, <3>2 DEF WellSealed
      <3>5. KeyTypeOK'
        BY <1>1, <2>1, <3>1, <3>4 DEF KeyTypeOK, Collections
      <3>6. AllSealed' /\ AllLatest'
        BY <1>2, <2>1, <3>2, <3>3 DEF AllSealed, AllLatest, Latest
      <3>7. FileHasAll'
        BY <1>2, <2>1, <3>1, <3>2, <3>3 DEF FileHasAll
      <3> QED
        BY <3>5, <3>6, <3>7 DEF KeyInv
    <2> QED
      BY <1>7, <2>2, <2>3 DEF Rewrap
  <1>8. ASSUME NEW u \in Employees, Import(u) PROVE KeyInv'
    <2>1. /\ script = "written" /\ imported' = imported \cup {u}
          /\ UNCHANGED <<setting, model, script, target, file, enrolled, meanwhile, deeds>>
          /\ stored' = IF file[u] = NoEnvelope THEN stored ELSE [stored EXCEPT ![u] = file[u]]
          /\ outdated' = IF u \in meanwhile /\ file[u] # NoEnvelope
                         THEN outdated \cup {u} ELSE outdated
      BY <1>8 DEF Import
    <2>2. KeyTypeOK'
      BY <1>1, <2>1 DEF KeyTypeOK, Collections
    <2>3. \A w \in Employees : w # u => stored'[w] = stored[w]
      BY <1>1, <2>1
    <2>4. stored'[u] = IF file[u] = NoEnvelope THEN stored[u] ELSE file[u]
      BY <1>1, <2>1
    <2>5. AllSealed'
      BY <1>2, <2>1, <2>3, <2>4 DEF AllSealed
    <2>6. AllLatest'
      BY <1>2, <2>1, <2>3, <2>4 DEF AllLatest
    <2>7. FileHasAll'
      BY <1>1, <1>2, <2>1, <2>3, <2>4 DEF FileHasAll
    <2> QED
      BY <2>2, <2>5, <2>6, <2>7 DEF KeyInv
  <1>9. CASE UNCHANGED keyVars
    BY <1>1, <1>2, <1>9
       DEF keyVars, KeyInv, KeyTypeOK, Collections, AllSealed, AllLatest, FileHasAll
  <1> QED
    BY <1>4, <1>5, <1>6, <1>7, <1>8, <1>9 DEF KeyNext

\* The variables of the migration keep their types, for any keys and models.
THEOREM KeysTyped == KeySpec => []KeyTypeOK
  <1>1. KeyInv => KeyTypeOK
    BY DEF KeyInv
  <1> QED
    BY KeyStarts, KeyStep, <1>1, PTL DEF KeySpec

\* At every moment of any number of migrations, broken off or not, some key
\* setting opens every envelope that no import outdated to the vector last
\* enrolled: rotate_keys.py with fle.py.
THEOREM NothingIsLost == KeySpec => []NothingLost
  <1>1. KeyInv => NothingLost
    <2> SUFFICES ASSUME KeyInv, NEW u \in Employees \ outdated, stored[u] # NoEnvelope
                 PROVE  Recoverable(u)
      BY DEF NothingLost
    <2> DEFINE s == <<SealedBy(stored[u]), stored[u].kv>>
    <2>1. s \in Settings /\ stored[u].owner = u
      BY DEF KeyInv, AllSealed, WellSealed
    <2>2. Opened(stored[u], u, s) = stored[u].vector
      BY <2>1 DEF Opened
    <2>3. enrolled[u] = <<stored[u].vector, stored[u].model>>
      BY DEF KeyInv, AllLatest, Latest
    <2> QED
      BY <2>1, <2>2, <2>3 DEF Recoverable
  <1> QED
    BY KeyStarts, KeyStep, <1>1, PTL DEF KeySpec

\* A finished import leaves everyone enrolled before its export under the
\* target's active key, and readable with it: rotate_keys.py.
THEOREM MigrationIsComplete == KeySpec => []MigrationComplete
  <1>1. KeyInv => MigrationComplete
    <2> SUFFICES ASSUME KeyInv, script = "written", imported = Employees,
                        NEW u \in Employees \ meanwhile, stored[u] # NoEnvelope
                 PROVE  Opened(stored[u], u, target) # Refused /\ stored[u].kv = target[2]
      BY DEF MigrationComplete
    <2>1. stored[u] = file[u]
      BY DEF KeyInv, FileHasAll
    <2>2. SealedBy(stored[u]) = target[1] /\ stored[u].kv = target[2]
      BY <2>1 DEF KeyInv, FileHasAll
    <2>3. stored[u].owner = u /\ stored[u].vector \in Vectors
      BY DEF KeyInv, AllSealed, WellSealed, Envelopes
    <2> QED
      BY <2>2, <2>3, VectorsAssumption DEF Opened
  <1> QED
    BY KeyStarts, KeyStep, <1>1, PTL DEF KeySpec

\* Both, for any number of employees, keys and models: rotate_keys.py.
THEOREM MigrationIsSafe == KeySpec => []MigrationSafe
  <1>1. NothingLost /\ MigrationComplete => MigrationSafe
    BY DEF MigrationSafe
  <1> QED
    BY NothingIsLost, MigrationIsComplete, <1>1, PTL

-----------------------------------------------------------------------------
\* Whatever runs, scores or waits to be swapped in has passed both checks.
Vetted(c) == c # NoCalibration => Loads(c) /\ Fits(c)
RuntimeInv ==
    /\ RuntimeTypeOK
    /\ Vetted(running)
    /\ \A o \in Operators : Vetted(reloading[o])
    /\ \A k \in Checks : Vetted(scoring[k])

LEMMA RuntimeStep == RuntimeInv /\ [RuntimeNext]_runtimeVars => RuntimeInv'
  <1> SUFFICES ASSUME RuntimeInv, [RuntimeNext]_runtimeVars PROVE RuntimeInv'
    OBVIOUS
  <1>1. CASE Boot \/ Warmup \/ UNCHANGED runtimeVars
    BY <1>1 DEF Boot, Warmup, runtimeVars, RuntimeTypeOK, RuntimeInv, Vetted
  <1>2. CASE Crash
    BY <1>2 DEF Crash, RuntimeTypeOK, RuntimeInv, Vetted
  <1>3. ASSUME NEW c \in Calibrations, Edit(c) PROVE RuntimeInv'
    BY <1>3 DEF Edit, RuntimeTypeOK, RuntimeInv
  <1>4. ASSUME NEW o \in Operators, ReadFile(o) PROVE RuntimeInv'
    BY <1>4 DEF ReadFile, RuntimeTypeOK, RuntimeInv, Vetted
  <1>5. ASSUME NEW o \in Operators, Swap(o) PROVE RuntimeInv'
    BY <1>5 DEF Swap, RuntimeTypeOK, RuntimeInv, Vetted
  <1>6. ASSUME NEW k \in Checks, TakeCalibration(k) PROVE RuntimeInv'
    BY <1>6 DEF TakeCalibration, RuntimeTypeOK, RuntimeInv, Vetted
  <1>7. ASSUME NEW k \in Checks, Answer(k) PROVE RuntimeInv'
    BY <1>7 DEF Answer, RuntimeTypeOK, RuntimeInv, Vetted
  <1> QED
    BY <1>1, <1>2, <1>3, <1>4, <1>5, <1>6, <1>7 DEF RuntimeNext

\* No order of edits, boots and overlapping reloads scores with a calibration
\* that was not fitted here: load_calibration, reload_calibration and verify.
THEOREM ScoresAreFitted == RuntimeSpec => []ScoredByFittedCalibration
  <1>1. RuntimeInit => RuntimeInv
    BY DEF RuntimeInit, RuntimeTypeOK, RuntimeInv, Vetted
  <1>2. RuntimeInv => ScoredByFittedCalibration
    BY DEF RuntimeInv, ScoredByFittedCalibration, Vetted
  <1> QED
    BY <1>1, <1>2, RuntimeStep, PTL DEF RuntimeSpec
-----------------------------------------------------------------------------
\* The stages of the AI service's start that come after each check.
Assembled == {"assembled", "up"}
Built == {"built"} \cup Assembled
Calibrated == {"calibrated"} \cup Built
Validated == {"validated"} \cup Calibrated

\* What each check has found, or told, by then.
Checked ==
    /\ service \in Validated =>
         /\ Startable
         /\ "auth_off" \in off => "auth_off" \in warnings
         /\ "stubs_allowed" \in off => "stub_models" \in warnings
         /\ Deployed /\ ~Kms => "static_keys" \in warnings
    /\ service \in Calibrated =>
         /\ "calibration_of_other_model" \in off => "stubs_allowed" \in off
         /\ "calibration_unmeasured" \in off => "unmeasured" \in warnings
    /\ service \in Built =>
         /\ engine.embedder \in {"stub", "onnx"}
         /\ engine.embedder = "stub" => "stubs_allowed" \in off
    /\ service \in Assembled => "calibration_of_other_pipeline" \notin off
    /\ inferred => service = "up" /\ Warmed

\* Only a service that is up has served anything but a login or the board.
ServedWhenUp ==
    answer.result = "served" /\ answer.path \notin {"login", "board"} => service = "up"

StartInv == StartupTypeOK /\ Checked /\ ServedWhenUp /\ StartIsSound

BootWarnings == {"auth_off", "static_keys", "stub_models", "plain_endpoint", "sse_s3",
           "static_credentials", "slow_bcrypt", "unmeasured"}

LEMMA StartStarts == Configured => StartInv
  <1> SUFFICES ASSUME Configured PROVE StartInv
    OBVIOUS
  <1>1. /\ service = "down" /\ backend = "down" /\ warnings = {}
        /\ engine = [detector |-> "none", embedder |-> "none"]
        /\ inferred = FALSE /\ answer = NoAnswer
    BY DEF Configured
  <1>2. answer.path = "none" /\ answer.result = "none"
    BY <1>1 DEF NoAnswer
  <1>3. env \in Envs /\ off \subseteq BootSettings
    BY DEF Configured
  <1>4. StartupTypeOK
    BY <1>1, <1>3 DEF StartupTypeOK, Services
  <1>5. Checked
    BY <1>1 DEF Checked, Validated, Calibrated, Built, Assembled
  <1>6. ServedWhenUp /\ StartIsSound
    BY <1>2 DEF ServedWhenUp, StartIsSound, FailuresExplained, ServedToItsCaller,
                ComparedAsConfigured, ReadyHasRun
  <1> QED
    BY <1>4, <1>5, <1>6 DEF StartInv

\* A step of the start before the service is up: what was answered stands.
LEMMA AnswersStand ==
    ASSUME StartInv, service # "up", answer' = answer, off' = off
    PROVE  StartIsSound' /\ ServedWhenUp'
  <1>1. answer.result = "served" => answer.path \in {"login", "board"}
    BY DEF StartInv, ServedWhenUp
  <1>2. answer'.result = "served" => answer'.path \in {"login", "board"}
    BY <1>1
  <1>3. ServedWhenUp'
    BY <1>2 DEF ServedWhenUp
  <1>4. FailuresExplained'
    BY DEF StartInv, StartIsSound, FailuresExplained
  <1>5. ServedToItsCaller'
    BY <1>2 DEF ServedToItsCaller, AdminPaths
  <1>6. ComparedAsConfigured' /\ ReadyHasRun'
    BY <1>2 DEF ComparedAsConfigured, ReadyHasRun
  <1> QED
    BY <1>3, <1>4, <1>5, <1>6 DEF StartIsSound

LEMMA ImportMainKeeps ==
    ASSUME StartInv, ImportMain PROVE StartInv'
  <1>1. /\ service = "down" /\ service' \in {"imported", "refused"}
        /\ env' = env /\ off' = off /\ backend' = backend /\ warnings' = warnings
        /\ engine' = engine /\ inferred' = inferred /\ answer' = answer
    BY DEF ImportMain
  <1>2. StartupTypeOK'
    BY <1>1 DEF StartInv, StartupTypeOK, Services
  <1>3. ~inferred
    BY <1>1 DEF StartInv, Checked
  <1>4. Checked'
    BY <1>1, <1>3 DEF Checked, Validated, Calibrated, Built, Assembled
  <1> QED
    BY <1>1, <1>2, <1>4, AnswersStand DEF StartInv

LEMMA ValidateStartupKeeps ==
    ASSUME StartInv, ValidateStartup PROVE StartInv'
  <1>1. /\ service = "imported" /\ service' = IF Startable THEN "validated" ELSE "refused"
        /\ env' = env /\ off' = off /\ backend' = backend
        /\ engine' = engine /\ inferred' = inferred /\ answer' = answer
    BY DEF ValidateStartup
  <1>2. ~inferred
    BY <1>1 DEF StartInv, Checked
  <1>3. Startable' = Startable /\ Deployed' = Deployed /\ Kms' = Kms
    BY <1>1 DEF Startable, Deployed, Kms, Unreadable
  <1>4. CASE Startable
    <2>1. service' = "validated"
      BY <1>1, <1>4
    <2>2. warnings' = When(Deployed /\ ~Kms, "static_keys")
                        \cup When("auth_off" \in off, "auth_off")
                        \cup When("stubs_allowed" \in off, "stub_models")
                        \cup When(Deployed /\ "plain_endpoint" \in off, "plain_endpoint")
                        \cup When(Deployed /\ "sse_kms" \notin off, "sse_s3")
                        \cup When(Deployed /\ "static_credentials" \in off, "static_credentials")
                        \cup When("slow_bcrypt" \in off, "slow_bcrypt")
      BY <1>4 DEF ValidateStartup
    <2>3. warnings' \subseteq BootWarnings
      BY <2>2 DEF When, BootWarnings
    <2>4. /\ "auth_off" \in off => "auth_off" \in warnings'
          /\ "stubs_allowed" \in off => "stub_models" \in warnings'
          /\ Deployed /\ ~Kms => "static_keys" \in warnings'
      BY <2>2 DEF When
    <2>5. StartupTypeOK'
      BY <1>1, <2>1, <2>3 DEF StartInv, StartupTypeOK, Services, BootWarnings
    <2>6. Checked'
      BY <1>1, <1>2, <1>3, <1>4, <2>1, <2>4 DEF Checked, Validated, Calibrated, Built, Assembled
    <2> QED
      BY <1>1, <2>5, <2>6, AnswersStand DEF StartInv
  <1>5. CASE ~Startable
    <2>1. service' = "refused" /\ warnings' = warnings
      BY <1>1, <1>5 DEF ValidateStartup
    <2>2. StartupTypeOK'
      BY <1>1, <2>1 DEF StartInv, StartupTypeOK, Services
    <2>3. Checked'
      BY <1>1, <1>2, <2>1 DEF Checked, Validated, Calibrated, Built, Assembled
    <2> QED
      BY <1>1, <2>2, <2>3, AnswersStand DEF StartInv
  <1> QED
    BY <1>4, <1>5

LEMMA LoadCalibrationKeeps ==
    ASSUME StartInv, LoadCalibration PROVE StartInv'
  <1>1. /\ service = "validated" /\ env' = env /\ off' = off /\ backend' = backend
        /\ engine' = engine /\ inferred' = inferred /\ answer' = answer
    BY DEF LoadCalibration
  <1>2. ~inferred
    BY <1>1 DEF StartInv, Checked
  <1>3. Startable' = Startable /\ Deployed' = Deployed /\ Kms' = Kms
    BY <1>1 DEF Startable, Deployed, Kms, Unreadable
  <1>4. /\ Startable
        /\ "auth_off" \in off => "auth_off" \in warnings
        /\ "stubs_allowed" \in off => "stub_models" \in warnings
        /\ Deployed /\ ~Kms => "static_keys" \in warnings
    BY <1>1 DEF StartInv, Checked, Validated
  <1>5. CASE \/ "calibration_malformed" \in off
             \/ "calibration_of_other_model" \in off /\ "stubs_allowed" \notin off
    <2>1. service' = "refused" /\ warnings' = warnings
      BY <1>5 DEF LoadCalibration
    <2>2. StartupTypeOK'
      BY <1>1, <2>1 DEF StartInv, StartupTypeOK, Services
    <2>3. Checked'
      BY <1>1, <1>2, <2>1 DEF Checked, Validated, Calibrated, Built, Assembled
    <2> QED
      BY <1>1, <2>2, <2>3, AnswersStand DEF StartInv
  <1>6. CASE ~(\/ "calibration_malformed" \in off
               \/ "calibration_of_other_model" \in off /\ "stubs_allowed" \notin off)
    <2>1. /\ service' = "calibrated"
          /\ warnings' = warnings \cup When("calibration_unmeasured" \in off, "unmeasured")
      BY <1>6 DEF LoadCalibration
    <2>2. warnings \subseteq warnings' /\ warnings' \subseteq warnings \cup {"unmeasured"}
      BY <2>1 DEF When
    <2>3. "calibration_unmeasured" \in off => "unmeasured" \in warnings'
      BY <2>1 DEF When
    <2>4. StartupTypeOK'
      BY <1>1, <2>1, <2>2 DEF StartInv, StartupTypeOK, Services
    <2>5. Checked'
      BY <1>1, <1>2, <1>3, <1>4, <1>6, <2>1, <2>2, <2>3
         DEF Checked, Validated, Calibrated, Built, Assembled
    <2> QED
      BY <1>1, <2>4, <2>5, AnswersStand DEF StartInv
  <1> QED
    BY <1>5, <1>6

LEMMA BuildEngineKeeps ==
    ASSUME StartInv, BuildEngine PROVE StartInv'
  <1>1. /\ service = "calibrated" /\ env' = env /\ off' = off /\ backend' = backend
        /\ warnings' = warnings /\ inferred' = inferred /\ answer' = answer
    BY DEF BuildEngine
  <1>2. ~inferred
    BY <1>1 DEF StartInv, Checked
  <1>3. Startable' = Startable /\ Deployed' = Deployed /\ Kms' = Kms
    BY <1>1 DEF Startable, Deployed, Kms, Unreadable
  <1>4. /\ Startable
        /\ "auth_off" \in off => "auth_off" \in warnings
        /\ "stubs_allowed" \in off => "stub_models" \in warnings
        /\ Deployed /\ ~Kms => "static_keys" \in warnings
        /\ "calibration_of_other_model" \in off => "stubs_allowed" \in off
        /\ "calibration_unmeasured" \in off => "unmeasured" \in warnings
    BY <1>1 DEF StartInv, Checked, Validated, Calibrated
  <1>5. \/ service' = "refused" /\ engine' = engine
        \/ /\ service' = "built"
           /\ \E d \in {"stub", "yunet"}, e \in {"stub", "onnx"} :
                /\ engine' = [detector |-> d, embedder |-> e]
                /\ e = "stub" => "stubs_allowed" \in off
    BY DEF BuildEngine
  <1>6. CASE service' = "refused" /\ engine' = engine
    <2>1. StartupTypeOK'
      BY <1>1, <1>6 DEF StartInv, StartupTypeOK, Services
    <2>2. Checked'
      BY <1>1, <1>2, <1>6 DEF Checked, Validated, Calibrated, Built, Assembled
    <2> QED
      BY <1>1, <2>1, <2>2, AnswersStand DEF StartInv
  <1>7. ASSUME service' = "built", NEW d \in {"stub", "yunet"}, NEW e \in {"stub", "onnx"},
               engine' = [detector |-> d, embedder |-> e], e = "stub" => "stubs_allowed" \in off
        PROVE  StartInv'
    <2>1. engine'.embedder = e
      BY <1>7
    <2>2. StartupTypeOK'
      BY <1>1, <1>7 DEF StartInv, StartupTypeOK, Services
    <2>3. Checked'
      BY <1>1, <1>2, <1>3, <1>4, <1>7, <2>1
         DEF Checked, Validated, Calibrated, Built, Assembled
    <2> QED
      BY <1>1, <2>2, <2>3, AnswersStand DEF StartInv
  <1> QED
    BY <1>5, <1>6, <1>7

LEMMA AssembleKeeps ==
    ASSUME StartInv, Assemble PROVE StartInv'
  <1>1. /\ service = "built" /\ env' = env /\ off' = off /\ backend' = backend
        /\ warnings' = warnings /\ engine' = engine /\ inferred' = inferred /\ answer' = answer
        /\ service' = IF "calibration_of_other_pipeline" \in off THEN "refused" ELSE "assembled"
    BY DEF Assemble
  <1>2. ~inferred
    BY <1>1 DEF StartInv, Checked
  <1>3. Startable' = Startable /\ Deployed' = Deployed /\ Kms' = Kms
    BY <1>1 DEF Startable, Deployed, Kms, Unreadable
  <1>4. StartupTypeOK'
    BY <1>1 DEF StartInv, StartupTypeOK, Services
  <1>5. Checked'
    <2>1. CASE service' = "refused"
      BY <1>1, <1>2, <2>1 DEF Checked, Validated, Calibrated, Built, Assembled
    <2>2. CASE service' = "assembled"
      BY <1>1, <1>2, <1>3, <2>2 DEF StartInv, Checked, Validated, Calibrated, Built, Assembled
    <2> QED
      BY <1>1, <2>1, <2>2
  <1> QED
    BY <1>1, <1>4, <1>5, AnswersStand DEF StartInv

LEMMA WarmUpKeeps ==
    ASSUME StartInv, WarmUp PROVE StartInv'
  <1>1. /\ service = "assembled" /\ service' = "up" /\ inferred' = Warmed
        /\ env' = env /\ off' = off /\ backend' = backend
        /\ warnings' = warnings /\ engine' = engine /\ answer' = answer
    BY DEF WarmUp
  <1>2. /\ Startable' = Startable /\ Deployed' = Deployed /\ Kms' = Kms /\ Warmed' = Warmed
        /\ Warmed \in BOOLEAN
    BY <1>1 DEF Startable, Deployed, Kms, Unreadable, Warmed, Infers
  <1>3. StartupTypeOK'
    BY <1>1, <1>2 DEF StartInv, StartupTypeOK, Services
  <1>4. Checked'
    BY <1>1, <1>2 DEF StartInv, Checked, Validated, Calibrated, Built, Assembled
  <1> QED
    BY <1>1, <1>3, <1>4, AnswersStand DEF StartInv

-----------------------------------------------------------------------------
\* What the boot has settled by the time the service is up.
LEMMA UpIsConfigured ==
    ASSUME StartInv, service = "up"
    PROVE  /\ ~Unreadable("pin_pepper")
           /\ "auth_off" \notin off => ~Unreadable("hmac_secret")
           /\ ~Kms => ~Unreadable("fle_keys")
           /\ "auth_off" \in off => "auth_off" \in warnings
           /\ "calibration_of_other_pipeline" \notin off
           /\ \/ engine.embedder = "onnx" /\ "calibration_of_other_model" \notin off
              \/ "stub_models" \in warnings
           /\ env = "production" => Kms \/ "static_keys" \in warnings
           /\ "calibration_unmeasured" \in off => "unmeasured" \in warnings
           /\ inferred => Warmed
  <1>1. service \in Assembled /\ service \in Built /\ service \in Calibrated /\ service \in Validated
    BY DEF Assembled, Built, Calibrated, Validated
  <1>2. /\ Startable
        /\ "auth_off" \in off => "auth_off" \in warnings
        /\ "stubs_allowed" \in off => "stub_models" \in warnings
        /\ Deployed /\ ~Kms => "static_keys" \in warnings
        /\ "calibration_of_other_model" \in off => "stubs_allowed" \in off
        /\ "calibration_unmeasured" \in off => "unmeasured" \in warnings
        /\ engine.embedder \in {"stub", "onnx"}
        /\ engine.embedder = "stub" => "stubs_allowed" \in off
        /\ "calibration_of_other_pipeline" \notin off
        /\ inferred => Warmed
    BY <1>1 DEF StartInv, Checked
  <1>3. /\ ~Unreadable("pin_pepper")
        /\ "auth_off" \notin off => ~Unreadable("hmac_secret")
        /\ ~Kms => ~Unreadable("fle_keys")
    BY <1>2 DEF Startable
  <1>4. env = "production" => Deployed
    BY DEF Deployed
  <1> QED
    BY <1>2, <1>3, <1>4

ServicePaths == Paths \ {"login", "board", "checkin"}

\* What a handler of an up service answers, before and behind the middleware.
LEMMA HandlerAnswers ==
    ASSUME StartInv, service = "up", NEW path \in ServicePaths
    PROVE  /\ Handler(path) \in {"served", "starting", "refused", "failed"}
           /\ Handler(path) = "failed" => off \cap FoundLate # {}
           /\ path = "verify" /\ Handler(path) = "served" => Infers
           /\ path = "ready" /\ Handler(path) = "served" => inferred
  <1>1. /\ ~Unreadable("pin_pepper")
        /\ ~Kms => ~Unreadable("fle_keys")
    BY UpIsConfigured
  <1>2. DataKey \in {"served", "failed"} /\ (DataKey = "failed" => "kms_broken" \in off)
    BY <1>1 DEF DataKey
  <1>3. ~Infers => "recognition_other" \in off
    BY DEF Infers
  <1>4. /\ EnrolAnswer \in {"served", "failed"}
        /\ EnrolAnswer = "failed" => "kms_broken" \in off \/ "recognition_other" \in off
    BY <1>2, <1>3 DEF EnrolAnswer
  <1>5. /\ VerifyAnswer \in {"served", "failed"}
        /\ VerifyAnswer = "failed" => "kms_broken" \in off \/ "recognition_other" \in off
        /\ VerifyAnswer = "served" => Infers
    BY <1>2, <1>3 DEF VerifyAnswer
  <1>6. HashAnswer \in {"served", "refused"} /\ PinAnswer = "served"
    BY <1>1 DEF HashAnswer, PinAnswer
  <1>7. "kms_broken" \in off \/ "recognition_other" \in off => off \cap FoundLate # {}
    BY DEF FoundLate
  <1>8. path \in {"health", "ready", "metrics", "warmup", "pin_hash", "pin_verify", "enrol",
                  "verify", "liveness"}
    BY DEF ServicePaths, Paths
  <1>9. /\ path \in {"health", "metrics", "liveness"} => Handler(path) = "served"
        /\ path = "ready" => Handler(path) = IF inferred THEN "served" ELSE "starting"
        /\ path = "warmup" => Handler(path) = IF Warmed THEN "served" ELSE "starting"
        /\ path = "pin_hash" => Handler(path) = HashAnswer
        /\ path = "pin_verify" => Handler(path) = PinAnswer
        /\ path = "enrol" => Handler(path) = EnrolAnswer
        /\ path = "verify" => Handler(path) = VerifyAnswer
    BY DEF Handler
  <1>10. path = "ready" => (Handler(path) = "served" => inferred)
    BY <1>9
  <1>11. path = "verify" => (Handler(path) = "served" => Infers)
    BY <1>5, <1>9
  <1>12. Handler(path) \in {"served", "starting", "refused", "failed"}
    BY <1>4, <1>5, <1>6, <1>8, <1>9
  <1>13. Handler(path) = "failed" => path \in {"enrol", "verify"}
    BY <1>6, <1>8, <1>9
  <1>14. Handler(path) = "failed" => off \cap FoundLate # {}
    BY <1>4, <1>5, <1>7, <1>9, <1>13
  <1> QED
    BY <1>10, <1>11, <1>12, <1>14

LEMMA ServiceAnswers ==
    ASSUME StartInv, service = "up", NEW path \in ServicePaths, NEW bySecret \in BOOLEAN,
           NEW admin \in BOOLEAN
    PROVE  /\ Served(path, bySecret, admin) \in Results \ {"config_error"}
           /\ Served(path, bySecret, admin) = "failed" => off \cap FoundLate # {}
           /\ Served(path, bySecret, admin) = "served" =>
                /\ path \in Exempt \/ bySecret \/ "auth_off" \in warnings
                /\ path \in AdminPaths => admin
                /\ path = "verify" => Infers
                /\ path = "ready" => inferred
  <1>1. /\ "auth_off" \notin off => ~Unreadable("hmac_secret")
        /\ "auth_off" \in off => "auth_off" \in warnings
    BY UpIsConfigured
  <1>2. \/ Served(path, bySecret, admin) \in {"too_large", "unauthorized"}
        \/ /\ Served(path, bySecret, admin) = Handler(path)
           /\ path \in Exempt \/ bySecret \/ "auth_off" \in off
           /\ path \in Exempt \/ (path \in AdminPaths => admin)
    BY <1>1 DEF Served
  <1>3. path \in Exempt => path \notin AdminPaths
    BY DEF Exempt, AdminPaths
  <1>4. /\ Handler(path) \in {"served", "starting", "refused", "failed"}
        /\ Handler(path) = "failed" => off \cap FoundLate # {}
        /\ path = "verify" /\ Handler(path) = "served" => Infers
        /\ path = "ready" /\ Handler(path) = "served" => inferred
    BY HandlerAnswers
  <1>5. CASE Served(path, bySecret, admin) \in {"too_large", "unauthorized"}
    BY <1>5 DEF Results
  <1>6. CASE /\ Served(path, bySecret, admin) = Handler(path)
             /\ path \in Exempt \/ bySecret \/ "auth_off" \in off
             /\ path \in Exempt \/ (path \in AdminPaths => admin)
    <2>1. Served(path, bySecret, admin) \in Results \ {"config_error"}
      BY <1>4, <1>6 DEF Results
    <2> QED
      BY <1>1, <1>3, <1>4, <1>6, <2>1
  <1> QED
    BY <1>2, <1>5, <1>6

\* An answer is sound when what it says of its call is.
LEMMA AnswerIsSound ==
    ASSUME StartInv, service = "up", service' = service, off' = off, env' = env,
           warnings' = warnings, engine' = engine,
           NEW path \in Paths, NEW bySecret \in BOOLEAN, NEW admin \in BOOLEAN, NEW result \in Results,
           answer' = [path |-> path, signed |-> bySecret, admin |-> admin, result |-> result],
           result # "config_error",
           result = "failed" => off \cap FoundLate # {},
           result = "served" =>
             /\ path \in Exempt \cup {"login", "board"} \/ bySecret \/ "auth_off" \in warnings
             /\ path \in AdminPaths => admin
             /\ path \in {"verify", "checkin"} => Infers
             /\ path = "ready" => inferred
    PROVE  StartIsSound' /\ ServedWhenUp' /\ answer' \in Answers
  <1>1. answer'.path = path /\ answer'.signed = bySecret /\ answer'.admin = admin
        /\ answer'.result = result
    OBVIOUS
  <1>2. Infers' = Infers /\ Kms' = Kms
    BY DEF Infers, Kms
  <1>3. FailuresExplained'
    BY <1>1 DEF FailuresExplained
  <1>4. ServedToItsCaller'
    BY <1>1 DEF ServedToItsCaller
  <1>5. ComparedAsConfigured'
    <2>1. Infers => ("recognition_other" \in off => engine.embedder = "stub")
      BY DEF Infers
    <2> QED
      BY <1>1, <1>2, <2>1, UpIsConfigured DEF ComparedAsConfigured
  <1>6. ReadyHasRun'
    BY <1>1, <1>2, UpIsConfigured DEF ReadyHasRun, Warmed
  <1>7. ServedWhenUp'
    BY DEF ServedWhenUp
  <1>8. answer' \in Answers
    BY DEF Answers
  <1> QED
    BY <1>3, <1>4, <1>5, <1>6, <1>7, <1>8 DEF StartIsSound

LEMMA CallKeeps ==
    ASSUME StartInv, Call PROVE StartInv'
  <1>1. /\ service = "up" /\ service' = service /\ env' = env /\ off' = off /\ backend' = backend
        /\ warnings' = warnings /\ engine' = engine
    BY DEF Call
  <1>2. PICK path \in ServicePaths, bySecret \in BOOLEAN, admin \in BOOLEAN :
          /\ answer' = [path |-> path, signed |-> bySecret, admin |-> admin,
                        result |-> Served(path, bySecret, admin)]
          /\ inferred' = IF path = "warmup" /\ Served(path, bySecret, admin) \in {"served", "starting"}
                         THEN Warmed ELSE inferred
    BY DEF Call, ServicePaths
  <1>3. path \in Paths /\ path \notin {"checkin", "login", "board"}
    BY <1>2 DEF ServicePaths
  <1>4. PICK result \in Results : result = Served(path, bySecret, admin)
    BY <1>1, <1>2, ServiceAnswers
  <1>5. /\ result # "config_error"
        /\ result = "failed" => off \cap FoundLate # {}
        /\ result = "served" =>
             /\ path \in Exempt \/ bySecret \/ "auth_off" \in warnings
             /\ path \in AdminPaths => admin
             /\ path = "verify" => Infers
             /\ path = "ready" => inferred
    BY <1>1, <1>2, <1>4, ServiceAnswers
  <1>6. StartIsSound' /\ ServedWhenUp' /\ answer' \in Answers
    <2>1. answer' = [path |-> path, signed |-> bySecret, admin |-> admin, result |-> result]
      BY <1>2, <1>4
    <2>2. result = "served" =>
             /\ path \in Exempt \cup {"login", "board"} \/ bySecret \/ "auth_off" \in warnings
             /\ path \in AdminPaths => admin
             /\ path \in {"verify", "checkin"} => Infers
             /\ path = "ready" => inferred
      BY <1>3, <1>5
    <2> QED
      BY <1>1, <1>2, <1>3, <1>4, <1>5, <2>1, <2>2, AnswerIsSound
  <1>7. /\ Startable' = Startable /\ Deployed' = Deployed /\ Kms' = Kms /\ Warmed' = Warmed
        /\ Warmed \in BOOLEAN
    BY <1>1 DEF Startable, Deployed, Kms, Unreadable, Warmed, Infers
  <1>8. inferred' \in {Warmed, inferred}
    BY <1>2
  <1>9. StartupTypeOK'
    BY <1>1, <1>6, <1>7, <1>8 DEF StartInv, StartupTypeOK
  <1>10. inferred' => service' = "up" /\ Warmed'
    BY <1>1, <1>7, <1>8, UpIsConfigured
  <1>11. Checked'
    BY <1>1, <1>7, <1>10 DEF StartInv, Checked
  <1> QED
    BY <1>6, <1>9, <1>11 DEF StartInv

-----------------------------------------------------------------------------
LEMMA ReadEnvKeeps ==
    ASSUME StartInv, ReadEnv \/ Listen PROVE StartInv'
  <1>1. /\ service' = service /\ env' = env /\ off' = off /\ warnings' = warnings
        /\ engine' = engine /\ inferred' = inferred /\ answer' = answer
        /\ backend' \in {"configured", "up", "refused"}
    BY DEF ReadEnv, Listen
  <1>2. /\ Startable' = Startable /\ Deployed' = Deployed /\ Kms' = Kms /\ Warmed' = Warmed
        /\ Infers' = Infers
    BY <1>1 DEF Startable, Deployed, Kms, Unreadable, Warmed, Infers
  <1>3. StartupTypeOK'
    BY <1>1 DEF StartInv, StartupTypeOK
  <1>4. Checked'
    BY <1>1, <1>2 DEF StartInv, Checked
  <1>5. ServedWhenUp'
    BY <1>1 DEF StartInv, ServedWhenUp
  <1>6. StartIsSound'
    BY <1>1, <1>2 DEF StartInv, StartIsSound, FailuresExplained, ServedToItsCaller,
                      ComparedAsConfigured, ReadyHasRun
  <1> QED
    BY <1>3, <1>4, <1>5, <1>6 DEF StartInv

\* The backend's answers: only a check-in reaches the AI service.
LEMMA BackendAnswers ==
    ASSUME StartInv
    PROVE  /\ Login \in {"failed", "served"} /\ (Login = "failed" => off \cap FoundLate # {})
           /\ Board \in {"unauthorized", "served"}
           /\ CheckIn \in {"unauthorized", "failed", "unreachable", "served"}
           /\ CheckIn = "failed" => off \cap FoundLate # {}
           /\ CheckIn = "served" =>
                /\ service = "up" /\ Infers
                /\ SharedSecret \/ "auth_off" \in warnings
  <1>1. /\ Login \in {"failed", "served"} /\ (Login = "failed" => off \cap FoundLate # {})
        /\ Board \in {"unauthorized", "served"}
    BY DEF Login, Board, FoundLate
  <1>2. SharedSecret \in BOOLEAN
    BY DEF SharedSecret
  <1>3. CASE Board # "served" \/ "shared_secret_malformed" \in off \/ service # "up"
    <2>1. /\ CheckIn \in {"unauthorized", "failed", "unreachable"}
          /\ CheckIn = "failed" => "shared_secret_malformed" \in off
      BY <1>1, <1>3 DEF CheckIn
    <2> QED
      BY <1>1, <2>1 DEF FoundLate
  <1>4. CASE Board = "served" /\ "shared_secret_malformed" \notin off /\ service = "up"
    <2> DEFINE reply == Served("verify", SharedSecret, FALSE)
    <2>1. "verify" \in ServicePaths /\ "verify" \notin Exempt /\ "verify" \notin AdminPaths
      BY DEF ServicePaths, Paths, Exempt, AdminPaths
    <2>2. /\ reply # "config_error"
          /\ reply = "failed" => off \cap FoundLate # {}
          /\ reply = "served" => (SharedSecret \/ "auth_off" \in warnings) /\ Infers
      BY <1>2, <1>4, <2>1, ServiceAnswers
    <2>3. CheckIn = IF reply = "unauthorized" THEN reply
                    ELSE IF reply # "served" \/ "geo_keys_bad" \in off THEN "failed" ELSE "served"
      BY <1>4 DEF CheckIn
    <2>4. reply \in {"unauthorized", "served", "failed"}
      <3>1. ~TooLarge("verify")
        BY DEF TooLarge
      <3>2. Handler("verify") = VerifyAnswer
        BY DEF Handler
      <3>3. VerifyAnswer \in {"served", "failed", "config_error"}
        BY DEF VerifyAnswer, DataKey
      <3>4. reply \in {"config_error", "unauthorized", Handler("verify")}
        BY <2>1, <3>1 DEF Served
      <3> QED
        BY <2>2, <3>2, <3>3, <3>4
    <2>5. "geo_keys_bad" \in off => off \cap FoundLate # {}
      BY DEF FoundLate
    <2> HIDE DEF reply
    <2>6. CheckIn \in {"unauthorized", "failed", "served"}
      BY <2>3
    <2>7. CheckIn = "failed" => off \cap FoundLate # {}
      BY <2>2, <2>3, <2>4, <2>5
    <2>8. CheckIn = "served" => reply = "served"
      BY <2>3
    <2> QED
      BY <1>1, <1>4, <2>2, <2>6, <2>7, <2>8
  <1> QED
    BY <1>1, <1>3, <1>4

LEMMA BackendCallKeeps ==
    ASSUME StartInv, BackendCall PROVE StartInv'
  <1>1. /\ service' = service /\ env' = env /\ off' = off /\ backend' = backend
        /\ warnings' = warnings /\ engine' = engine /\ inferred' = inferred
    BY DEF BackendCall
  <1>2. PICK path \in {"login", "board", "checkin"} :
          answer' = [path |-> path, signed |-> SharedSecret, admin |-> FALSE,
                     result |-> CASE path = "login" -> Login
                                  [] path = "board" -> Board
                                  [] path = "checkin" -> CheckIn]
    BY DEF BackendCall
  <1>3. PICK result : /\ answer' = [path |-> path, signed |-> SharedSecret, admin |-> FALSE,
                                    result |-> result]
                      /\ path = "login" => result = Login
                      /\ path = "board" => result = Board
                      /\ path = "checkin" => result = CheckIn
    BY <1>2
  <1>4. /\ path \in Paths /\ path \notin AdminPaths /\ path \notin {"verify", "ready"}
        /\ SharedSecret \in BOOLEAN
    BY <1>2 DEF Paths, AdminPaths, SharedSecret
  <1>5. result \in {"unauthorized", "failed", "unreachable", "served"}
    BY <1>2, <1>3, BackendAnswers
  <1>6. result = "failed" => off \cap FoundLate # {}
    <2>1. path = "board" => result # "failed"
      BY <1>3, BackendAnswers
    <2> QED
      BY <1>2, <1>3, <2>1, BackendAnswers
  <1>7. result \in Results /\ result # "config_error"
    BY <1>5 DEF Results
  <1>8. /\ answer'.path = path /\ answer'.signed = SharedSecret /\ answer'.admin = FALSE
        /\ answer'.result = result
    BY <1>3
  <1>9. answer' \in Answers
    BY <1>3, <1>4, <1>7 DEF Answers
  <1>10. path = "checkin" /\ result = "served" =>
           service = "up" /\ Infers /\ (SharedSecret \/ "auth_off" \in warnings)
    BY <1>3, BackendAnswers
  <1>11. /\ Startable' = Startable /\ Deployed' = Deployed /\ Kms' = Kms /\ Warmed' = Warmed
         /\ Infers' = Infers
    BY <1>1 DEF Startable, Deployed, Kms, Unreadable, Warmed, Infers
  <1>12. StartupTypeOK'
    BY <1>1, <1>9 DEF StartInv, StartupTypeOK
  <1>13. Checked'
    BY <1>1, <1>11 DEF StartInv, Checked
  <1>14. ServedWhenUp'
    BY <1>1, <1>2, <1>8, <1>10 DEF ServedWhenUp
  <1>15. FailuresExplained'
    BY <1>1, <1>6, <1>7, <1>8 DEF FailuresExplained
  <1>16. ServedToItsCaller'
    BY <1>1, <1>2, <1>4, <1>8, <1>10 DEF ServedToItsCaller
  <1>17. ReadyHasRun'
    BY <1>4, <1>8 DEF ReadyHasRun
  <1>18. ComparedAsConfigured'
    <2>1. Infers => ("recognition_other" \in off => engine.embedder = "stub")
      BY DEF Infers
    <2>2. path \in {"verify", "checkin"} /\ result = "served" => service = "up" /\ Infers
      BY <1>4, <1>10
    <2> QED
      BY <1>1, <1>8, <1>11, <2>1, <2>2, UpIsConfigured DEF ComparedAsConfigured
  <1> QED
    BY <1>12, <1>13, <1>14, <1>15, <1>16, <1>17, <1>18 DEF StartInv, StartIsSound

LEMMA StartStands ==
    ASSUME StartInv, UNCHANGED startupVars PROVE StartInv'
  <1>1. /\ service' = service /\ env' = env /\ off' = off /\ warnings' = warnings
        /\ engine' = engine /\ inferred' = inferred /\ answer' = answer
        /\ backend' = backend
    BY DEF startupVars
  <1>2. /\ Startable' = Startable /\ Deployed' = Deployed /\ Kms' = Kms /\ Warmed' = Warmed
        /\ Infers' = Infers
    BY <1>1 DEF Startable, Deployed, Kms, Unreadable, Warmed, Infers
  <1>3. StartupTypeOK'
    BY <1>1 DEF StartInv, StartupTypeOK
  <1>4. Checked'
    BY <1>1, <1>2 DEF StartInv, Checked
  <1>5. ServedWhenUp'
    BY <1>1 DEF StartInv, ServedWhenUp
  <1>6. StartIsSound'
    BY <1>1, <1>2 DEF StartInv, StartIsSound, FailuresExplained, ServedToItsCaller,
                      ComparedAsConfigured, ReadyHasRun
  <1> QED
    BY <1>3, <1>4, <1>5, <1>6 DEF StartInv

LEMMA StartupKeeps == StartupSpec => []StartInv
  <1>1. StartInv /\ [StartupNext]_startupVars => StartInv'
    <2> SUFFICES ASSUME StartInv, [StartupNext]_startupVars PROVE StartInv'
      OBVIOUS
    <2> QED
      BY ImportMainKeeps, ValidateStartupKeeps, LoadCalibrationKeeps, BuildEngineKeeps,
         AssembleKeeps, WarmUpKeeps, CallKeeps, ReadEnvKeeps, BackendCallKeeps, StartStands
         DEF StartupNext
  <1> QED
    BY StartStarts, <1>1, PTL DEF StartupSpec

\* A server's settings, its engine, its warnings and its last answer keep
\* their shape through the start of config.py and runtime.py and the calls.
THEOREM StartsTyped == StartupSpec => []StartupTypeOK
  <1>1. StartInv => StartupTypeOK
    BY DEF StartInv
  <1> QED
    BY <1>1, StartupKeeps, PTL

\* config.py's "so boot fails loudly, not lazily", for every configuration
\* that Startup's settings can express, of whatever number of deviations: no
\* call to an up service finds a setting unreadable, what fails is among what
\* no boot looks at, and what boot let pass is among the warnings of /ready.
THEOREM StartsAreSound == StartupSpec => []StartIsSound
  <1>1. StartInv => StartIsSound
    BY DEF StartInv
  <1> QED
    BY <1>1, StartupKeeps, PTL
=============================================================================
