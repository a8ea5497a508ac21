--------------------------- MODULE PinLockoutProofs ---------------------------
(***************************************************************************)
(* Proofs about PinLockout for every number of employees and threads, every *)
(* budget, lockout length and dictionary size.                             *)
(***************************************************************************)
EXTENDS PinLockout, LruDictProofs, FiniteSetTheorems

\* Threads that have been admitted for u and have not compared yet.
Waiting(u) == {r \in Requests : phase[r] = "admitted" /\ account[r] = u}

\* Threads that found a wrong PIN for u and have not recorded it yet.
Wrong(u) == {r \in Requests : phase[r] = "mismatched" /\ account[r] = u}

\* Where the wrong comparisons of u are accounted for.  Before a lock each one
\* is in the counter or about to be; from the lock on, the threads already
\* admitted are all that can still add to them.
Accounted(u) ==
    /\ until[u] = 0 => spent[u] <= fails[u] + Cardinality(Wrong(u))
    /\ until[u] # 0 => spent[u] + Cardinality(Waiting(u))
                         <= MaxAttempts + Cardinality(Requests) - 1

\* The inductive invariant: the bound on overspending is not inductive alone.
IInv ==
    /\ TypeOK
    /\ LockMatchesBudget
    /\ StoreBounded
    /\ \A u \in Users : Accounted(u)

USE UsersAssumption, RequestsAssumption, BudgetAssumption, BoundsAssumption

-----------------------------------------------------------------------------
\* A use of the entry of u sets that entry, and leaves every other entry as it
\* was or drops it whole; the dictionary stays well-formed.
LEMMA StoreEffect ==
    ASSUME IInv, NEW u \in Users, NEW f \in Nat, NEW t \in Nat, Store(u, f, t)
    PROVE  /\ recency' \in Seq(Users)
           /\ fails' \in [Users -> Nat]
           /\ until' \in [Users -> Nat]
           /\ StoreBounded'
           /\ fails'[u] = f /\ until'[u] = t
           /\ u \notin Evicted(recency, u, MaxKeys)
           /\ \A v \in Users \ {u} :
                IF v \in Evicted(recency, u, MaxKeys)
                THEN fails'[v] = 0 /\ until'[v] = 0
                     /\ Len(recency) = MaxKeys /\ v = Head(recency)
                ELSE fails'[v] = fails[v] /\ until'[v] = until[v]
<1> DEFINE e == Evicted(recency, u, MaxKeys)
<1>1. recency \in Seq(Users) /\ Distinct(recency) /\ Len(recency) <= MaxKeys
  BY DEF IInv, TypeOK, StoreBounded
<1>2. /\ recency' = Used(recency, u, MaxKeys)
      /\ fails' = [v \in Users |-> IF v = u THEN f ELSE IF v \in e THEN 0 ELSE fails[v]]
      /\ until' = [v \in Users |-> IF v = u THEN t ELSE IF v \in e THEN 0 ELSE until[v]]
  BY DEF Store
<1>3. /\ recency' \in Seq(Users)
      /\ Len(recency') <= MaxKeys
      /\ Distinct(recency')
      /\ Keys(recency') = (Keys(recency) \cup {u}) \ e
      /\ u \notin e
      /\ \A k \in e : Len(recency) = MaxKeys /\ k = Head(recency)
  BY <1>1, <1>2, UsedProperties
<1> HIDE DEF e
<1>4. fails \in [Users -> Nat] /\ until \in [Users -> Nat]
  BY DEF IInv, TypeOK
<1>5. \A v \in Users \ {u} :
        IF v \in e THEN fails'[v] = 0 /\ until'[v] = 0
        ELSE fails'[v] = fails[v] /\ until'[v] = until[v]
  BY <1>2
<1>6. \A v \in Users : v \notin Keys(recency') => fails'[v] = 0 /\ until'[v] = 0
  <2>1. \A v \in Users : v \notin Keys(recency) => fails[v] = 0 /\ until[v] = 0
    BY DEF IInv, StoreBounded
  <2>. QED  BY <1>3, <1>5, <2>1
<1>7. StoreBounded'
  BY <1>3, <1>6 DEF StoreBounded
<1>. QED  BY <1>2, <1>3, <1>4, <1>5, <1>7 DEF e

\* Dropping the entry of u leaves every other entry as it was.
LEMMA DropEffect ==
    ASSUME IInv, NEW r \in Requests, RegisterSuccess(r)
    PROVE  /\ recency' \in Seq(Users)
           /\ fails' \in [Users -> Nat]
           /\ until' \in [Users -> Nat]
           /\ StoreBounded'
<1> DEFINE u == account[r]
<1>1. recency \in Seq(Users) /\ Distinct(recency) /\ Len(recency) <= MaxKeys /\ u \in Users
  BY DEF IInv, TypeOK, StoreBounded
<1>2. recency' = Without(recency, u)
  BY DEF RegisterSuccess
<1>3. /\ recency' \in Seq(Users)
      /\ Len(recency') <= Len(recency)
      /\ Keys(recency') = Keys(recency) \ {u}
      /\ Distinct(recency')
  BY <1>1, <1>2, WithoutProperties
<1>4. /\ fails' = [fails EXCEPT ![u] = 0] /\ until' = [until EXCEPT ![u] = 0]
      /\ fails \in [Users -> Nat] /\ until \in [Users -> Nat]
  BY DEF RegisterSuccess, IInv, TypeOK
<1>5. \A v \in Users : v \notin Keys(recency') => fails'[v] = 0 /\ until'[v] = 0
  <2>1. \A v \in Users : v \notin Keys(recency) => fails[v] = 0 /\ until[v] = 0
    BY DEF IInv, StoreBounded
  <2>. QED  BY <1>1, <1>3, <1>4, <2>1
<1>6. Len(recency') <= MaxKeys
  BY <1>1, <1>3, LenProperties
<1>. QED  BY <1>3, <1>4, <1>5, <1>6 DEF StoreBounded

\* A thread is waiting, has found a wrong PIN, or neither, so the two sets
\* together are no larger than the thread pool.
LEMMA ThreadsShared ==
    ASSUME NEW u \in Users
    PROVE  /\ IsFiniteSet(Waiting(u)) /\ Cardinality(Waiting(u)) \in Nat
           /\ IsFiniteSet(Wrong(u)) /\ Cardinality(Wrong(u)) \in Nat
           /\ Cardinality(Requests) \in Nat \ {0}
           /\ Cardinality(Waiting(u)) + Cardinality(Wrong(u)) <= Cardinality(Requests)
<1>1. Waiting(u) \subseteq Requests /\ Wrong(u) \subseteq Requests
  BY DEF Waiting, Wrong
<1>2. IsFiniteSet(Waiting(u)) /\ IsFiniteSet(Wrong(u))
  BY <1>1, FS_Subset
<1>3. Waiting(u) \cap Wrong(u) = {}
  BY DEF Waiting, Wrong
<1>4. Cardinality(Waiting(u) \cup Wrong(u)) = Cardinality(Waiting(u)) + Cardinality(Wrong(u))
  <2>1. Cardinality(Waiting(u) \cup Wrong(u))
          = Cardinality(Waiting(u)) + Cardinality(Wrong(u)) - Cardinality(Waiting(u) \cap Wrong(u))
    BY <1>2, FS_Union
  <2>2. Cardinality(Waiting(u) \cap Wrong(u)) = 0
    BY <1>3, FS_EmptySet
  <2>. QED  BY <1>2, <2>1, <2>2, FS_CardinalityType
<1>5. Cardinality(Waiting(u) \cup Wrong(u)) <= Cardinality(Requests)
  BY <1>1, FS_Subset
<1>6. Cardinality(Requests) \in Nat /\ Cardinality(Requests) # 0
  BY FS_CardinalityType, FS_EmptySet
<1>. QED  BY <1>2, <1>4, <1>5, <1>6, FS_CardinalityType

-----------------------------------------------------------------------------
\* Every variable keeps its type.
LEMMA TypeStep == IInv /\ [Next]_vars => TypeOK'
<1> SUFFICES ASSUME IInv, [Next]_vars  PROVE TypeOK'
  OBVIOUS
<1> USE DEF TypeOK, Phases
<1>0. TypeOK
  BY DEF IInv
<1>1. ASSUME NEW r \in Requests, NEW u \in Users, VerifyPin(r, u)  PROVE TypeOK'
  <2>1. PICK f \in Nat, t \in Nat, n \in Nat : Store(u, f, t) /\ SpentAfterStore(u, n)
    BY <1>0, <1>1 DEF VerifyPin
  <2>2. recency' \in Seq(Users) /\ fails' \in [Users -> Nat] /\ until' \in [Users -> Nat]
    BY <2>1, StoreEffect
  <2>3. spent' \in [Users -> Nat]
    BY <1>0, <2>1 DEF SpentAfterStore
  <2>4. phase' \in [Requests -> Phases] /\ account' \in [Requests -> Users] /\ now' \in Nat
    BY <1>0, <1>1 DEF VerifyPin
  <2>. QED  BY <2>2, <2>3, <2>4
<1>2. ASSUME NEW r \in Requests, ComparePin(r)  PROVE TypeOK'
  <2>1. account[r] \in Users /\ spent[account[r]] + 1 \in Nat
    BY <1>0
  <2>2. phase' \in [Requests -> Phases]
    BY <1>0, <1>2 DEF ComparePin
  <2>3. spent' \in [Users -> Nat]
    BY <1>0, <1>2, <2>1 DEF ComparePin
  <2>. QED  BY <1>0, <1>2, <2>2, <2>3 DEF ComparePin
<1>3. ASSUME NEW r \in Requests, RegisterSuccess(r)  PROVE TypeOK'
  <2>1. recency' \in Seq(Users) /\ fails' \in [Users -> Nat] /\ until' \in [Users -> Nat]
    BY <1>3, DropEffect
  <2>. QED  BY <1>0, <1>3, <2>1 DEF RegisterSuccess
<1>4. ASSUME NEW r \in Requests, RegisterFailure(r)  PROVE TypeOK'
  <2>1. account[r] \in Users /\ fails[account[r]] + 1 \in Nat /\ now + LockoutSeconds \in Nat
    BY <1>0
  <2>2. PICK f \in Nat, t \in Nat : Store(account[r], f, t)
    BY <1>0, <1>4, <2>1 DEF RegisterFailure
  <2>3. recency' \in Seq(Users) /\ fails' \in [Users -> Nat] /\ until' \in [Users -> Nat]
    BY <2>1, <2>2, StoreEffect
  <2>4. spent' \in [Users -> Nat]
    BY <1>0, <1>4, <2>1 DEF RegisterFailure, SpentAfterStore
  <2>5. phase' \in [Requests -> Phases] /\ account' \in [Requests -> Users] /\ now' \in Nat
    BY <1>0, <1>4 DEF RegisterFailure
  <2>. QED  BY <2>3, <2>4, <2>5
<1>5. CASE Tick
  BY <1>0, <1>5 DEF Tick
<1>6. CASE UNCHANGED vars
  BY <1>0, <1>6 DEF vars
<1>. QED  BY <1>1, <1>2, <1>3, <1>4, <1>5, <1>6 DEF Next

-----------------------------------------------------------------------------
\* Deadlines stay within one lockout of the clock and mark exactly the spent budgets.
LEMMA LockStep == IInv /\ [Next]_vars => LockMatchesBudget'
<1> SUFFICES ASSUME IInv, [Next]_vars, NEW u \in Users
             PROVE  /\ until'[u] <= now' + LockoutSeconds
                    /\ until'[u] # 0 <=> fails'[u] >= MaxAttempts
  BY DEF LockMatchesBudget
<1> DEFINE Good(v) == /\ until'[v] <= now' + LockoutSeconds
                      /\ until'[v] # 0 <=> fails'[v] >= MaxAttempts
<1>0. /\ now \in Nat /\ fails \in [Users -> Nat] /\ until \in [Users -> Nat]
      /\ phase \in [Requests -> Phases] /\ account \in [Requests -> Users]
      /\ \A v \in Users : /\ until[v] <= now + LockoutSeconds
                          /\ until[v] # 0 <=> fails[v] >= MaxAttempts
  BY DEF IInv, TypeOK, LockMatchesBudget
\* A use of some entry keeps the property if the entry it writes has it.
<1>1. ASSUME NEW w \in Users, NEW f \in Nat, NEW t \in Nat, Store(w, f, t), now' = now,
             t <= now + LockoutSeconds, t # 0 <=> f >= MaxAttempts
      PROVE  Good(u)
  <2>1. /\ fails'[w] = f /\ until'[w] = t
        /\ \A v \in Users \ {w} :
              (fails'[v] = 0 /\ until'[v] = 0) \/ (fails'[v] = fails[v] /\ until'[v] = until[v])
    BY <1>1, StoreEffect
  <2>2. CASE u = w
    BY <1>1, <2>1, <2>2
  <2>3. CASE u # w
    BY <1>0, <1>1, <2>1, <2>3
  <2>. QED  BY <2>2, <2>3
<1>2. ASSUME NEW r \in Requests, NEW w \in Users, VerifyPin(r, w)  PROVE Good(u)
  <2>1. now' = now /\ fails[w] \in Nat /\ until[w] \in Nat
    BY <1>0, <1>2 DEF VerifyPin
  <2>2. \/ Store(w, fails[w], until[w])
        \/ Store(w, 0, 0)
    BY <1>2 DEF VerifyPin
  <2>3. 0 <= now + LockoutSeconds /\ ~(0 >= MaxAttempts)
    BY <1>0
  <2>. QED  BY <1>0, <1>1, <2>1, <2>2, <2>3
<1>3. ASSUME NEW r \in Requests, ComparePin(r)  PROVE Good(u)
  BY <1>0, <1>3 DEF ComparePin
<1>4. ASSUME NEW r \in Requests, RegisterSuccess(r)  PROVE Good(u)
  BY <1>0, <1>4 DEF RegisterSuccess
<1>5. ASSUME NEW r \in Requests, RegisterFailure(r)  PROVE Good(u)
  <2> DEFINE w == account[r]
  <2>1. w \in Users /\ fails[w] \in Nat /\ until[w] \in Nat /\ now' = now
    BY <1>0, <1>5 DEF RegisterFailure
  <2>2. \/ Store(w, fails[w], until[w])
        \/ fails[w] + 1 >= MaxAttempts /\ Store(w, fails[w] + 1, now + LockoutSeconds)
        \/ fails[w] + 1 < MaxAttempts /\ Store(w, fails[w] + 1, 0)
    BY <1>5 DEF RegisterFailure
  <2>3. /\ fails[w] + 1 \in Nat /\ now + LockoutSeconds \in Nat
        /\ now + LockoutSeconds # 0 /\ 0 <= now + LockoutSeconds
        /\ fails[w] + 1 < MaxAttempts => ~(fails[w] + 1 >= MaxAttempts)
    BY <1>0, <2>1
  <2> HIDE DEF w
  <2>4. CASE Store(w, fails[w], until[w])
    BY <1>0, <1>1, <2>1, <2>4
  <2>5. CASE fails[w] + 1 >= MaxAttempts /\ Store(w, fails[w] + 1, now + LockoutSeconds)
    BY <1>1, <2>1, <2>3, <2>5
  <2>6. CASE fails[w] + 1 < MaxAttempts /\ Store(w, fails[w] + 1, 0)
    BY <1>1, <2>1, <2>3, <2>6
  <2>. QED  BY <2>2, <2>4, <2>5, <2>6
<1>6. CASE Tick
  BY <1>0, <1>6 DEF Tick
<1>7. CASE UNCHANGED vars
  BY <1>0, <1>7 DEF vars
<1>. QED  BY <1>2, <1>3, <1>4, <1>5, <1>6, <1>7 DEF Next

\* The dictionary stays within its limit, without duplicates or forgotten locks.
LEMMA StoreStep == IInv /\ [Next]_vars => StoreBounded'
<1> SUFFICES ASSUME IInv, [Next]_vars  PROVE StoreBounded'
  OBVIOUS
<1>0. /\ now \in Nat /\ fails \in [Users -> Nat] /\ until \in [Users -> Nat]
      /\ account \in [Requests -> Users] /\ StoreBounded
  BY DEF IInv, TypeOK
<1>1. ASSUME NEW r \in Requests, NEW w \in Users, VerifyPin(r, w)  PROVE StoreBounded'
  <2>1. PICK f \in Nat, t \in Nat : Store(w, f, t)
    BY <1>0, <1>1 DEF VerifyPin
  <2>. QED  BY <2>1, StoreEffect
<1>2. ASSUME NEW r \in Requests, RegisterFailure(r)  PROVE StoreBounded'
  <2>1. account[r] \in Users /\ fails[account[r]] + 1 \in Nat /\ now + LockoutSeconds \in Nat
    BY <1>0
  <2>2. PICK f \in Nat, t \in Nat : Store(account[r], f, t)
    BY <1>0, <1>2, <2>1 DEF RegisterFailure
  <2>. QED  BY <2>1, <2>2, StoreEffect
<1>3. ASSUME NEW r \in Requests, RegisterSuccess(r)  PROVE StoreBounded'
  BY <1>3, DropEffect
<1>4. ASSUME UNCHANGED <<recency, fails, until>>  PROVE StoreBounded'
  BY <1>0, <1>4 DEF StoreBounded, Distinct, Keys
<1>. QED  BY <1>1, <1>2, <1>3, <1>4 DEF Next, ComparePin, Tick, vars

-----------------------------------------------------------------------------
\* Wrong comparisons stay accounted for.
LEMMA AccountedStep == IInv /\ [Next]_vars => \A u \in Users : Accounted(u)'
<1> SUFFICES ASSUME IInv, [Next]_vars, NEW u \in Users  PROVE Accounted(u)'
  OBVIOUS
<1> DEFINE N == Cardinality(Requests)
<1>0. /\ now \in Nat /\ fails \in [Users -> Nat] /\ until \in [Users -> Nat]
      /\ phase \in [Requests -> Phases] /\ account \in [Requests -> Users]
      /\ spent \in [Users -> Nat]
      /\ Accounted(u) /\ (until[u] # 0 <=> fails[u] >= MaxAttempts)
  BY DEF IInv, TypeOK, LockMatchesBudget
<1>t. TypeOK'
  BY TypeStep
<1>c. /\ Cardinality(Waiting(u)) \in Nat /\ Cardinality(Wrong(u)) \in Nat /\ N \in Nat \ {0}
      /\ Cardinality(Waiting(u)) + Cardinality(Wrong(u)) <= N
      /\ IsFiniteSet(Waiting(u)) /\ IsFiniteSet(Wrong(u))
  BY ThreadsShared
<1> HIDE DEF N
\* An entry that is dropped, or whose threads, entry and ghost are untouched, is fine.
<1>z. ASSUME spent'[u] = 0, until'[u] = 0, fails'[u] = 0  PROVE Accounted(u)'
  <2>1. /\ IsFiniteSet(Wrong(u)') /\ Cardinality(Wrong(u)') \in Nat
    <3>1. Wrong(u)' \subseteq Requests
      BY DEF Wrong
    <3>. QED  BY <3>1, FS_Subset, FS_CardinalityType
  <2>. QED  BY <1>z, <2>1 DEF Accounted
<1>s. ASSUME Waiting(u)' = Waiting(u), Wrong(u)' = Wrong(u),
             spent'[u] = spent[u], until'[u] = until[u], fails'[u] = fails[u]
      PROVE  Accounted(u)'
  BY <1>0, <1>s DEF Accounted
<1>1. ASSUME NEW r \in Requests, NEW w \in Users, VerifyPin(r, w)  PROVE Accounted(u)'
  <2>1. /\ phase[r] = "idle" /\ account' = [account EXCEPT ![r] = w]
        /\ phase' = phase \/ phase' = [phase EXCEPT ![r] = "admitted"]
    BY <1>1 DEF VerifyPin
  <2>2. Wrong(u)' = Wrong(u)
    BY <1>0, <2>1 DEF Wrong
  <2>3. fails[w] \in Nat /\ until[w] \in Nat
    BY <1>0
  <2>4. PICK f \in Nat, t \in Nat, n \in Nat :
          /\ Store(w, f, t) /\ SpentAfterStore(w, n)
          /\ \/ f = 0 /\ t = 0 /\ n = 0
             \/ f = fails[w] /\ t = until[w] /\ n = spent[w] /\ (t # 0 => UNCHANGED phase)
    BY <1>0, <1>1, <2>3 DEF VerifyPin
  <2>5. /\ fails'[w] = f /\ until'[w] = t
        /\ w \notin Evicted(recency, w, MaxKeys)
        /\ \A v \in Users \ {w} :
             IF v \in Evicted(recency, w, MaxKeys)
             THEN fails'[v] = 0 /\ until'[v] = 0
             ELSE fails'[v] = fails[v] /\ until'[v] = until[v]
    BY <2>4, StoreEffect
  <2>6. /\ spent'[w] = n
        /\ \A v \in Users \ {w} :
             spent'[v] = IF v \in Evicted(recency, w, MaxKeys) THEN 0 ELSE spent[v]
    BY <2>4 DEF SpentAfterStore
  <2>7. CASE u = w
    <3>1. CASE f = 0 /\ t = 0 /\ n = 0
      BY <1>z, <2>5, <2>6, <2>7, <3>1
    <3>2. CASE f = fails[w] /\ t = until[w] /\ n = spent[w] /\ (t # 0 => UNCHANGED phase)
      <4>1. until'[u] = until[u] /\ fails'[u] = fails[u] /\ spent'[u] = spent[u]
        BY <2>5, <2>6, <2>7, <3>2
      <4>2. CASE until[u] = 0
        BY <1>0, <2>2, <4>1, <4>2 DEF Accounted
      <4>3. CASE until[u] # 0
        <5>1. phase' = phase
          BY <2>7, <3>2, <4>3
        <5>2. Waiting(u)' = Waiting(u)
          BY <1>0, <2>1, <5>1 DEF Waiting
        <5>. QED  BY <1>s, <2>2, <4>1, <5>2
      <4>. QED  BY <4>2, <4>3
    <3>. QED  BY <2>4, <3>1, <3>2
  <2>8. CASE u # w
    <3>1. CASE u \in Evicted(recency, w, MaxKeys)
      BY <1>z, <2>5, <2>6, <2>8, <3>1
    <3>2. CASE u \notin Evicted(recency, w, MaxKeys)
      <4>1. Waiting(u)' = Waiting(u)
        BY <1>0, <2>1, <2>8 DEF Waiting
      <4>. QED  BY <1>s, <2>2, <2>5, <2>6, <2>8, <3>2, <4>1
    <3>. QED  BY <3>1, <3>2
  <2>. QED  BY <2>7, <2>8
<1>2. ASSUME NEW r \in Requests, ComparePin(r)  PROVE Accounted(u)'
  <2> DEFINE w == account[r]
  <2>1. /\ w \in Users /\ phase[r] = "admitted"
        /\ UNCHANGED <<fails, until, account>>
    BY <1>0, <1>2 DEF ComparePin
  <2>2. CASE w # u
    <3>1. Waiting(u)' = Waiting(u) /\ Wrong(u)' = Wrong(u) /\ spent'[u] = spent[u]
      BY <1>0, <1>2, <2>1, <2>2 DEF ComparePin, Waiting, Wrong
    <3>. QED  BY <1>s, <2>1, <3>1
  <2>3. CASE w = u
    <3>1. /\ Waiting(u)' = Waiting(u) \ {r} /\ r \in Waiting(u)
          /\ \/ Wrong(u)' = Wrong(u) /\ spent' = spent
             \/ Wrong(u)' = Wrong(u) \cup {r} /\ r \notin Wrong(u) /\ spent'[u] = spent[u] + 1
      <4>1. r \in Waiting(u) /\ r \notin Wrong(u)
        BY <2>1, <2>3 DEF Waiting, Wrong
      <4>2. CASE phase' = [phase EXCEPT ![r] = "matched"] /\ spent' = spent
        BY <1>0, <2>1, <4>1, <4>2 DEF Waiting, Wrong
      <4>3. CASE /\ phase' = [phase EXCEPT ![r] = "mismatched"]
                 /\ spent' = [spent EXCEPT ![w] = @ + 1]
        <5>1. Waiting(u)' = Waiting(u) \ {r}
          BY <1>0, <2>1, <4>1, <4>3 DEF Waiting
        <5>2. Wrong(u)' = Wrong(u) \cup {r}
          BY <1>0, <2>1, <2>3, <4>1, <4>3 DEF Wrong
        <5>. QED  BY <1>0, <2>3, <4>1, <4>3, <5>1, <5>2
      <4>. QED  BY <1>2, <4>2, <4>3 DEF ComparePin
    <3>2. Cardinality(Waiting(u)') = Cardinality(Waiting(u)) - 1
      <4>1. Cardinality(Waiting(u) \ {r}) = Cardinality(Waiting(u)) - 1
        BY <1>c, <3>1, FS_RemoveElement
      <4>. QED  BY <3>1, <4>1
    <3>3. r \notin Wrong(u) => Cardinality(Wrong(u) \cup {r}) = Cardinality(Wrong(u)) + 1
      BY <1>c, FS_AddElement
    <3>4. until'[u] = until[u] /\ fails'[u] = fails[u]
      BY <2>1
    <3>. QED  BY <1>0, <1>c, <3>1, <3>2, <3>3, <3>4 DEF Accounted, N
  <2>. QED  BY <2>2, <2>3
<1>3. ASSUME NEW r \in Requests, RegisterSuccess(r)  PROVE Accounted(u)'
  <2>1. /\ account[r] \in Users /\ phase[r] = "matched" /\ account' = account
        /\ phase' = [phase EXCEPT ![r] = "idle"]
        /\ fails' = [fails EXCEPT ![account[r]] = 0]
        /\ until' = [until EXCEPT ![account[r]] = 0]
        /\ spent' = [spent EXCEPT ![account[r]] = 0]
    BY <1>0, <1>3 DEF RegisterSuccess
  <2>2. CASE account[r] = u
    BY <1>0, <1>z, <2>1, <2>2
  <2>3. CASE account[r] # u
    <3>1. Waiting(u)' = Waiting(u) /\ Wrong(u)' = Wrong(u)
      BY <1>0, <2>1 DEF Waiting, Wrong
    <3>. QED  BY <1>0, <1>s, <2>1, <2>3, <3>1
  <2>. QED  BY <2>2, <2>3
<1>4. ASSUME NEW r \in Requests, RegisterFailure(r)  PROVE Accounted(u)'
  <2> DEFINE w == account[r]
  <2>1. /\ w \in Users /\ phase[r] = "mismatched" /\ UNCHANGED account
        /\ phase' = [phase EXCEPT ![r] = "idle"]
        /\ fails[w] \in Nat /\ until[w] \in Nat
        /\ SpentAfterStore(w, spent[w])
    BY <1>0, <1>4 DEF RegisterFailure
  <2>2. Waiting(u)' = Waiting(u)
    BY <1>0, <2>1 DEF Waiting
  <2>3. PICK f \in Nat, t \in Nat :
          /\ Store(w, f, t)
          /\ \/ f = fails[w] /\ t = until[w] /\ until[w] # 0
             \/ f = fails[w] + 1 /\ f >= MaxAttempts /\ t # 0
             \/ f = fails[w] + 1 /\ f < MaxAttempts /\ t = 0
    <3>1. fails[w] + 1 \in Nat /\ now + LockoutSeconds \in Nat /\ now + LockoutSeconds # 0
      BY <1>0, <2>1
    <3>2. Locked(w) => until[w] # 0
      BY <1>0, <2>1 DEF Locked
    <3>. QED  BY <1>4, <2>1, <3>1, <3>2 DEF RegisterFailure
  <2>4. /\ fails'[w] = f /\ until'[w] = t
        /\ \A v \in Users \ {w} :
             IF v \in Evicted(recency, w, MaxKeys)
             THEN fails'[v] = 0 /\ until'[v] = 0
             ELSE fails'[v] = fails[v] /\ until'[v] = until[v]
    BY <2>1, <2>3, StoreEffect
  <2>5. /\ spent'[w] = spent[w]
        /\ \A v \in Users \ {w} :
             spent'[v] = IF v \in Evicted(recency, w, MaxKeys) THEN 0 ELSE spent[v]
    BY <2>1 DEF SpentAfterStore
  <2>6. CASE u # w
    <3>1. CASE u \in Evicted(recency, w, MaxKeys)
      BY <1>z, <2>4, <2>5, <2>6, <3>1
    <3>2. CASE u \notin Evicted(recency, w, MaxKeys)
      <4>1. Wrong(u)' = Wrong(u)
        BY <1>0, <2>1, <2>6 DEF Wrong
      <4>. QED  BY <1>s, <2>2, <2>4, <2>5, <2>6, <3>2, <4>1
    <3>. QED  BY <3>1, <3>2
  <2>7. CASE u = w
    <3>1. Wrong(u)' = Wrong(u) \ {r} /\ r \in Wrong(u)
      BY <1>0, <2>1, <2>7 DEF Wrong
    <3>2. Cardinality(Wrong(u)') = Cardinality(Wrong(u)) - 1
      <4>1. Cardinality(Wrong(u) \ {r}) = Cardinality(Wrong(u)) - 1
        BY <1>c, <3>1, FS_RemoveElement
      <4>. QED  BY <3>1, <4>1
    <3>3. /\ fails'[u] = f /\ until'[u] = t /\ spent'[u] = spent[u]
          /\ \/ f = fails[u] /\ t = until[u] /\ until[u] # 0
             \/ f = fails[u] + 1 /\ f >= MaxAttempts /\ t # 0
             \/ f = fails[u] + 1 /\ f < MaxAttempts /\ t = 0
      BY <2>3, <2>4, <2>5, <2>7
    <3>4. fails[u] \in Nat /\ until[u] \in Nat /\ spent[u] \in Nat
      BY <1>0
    <3>5. CASE t = 0
      <4>1. f = fails[u] + 1 /\ f < MaxAttempts
        BY <3>3, <3>5
      <4>2. until[u] = 0
        BY <1>0, <3>4, <4>1
      <4>. QED  BY <1>0, <1>c, <3>2, <3>3, <3>4, <3>5, <4>1, <4>2 DEF Accounted
    <3>6. CASE t # 0
      <4>1. CASE until[u] # 0
        BY <1>0, <2>2, <3>3, <3>6, <4>1 DEF Accounted
      <4>2. CASE until[u] = 0
        <5>1. fails[u] <= MaxAttempts - 1 /\ spent[u] <= fails[u] + Cardinality(Wrong(u))
          BY <1>0, <3>4, <4>2 DEF Accounted
        <5>2. spent[u] + Cardinality(Waiting(u)) <= MaxAttempts + N - 1
          BY <1>c, <3>4, <5>1
        <5>. QED  BY <2>2, <3>3, <3>6, <5>2 DEF Accounted, N
      <4>. QED  BY <4>1, <4>2
    <3>. QED  BY <3>5, <3>6
  <2>. QED  BY <2>6, <2>7
<1>5. CASE UNCHANGED <<fails, until, phase, account, spent>>
  BY <1>s, <1>5 DEF Waiting, Wrong
<1>. QED  BY <1>1, <1>2, <1>3, <1>4, <1>5 DEF Next, Tick, vars

-----------------------------------------------------------------------------
\* The inductive invariant holds of every behaviour.
THEOREM Invariance == Spec => []IInv
<1>1. Init => IInv
  <2> SUFFICES ASSUME Init  PROVE IInv
    OBVIOUS
  <2>1. recency = <<>> /\ recency \in Seq(Users) /\ Len(recency) = 0
    BY EmptySeq DEF Init
  <2>2. TypeOK
    BY <2>1 DEF Init, TypeOK, Phases
  <2>3. LockMatchesBudget
    BY DEF Init, LockMatchesBudget
  <2>4. StoreBounded
    BY <2>1 DEF Init, StoreBounded, Distinct
  <2>5. ASSUME NEW u \in Users  PROVE Accounted(u)
    BY ThreadsShared DEF Init, Accounted
  <2>. QED  BY <2>2, <2>3, <2>4, <2>5 DEF IInv
<1>2. IInv /\ [Next]_vars => IInv'
  BY TypeStep, LockStep, StoreStep, AccountedStep DEF IInv
<1>. QED  BY <1>1, <1>2, PTL DEF Spec

\* The variables of the PIN lockout always have their types.
THEOREM TypeCorrect == Spec => []TypeOK
<1>1. IInv => TypeOK
  BY DEF IInv
<1>. QED  BY <1>1, Invariance, PTL

\* However many threads verify PINs at once, no employee's budget is overspent
\* by more than one comparison for every thread but the one that locks.
THEOREM OverspendIsBounded == Spec => []OverspendBounded
<1>1. IInv => OverspendBounded
  <2> SUFFICES ASSUME IInv, NEW u \in Users
               PROVE  spent[u] <= MaxAttempts + Cardinality(Requests) - 1
    BY DEF OverspendBounded
  <2>1. /\ fails[u] \in Nat /\ until[u] \in Nat /\ spent[u] \in Nat
        /\ Accounted(u) /\ (until[u] # 0 <=> fails[u] >= MaxAttempts)
    BY DEF IInv, TypeOK, LockMatchesBudget
  <2>2. /\ Cardinality(Waiting(u)) \in Nat /\ Cardinality(Wrong(u)) \in Nat
        /\ Cardinality(Requests) \in Nat \ {0}
        /\ Cardinality(Waiting(u)) + Cardinality(Wrong(u)) <= Cardinality(Requests)
    BY ThreadsShared
  <2>. QED  BY <2>1, <2>2 DEF Accounted
<1>. QED  BY <1>1, Invariance, PTL

\* A lockout is never longer than configured, and marks exactly a spent budget.
THEOREM LockMatchesBudgetAlways == Spec => []LockMatchesBudget
<1>1. IInv => LockMatchesBudget
  BY DEF IInv
<1>. QED  BY <1>1, Invariance, PTL

\* The dictionary of standings never outgrows max_keys and forgets whole entries.
THEOREM StoreIsBounded == Spec => []StoreBounded
<1>1. IInv => StoreBounded
  BY DEF IInv
<1>. QED  BY <1>1, Invariance, PTL

\* While an employee is locked no number of concurrent requests moves the
\* deadline; the entry goes only whole, by a right PIN or by eviction.
THEOREM DeadlineIsFixed == Spec => LockedDeadlineFixed
<1> DEFINE DroppedWhole(u) ==
      /\ until'[u] = 0
      /\ fails'[u] = 0
      /\ \/ \E r \in Requests : phase[r] = "matched" /\ account[r] = u
         \/ Head(recency) = u /\ Len(recency) = MaxKeys
    Kept == \A u \in Users : Locked(u) /\ until'[u] # until[u] => DroppedWhole(u)
<1>1. IInv /\ [Next]_vars => Kept
  <2> SUFFICES ASSUME IInv, [Next]_vars, NEW u \in Users, Locked(u), until'[u] # until[u]
               PROVE  DroppedWhole(u)
    OBVIOUS
  <2>0. /\ now \in Nat /\ fails \in [Users -> Nat] /\ until \in [Users -> Nat]
        /\ account \in [Requests -> Users]
    BY DEF IInv, TypeOK
  <2>s. ASSUME NEW w \in Users, NEW f \in Nat, NEW t \in Nat, Store(w, f, t),
               w = u => t = until[u]
        PROVE  DroppedWhole(u)
    <3>1. fails'[w] = f /\ until'[w] = t
      BY <2>s, StoreEffect
    <3>2. u # w
      BY <2>s, <3>1
    <3>3. u \in Evicted(recency, w, MaxKeys)
      BY <2>s, <3>2, StoreEffect
    <3>. QED  BY <2>s, <3>2, <3>3, StoreEffect
  <2>1. ASSUME NEW r \in Requests, NEW w \in Users, VerifyPin(r, w)  PROVE DroppedWhole(u)
    <3>1. fails[w] \in Nat /\ until[w] \in Nat /\ 0 \in Nat
      BY <2>0
    <3>2. CASE Store(w, fails[w], until[w])
      BY <2>s, <3>1, <3>2
    <3>3. CASE ~Locked(w) /\ Store(w, 0, 0)
      BY <2>s, <3>1, <3>3
    <3>4. CASE until[w] = 0 /\ Store(w, fails[w], 0)
      BY <2>s, <3>1, <3>4
    <3>. QED  BY <2>1, <3>2, <3>3, <3>4 DEF VerifyPin
  <2>2. ASSUME NEW r \in Requests, RegisterSuccess(r)  PROVE DroppedWhole(u)
    <3>1. phase[r] = "matched" /\ account[r] = u
      BY <2>0, <2>2 DEF RegisterSuccess
    <3>. QED  BY <2>0, <2>2, <3>1 DEF RegisterSuccess
  <2>3. ASSUME NEW r \in Requests, RegisterFailure(r)  PROVE DroppedWhole(u)
    <3>1. /\ account[r] \in Users /\ fails[account[r]] \in Nat /\ until[account[r]] \in Nat
          /\ fails[account[r]] + 1 \in Nat /\ now + LockoutSeconds \in Nat /\ 0 \in Nat
      BY <2>0
    <3>2. PICK f \in Nat, t \in Nat :
            Store(account[r], f, t) /\ (Locked(account[r]) => t = until[account[r]])
      BY <2>3, <3>1 DEF RegisterFailure
    <3>. QED  BY <2>s, <3>1, <3>2
  <2>4. CASE UNCHANGED until
    BY <2>4
  <2>. QED  BY <2>1, <2>2, <2>3, <2>4 DEF Next, ComparePin, Tick, vars
<1>2. IInv /\ [Next]_vars => [Kept]_vars
  BY <1>1
<1>. QED  BY <1>2, Invariance, PTL DEF Spec, LockedDeadlineFixed
=============================================================================
