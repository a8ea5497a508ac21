---------------------------- MODULE LruDictProofs ----------------------------
(***************************************************************************)
(* What a use and a removal of a key do to the bounded ordered dictionary  *)
(* of LruDict, for every set of keys and every limit.                      *)
(***************************************************************************)
EXTENDS LruDict, SequenceTheorems, TLAPS

\* Removing a key leaves a sequence of the same keys but that one, no longer
\* than before, and keeps the keys distinct.
LEMMA WithoutProperties ==
    ASSUME NEW K, NEW order \in Seq(K), NEW key \in K, Distinct(order)
    PROVE  /\ Without(order, key) \in Seq(K)
           /\ Len(Without(order, key)) <= Len(order)
           /\ Keys(Without(order, key)) = Keys(order) \ {key}
           /\ Distinct(Without(order, key))
<1>1. CASE key \notin Keys(order)
  <2>1. Without(order, key) = order
    BY <1>1 DEF Without
  <2>2. Keys(order) \ {key} = Keys(order)
    BY <1>1
  <2>. QED  BY <2>1, <2>2, LenProperties
<1>2. CASE key \in Keys(order)
  <2> DEFINE i == CHOOSE j \in 1..Len(order) : order[j] = key
             n == Len(order)
             w == SubSeq(order, 1, i - 1) \o SubSeq(order, i + 1, n)
  <2>1. i \in 1..n /\ order[i] = key
    BY <1>2 DEF Keys
  <2>2. Without(order, key) = w
    BY <1>2 DEF Without
  <2>3. /\ w \in Seq(K)
        /\ Len(w) = n - 1
        /\ \A j \in 1..(n - 1) : w[j] = IF j < i THEN order[j] ELSE order[j + 1]
    <3> HIDE DEF i
    <3>1. SubSeq(order, 1, i - 1) \in Seq(K) /\ Len(SubSeq(order, 1, i - 1)) = i - 1
      BY <2>1, SubSeqProperties
    <3>2. SubSeq(order, i + 1, n) \in Seq(K) /\ Len(SubSeq(order, i + 1, n)) = n - i
      BY <2>1, SubSeqProperties
    <3>3. /\ \A j \in 1..(i - 1) : SubSeq(order, 1, i - 1)[j] = order[j]
          /\ \A j \in 1..(n - i) : SubSeq(order, i + 1, n)[j] = order[i + j]
      BY <2>1, SubSeqProperties
    <3> DEFINE a == SubSeq(order, 1, i - 1)
               b == SubSeq(order, i + 1, n)
    <3> HIDE DEF a, b
    <3>4. /\ a \in Seq(K) /\ Len(a) = i - 1
          /\ b \in Seq(K) /\ Len(b) = n - i
          /\ \A j \in 1..(i - 1) : a[j] = order[j]
          /\ \A j \in 1..(n - i) : b[j] = order[i + j]
      BY <3>1, <3>2, <3>3 DEF a, b
    <3> DEFINE c == a \o b
    <3>5. /\ c \in Seq(K)
          /\ Len(c) = Len(a) + Len(b)
          /\ \A j \in 1..(Len(a) + Len(b)) :
                c[j] = IF j <= Len(a) THEN a[j] ELSE b[j - Len(a)]
      BY <3>4, ConcatProperties
    <3> HIDE DEF c, n
    <3>6. i \in Nat /\ n \in Nat /\ 1 <= i /\ i <= n
      BY <2>1, LenProperties DEF n
    <3>7. ASSUME NEW j \in 1..(n - 1)
          PROVE  c[j] = IF j < i THEN order[j] ELSE order[j + 1]
      <4>1. CASE j < i
        BY <4>1, <3>4, <3>5, <3>6
      <4>2. CASE j >= i
        <5>1. c[j] = b[j - (i - 1)] /\ j - (i - 1) \in 1..(n - i)
          BY <4>2, <3>4, <3>5, <3>6
        <5>2. b[j - (i - 1)] = order[i + (j - (i - 1))]
          BY <5>1, <3>4
        <5>3. i + (j - (i - 1)) = j + 1
          BY <3>6
        <5>. QED  BY <4>2, <5>1, <5>2, <5>3, <3>6
      <4>. QED  BY <4>1, <4>2, <3>6
    <3>8. c \in Seq(K) /\ Len(c) = n - 1
      BY <3>4, <3>5, <3>6
    <3>9. w = c
      BY DEF a, b, c, n
    <3>. QED  BY <3>7, <3>8, <3>9
  <2>. QED
    <3> HIDE DEF i, w
    <3>1. Keys(w) = Keys(order) \ {key}
      <4>1. ASSUME NEW k \in Keys(w)  PROVE k \in Keys(order) \ {key}
        <5>1. PICK j \in 1..(n - 1) : k = w[j]
          BY <2>3, <4>1 DEF Keys
        <5>. QED  BY <5>1, <2>1, <2>3 DEF Keys, Distinct
      <4>2. ASSUME NEW k \in Keys(order) \ {key}  PROVE k \in Keys(w)
        <5>1. PICK j \in 1..n : k = order[j]
          BY <4>2 DEF Keys
        <5>2. j # i
          BY <5>1, <4>2, <2>1
        <5>3. CASE j < i
          BY <5>1, <5>3, <2>1, <2>3 DEF Keys
        <5>4. CASE j > i
          <6>1. j - 1 \in 1..(n - 1) /\ w[j - 1] = k
            BY <5>1, <5>4, <2>1, <2>3
          <6>. QED  BY <6>1, <2>3 DEF Keys
        <5>. QED  BY <5>2, <5>3, <5>4, <2>1
      <4>. QED  BY <4>1, <4>2
    <3>2. Distinct(w)
      <4> SUFFICES ASSUME NEW j \in 1..(n - 1), NEW l \in 1..(n - 1), w[j] = w[l]
                   PROVE  j = l
        BY <2>3 DEF Distinct
      <4> DEFINE at(p) == IF p < i THEN p ELSE p + 1
      <4>1. /\ at(j) \in 1..n /\ w[j] = order[at(j)]
            /\ at(l) \in 1..n /\ w[l] = order[at(l)]
        BY <2>1, <2>3
      <4>2. at(j) = at(l)
        BY <4>1 DEF Distinct
      <4>. QED  BY <4>2, <2>1
    <3>. QED  BY <2>2, <2>3, <3>1, <3>2
<1>. QED  BY <1>1, <1>2

\* Removing a key that is held makes the dictionary shorter.
LEMMA WithoutShortens ==
    ASSUME NEW K, NEW order \in Seq(K), NEW key \in Keys(order)
    PROVE  Len(Without(order, key)) < Len(order)
<1> DEFINE i == CHOOSE j \in 1..Len(order) : order[j] = key
           n == Len(order)
<1>1. i \in 1..n /\ n \in Nat
  BY LenProperties DEF Keys
<1>2. Without(order, key) = SubSeq(order, 1, i - 1) \o SubSeq(order, i + 1, n)
  BY DEF Without
<1> HIDE DEF i
<1>3. SubSeq(order, 1, i - 1) \in Seq(K) /\ Len(SubSeq(order, 1, i - 1)) = i - 1
  BY <1>1, SubSeqProperties
<1>4. SubSeq(order, i + 1, n) \in Seq(K) /\ Len(SubSeq(order, i + 1, n)) = n - i
  BY <1>1, SubSeqProperties
<1> DEFINE cut == SubSeq(order, 1, i - 1) \o SubSeq(order, i + 1, n)
<1>5. Len(cut) = (i - 1) + (n - i)
  BY <1>3, <1>4, ConcatProperties
<1>6. Without(order, key) = cut
  BY <1>2
<1> HIDE DEF cut
<1>. QED  BY <1>1, <1>5, <1>6

\* A use of a key keeps the dictionary within its limit and its keys distinct;
\* it then holds the key used and the old keys, but for those it evicted; and it
\* evicts at most the least recently used key, never the one being used.
THEOREM UsedProperties ==
    ASSUME NEW K, NEW order \in Seq(K), NEW key \in K, NEW limit \in Nat \ {0},
           Distinct(order), Len(order) <= limit
    PROVE  /\ Used(order, key, limit) \in Seq(K)
           /\ Len(Used(order, key, limit)) <= limit
           /\ Distinct(Used(order, key, limit))
           /\ Keys(Used(order, key, limit))
                = (Keys(order) \cup {key}) \ Evicted(order, key, limit)
           /\ key \notin Evicted(order, key, limit)
           /\ \A k \in Evicted(order, key, limit) :
                  Len(order) = limit /\ k = Head(order)
<1> DEFINE w == Without(order, key)
           m == MoveToEnd(order, key)
<1>1. /\ w \in Seq(K) /\ Len(w) <= Len(order)
      /\ Keys(w) = Keys(order) \ {key} /\ Distinct(w)
  BY WithoutProperties
<1>2. /\ m \in Seq(K)
      /\ Len(m) = Len(w) + 1
      /\ \A j \in 1..Len(w) : m[j] = w[j]
      /\ m[Len(m)] = key
  <2> HIDE DEF w
  <2>1. m = Append(w, key)
    BY DEF MoveToEnd, w
  <2>. QED  BY <1>1, <2>1, AppendProperties
<1> HIDE DEF w, m
<1>3. Keys(m) = Keys(order) \cup {key}
  <2>1. \A k \in Keys(m) : k \in Keys(w) \/ k = key
    BY <1>1, <1>2 DEF Keys
  <2>2. \A k \in Keys(w) : k \in Keys(m)
    BY <1>1, <1>2 DEF Keys
  <2>3. key \in Keys(m)
    BY <1>1, <1>2 DEF Keys
  <2>. QED  BY <1>1, <2>1, <2>2, <2>3
<1>4. Distinct(m)
  <2> SUFFICES ASSUME NEW i \in 1..Len(m), NEW j \in 1..Len(m), m[i] = m[j]
               PROVE  i = j
    BY DEF Distinct
  <2>1. \A l \in 1..Len(w) : m[l] # key
    BY <1>1, <1>2 DEF Keys
  <2>2. Len(w) \in Nat
    BY <1>1, LenProperties
  <2>3. CASE i <= Len(w) /\ j <= Len(w)
    BY <1>1, <1>2, <2>2, <2>3 DEF Distinct
  <2>4. CASE i > Len(w) \/ j > Len(w)
    BY <1>2, <2>1, <2>2, <2>4
  <2>. QED  BY <2>2, <2>3, <2>4
<1>5. CASE Len(m) <= limit
  BY <1>2, <1>3, <1>4, <1>5 DEF Used, Trim, Evicted, m
<1>6. CASE Len(m) > limit
  <2>1. Len(m) = limit + 1 /\ Len(w) = limit /\ Len(order) = limit
    BY <1>1, <1>2, <1>6
  <2>2. w = order
    <3>1. CASE key \notin Keys(order)
      BY <3>1 DEF w, Without
    <3>2. CASE key \in Keys(order)
      BY <3>2, <2>1, WithoutShortens DEF w
    <3>. QED  BY <3>1, <3>2
  <2>3. /\ Used(order, key, limit) = Tail(m)
        /\ Evicted(order, key, limit) = {Head(m)}
    BY <1>6 DEF Used, Trim, Evicted, m
  <2>4. /\ Tail(m) \in Seq(K)
        /\ Len(Tail(m)) = limit
        /\ \A j \in 1..limit : Tail(m)[j] = m[j + 1]
        /\ Head(m) = m[1]
    BY <1>2, <2>1, HeadTailProperties
  <2>. QED  BY <1>2, <1>3, <1>4, <2>1, <2>2, <2>3, <2>4 DEF Distinct, Keys
<1>. QED  BY <1>2, <1>5, <1>6
=============================================================================
