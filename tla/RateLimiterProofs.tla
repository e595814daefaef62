------------------------- MODULE RateLimiterProofs --------------------------
(***************************************************************************)
(* For every limit, window, table size and set of addresses: the table     *)
(* stays within maxKeys, no bucket stays in it a whole window after it     *)
(* expired although the sweep runs only every so often, and of 2 * Limit   *)
(* calls allowed in a row the last comes a window or more after the first. *)
(***************************************************************************)
EXTENDS RateLimiter, FiniteSetTheorems, SequenceTheorems, TLAPS

\* The sweep is never more than a window away, and ahead of the latest call.
SweepAhead ==
    /\ nextCleanup <= now + Window
    /\ lastCall # NoCall => lastCall.at < nextCleanup

\* What the latest sweep, at nextCleanup - Window, left had not expired then.
SweptThen == \A k \in Key : buckets[k] # NoBucket =>
                 nextCleanup < buckets[k].expiresAt + Window

IInv ==
    /\ TypeOK
    /\ TableBounded
    /\ SweepAhead
    /\ SweptThen

-----------------------------------------------------------------------------
\* The constants, in the form the proofs use.
LEMMA ConstantTypes ==
    /\ Limit \in Nat /\ Limit >= 1 /\ Window \in Nat /\ Window >= 1
    /\ MaxKeys \in Nat /\ MaxKeys >= 1 /\ MaxTime \in Nat
    /\ IsFiniteSet(Key) /\ NoBucket \notin Bucket
BY LimiterAssumption DEF Bucket

\* The initial state satisfies the inductive invariant.
LEMMA InitIInv == Init => IInv
<1> SUFFICES ASSUME Init PROVE IInv OBVIOUS
<1>1. Known(buckets) = {} BY DEF Init, Known
<1>2. Cardinality({}) = 0 BY FS_EmptySet
<1>3. TableBounded BY <1>1, <1>2, ConstantTypes DEF TableBounded
<1>4. TypeOK BY ConstantTypes DEF Init, TypeOK
<1>5. SweepAhead /\ SweptThen BY ConstantTypes DEF Init, SweepAhead, SweptThen
<1> QED BY <1>3, <1>4, <1>5 DEF IInv

\* Sweeping only removes buckets, and after a sweep that is due no expired
\* bucket is left.
LEMMA SweptKeeps ==
    ASSUME IInv, NEW k \in Key
    PROVE  /\ Swept(k) \in [Key -> Bucket \cup {NoBucket}]
           /\ Known(Swept(k)) \subseteq Known(buckets)
           /\ IsFiniteSet(Known(Swept(k)))
           /\ Cardinality(Known(Swept(k))) <= MaxKeys
           /\ \A j \in Key : Swept(k)[j] # NoBucket =>
                 /\ Swept(k)[j] = buckets[j]
                 /\ CleanupDue => now < Swept(k)[j].expiresAt
<1>1. Swept(k) \in [Key -> Bucket \cup {NoBucket}] BY DEF Swept, IInv, TypeOK
<1>2. \A j \in Key : Swept(k)[j] # NoBucket => Swept(k)[j] = buckets[j]
  BY DEF Swept
<1>3. Known(Swept(k)) \subseteq Known(buckets) BY <1>2 DEF Known
<1>4. IsFiniteSet(Known(buckets)) BY ConstantTypes, FS_Subset DEF Known
<1>5. IsFiniteSet(Known(Swept(k)))
      /\ Cardinality(Known(Swept(k))) <= Cardinality(Known(buckets))
  BY <1>3, <1>4, FS_Subset
<1>6. Cardinality(Known(Swept(k))) <= MaxKeys
  BY <1>4, <1>5, ConstantTypes, FS_CardinalityType DEF IInv, TableBounded
<1>7. \A j \in Key : Swept(k)[j] # NoBucket /\ CleanupDue => now < Swept(k)[j].expiresAt
  <2> SUFFICES ASSUME NEW j \in Key, Swept(k)[j] # NoBucket, CleanupDue
               PROVE  now < Swept(k)[j].expiresAt
    OBVIOUS
  <2>1. Swept(k)[j] = buckets[j] /\ buckets[j] \in Bucket
    BY <1>2 DEF IInv, TypeOK
  <2>2. ~Expired(buckets[j]) BY DEF Swept
  <2>3. buckets[j].expiresAt \in Nat /\ now \in Nat BY <2>1 DEF Bucket, IInv, TypeOK
  <2> QED BY <2>1, <2>2, <2>3 DEF Expired
<1> QED BY <1>1, <1>2, <1>3, <1>5, <1>6, <1>7

\* A call leaves every bucket but k's as the sweep left it, and gives k none,
\* the one the sweep left with another count, or a fresh one if there is room.
LEMMA CallIInv ==
    ASSUME IInv, NEW k \in Key, NEW ok \in BOOLEAN, NEW b \in Bucket \cup {NoBucket},
           buckets' = [Swept(k) EXCEPT ![k] = b],
           \/ b = NoBucket
           \/ Swept(k)[k] # NoBucket /\ b # NoBucket /\ b.expiresAt = Swept(k)[k].expiresAt
           \/ ~Full(Swept(k)) /\ b # NoBucket /\ b.expiresAt = now + Window,
           Answer(k, ok),
           nextCleanup' = IF CleanupDue THEN now + Window ELSE nextCleanup,
           now' = now
    PROVE  IInv'
<1> DEFINE table == Swept(k)
<1>1. /\ table \in [Key -> Bucket \cup {NoBucket}]
      /\ IsFiniteSet(Known(table)) /\ Cardinality(Known(table)) <= MaxKeys
      /\ \A j \in Key : table[j] # NoBucket =>
            table[j] = buckets[j] /\ (CleanupDue => now < table[j].expiresAt)
  BY SweptKeeps
<1> HIDE DEF table
<1>2. now \in Nat /\ nextCleanup \in Nat
  BY DEF IInv, TypeOK
<1>3. buckets' = [table EXCEPT ![k] = b] BY DEF table
<1>4. nextCleanup' \in Nat BY <1>2, ConstantTypes
<1>5. lastCall' = [key |-> k, at |-> now, ok |-> ok] BY DEF Answer
<1>6. allowed' \in [Key -> Seq(Nat)]
  <2>1. Append(allowed[k], now) \in Seq(Nat)
    BY <1>2, AppendProperties DEF IInv, TypeOK
  <2> QED BY <2>1 DEF Answer, IInv, TypeOK
<1>7. TypeOK'
  BY <1>1, <1>2, <1>3, <1>4, <1>5, <1>6 DEF TypeOK, Call
<1>8. SweepAhead'
  BY <1>2, <1>5, ConstantTypes DEF SweepAhead, IInv, CleanupDue
<1>9. SweptThen'
  <2> SUFFICES ASSUME NEW j \in Key, buckets'[j] # NoBucket
               PROVE  nextCleanup' < buckets'[j].expiresAt + Window
    BY DEF SweptThen
  <2>1. \A i \in Key : table[i] # NoBucket =>
            table[i].expiresAt \in Nat /\ nextCleanup' < table[i].expiresAt + Window
    <3> SUFFICES ASSUME NEW i \in Key, table[i] # NoBucket
                 PROVE  table[i].expiresAt \in Nat /\ nextCleanup' < table[i].expiresAt + Window
      OBVIOUS
    <3>1. table[i].expiresAt \in Nat BY <1>1 DEF Bucket
    <3>2. nextCleanup < table[i].expiresAt + Window BY <1>1 DEF IInv, SweptThen
    <3> QED BY <1>1, <1>2, <3>1, <3>2, ConstantTypes
  <2>2. CASE j # k BY <1>1, <1>3, <2>1, <2>2
  <2>3. CASE j = k
    <3>1. buckets'[j] = b BY <1>1, <1>3, <2>3
    <3>2. CASE table[k] # NoBucket /\ b.expiresAt = table[k].expiresAt
      BY <2>1, <3>1, <3>2
    <3>3. CASE b.expiresAt = now + Window
      <4>1. nextCleanup' <= now + Window BY <1>2, ConstantTypes DEF IInv, SweepAhead
      <4> QED BY <1>2, <1>4, <3>1, <3>3, <4>1, ConstantTypes
    <3> QED BY <3>1, <3>2, <3>3 DEF table
  <2> QED BY <2>2, <2>3
<1>10. TableBounded'
  <2>1. CASE b = NoBucket \/ table[k] # NoBucket
    <3>1. Known(buckets') \subseteq Known(table)
      BY <1>1, <1>3, <2>1 DEF Known
    <3>2. Cardinality(Known(buckets')) <= Cardinality(Known(table))
          /\ IsFiniteSet(Known(buckets'))
      BY <1>1, <3>1, FS_Subset
    <3> QED BY <1>1, <3>2, ConstantTypes, FS_CardinalityType DEF TableBounded
  <2>2. CASE ~Full(table)
    <3>1. Known(buckets') \subseteq Known(table) \cup {k}
      BY <1>1, <1>3 DEF Known
    <3>2. IsFiniteSet(Known(table) \cup {k})
          /\ Cardinality(Known(table) \cup {k}) \in
                {Cardinality(Known(table)), Cardinality(Known(table)) + 1}
      BY <1>1, FS_AddElement
    <3>3. Cardinality(Known(buckets')) <= Cardinality(Known(table) \cup {k})
          /\ IsFiniteSet(Known(buckets'))
      BY <3>1, <3>2, FS_Subset
    <3>4. /\ Cardinality(Known(table)) \in Nat /\ Cardinality(Known(buckets')) \in Nat
      BY <1>1, <3>3, FS_CardinalityType
    <3>5. Cardinality(Known(table)) < MaxKeys
      BY <2>2, <3>4, ConstantTypes DEF Full
    <3> QED BY <3>2, <3>3, <3>4, <3>5, ConstantTypes DEF TableBounded
  <2> QED BY <2>1, <2>2 DEF table
<1> QED BY <1>7, <1>8, <1>9, <1>10 DEF IInv

\* Every step preserves the inductive invariant.
LEMMA NextIInv == IInv /\ [Next]_vars => IInv'
<1> SUFFICES ASSUME IInv, [Next]_vars PROVE IInv' OBVIOUS
<1>1. CASE UNCHANGED vars
  BY <1>1 DEF vars, IInv, TypeOK, TableBounded, SweepAhead, SweptThen, Known
<1>2. CASE Tick
  <2>1. now \in Nat /\ now' \in Nat /\ now' = now + 1
        /\ UNCHANGED <<buckets, nextCleanup, lastCall, allowed>>
    BY <1>2 DEF Tick, IInv, TypeOK
  <2>2. TypeOK' BY <2>1 DEF IInv, TypeOK
  <2>3. SweepAhead' BY <2>1, ConstantTypes DEF IInv, TypeOK, SweepAhead
  <2>4. TableBounded' /\ SweptThen' BY <2>1 DEF IInv, TableBounded, SweptThen, Known
  <2> QED BY <2>1, <2>2, <2>3, <2>4 DEF IInv
<1>3. CASE \E k \in Key : allow(k)
  <2>1. PICK k \in Key : allow(k) BY <1>3
  <2> DEFINE table == Swept(k)
  <2>2. table \in [Key -> Bucket \cup {NoBucket}] BY SweptKeeps
  <2>3. /\ nextCleanup' = (IF CleanupDue THEN now + Window ELSE nextCleanup)
        /\ now' = now
    BY <2>1 DEF allow
  <2>4. now \in Nat BY DEF IInv, TypeOK
  <2>5. CASE OpenWindow(k, Swept(k))
    <3>1. Opened \in Bucket /\ Opened # NoBucket /\ Opened.expiresAt = now + Window
      BY <2>4, ConstantTypes DEF Opened, Bucket
    <3>2. buckets' = [table EXCEPT ![k] = Opened] /\ ~Full(table) /\ Answer(k, TRUE)
      BY <2>5 DEF OpenWindow
    <3> QED BY <2>3, <3>1, <3>2, CallIInv
  <2>6. CASE CountAttempt(k, Swept(k))
    <3> DEFINE b == [table[k] EXCEPT !.attempts = table[k].attempts + 1]
    <3> HIDE DEF table
    <3>1. table[k] \in Bucket /\ table[k] # NoBucket /\ table[k].attempts < Limit
          /\ Answer(k, TRUE)
      BY <2>2, <2>6 DEF CountAttempt, table
    <3>2. b \in Bucket /\ b.expiresAt = table[k].expiresAt
      <4>1. PICK n \in 1..Limit, e \in Nat : table[k] = [attempts |-> n, expiresAt |-> e]
        BY <3>1 DEF Bucket
      <4>2. n + 1 \in 1..Limit BY <3>1, <4>1, ConstantTypes
      <4>3. b = [attempts |-> n + 1, expiresAt |-> e] BY <4>1
      <4> QED BY <4>1, <4>2, <4>3 DEF Bucket
    <3>3. b # NoBucket BY <3>2, ConstantTypes
    <3>4. buckets' = [table EXCEPT ![k] = b]
      BY <2>6 DEF CountAttempt, table
    <3> HIDE DEF b
    <3> QED BY <2>3, <3>1, <3>2, <3>3, <3>4, CallIInv DEF table
  <2>7. CASE Refuse(k, Swept(k))
    <3>1. buckets' = [table EXCEPT ![k] = table[k]] /\ table[k] \in Bucket \cup {NoBucket}
          /\ Answer(k, FALSE)
      BY <2>2, <2>7 DEF Refuse
    <3> QED BY <2>3, <3>1, CallIInv
  <2> QED BY <2>1, <2>5, <2>6, <2>7 DEF allow
<1> QED BY <1>1, <1>2, <1>3 DEF Next

-----------------------------------------------------------------------------
\* Every reachable state satisfies the inductive invariant.
THEOREM Invariance == Spec => []IInv
BY InitIInv, NextIInv, PTL DEF Spec

\* Buckets, times and the history keep their types.
THEOREM TypeCorrectness == Spec => []TypeOK
<1>1. IInv => TypeOK BY DEF IInv
<1> QED BY <1>1, Invariance, PTL

\* allow() never lets the table grow past maxKeys.
THEOREM TableBoundedHolds == Spec => []TableBounded
<1>1. IInv => TableBounded BY DEF IInv
<1> QED BY <1>1, Invariance, PTL

\* No call finds, or leaves, a bucket that expired a window ago: the cleanup
\* that runs at most once per window is often enough.
THEOREM StaleBoundedHolds == Spec => []StaleBounded
<1>1. ASSUME IInv PROVE StaleBounded
  <2> SUFFICES ASSUME lastCall # NoCall, NEW k \in Known(buckets)
               PROVE  lastCall.at < buckets[k].expiresAt + Window
    BY DEF StaleBounded
  <2>1. k \in Key /\ buckets[k] # NoBucket /\ buckets[k] \in Bucket
    BY <1>1 DEF Known, IInv, TypeOK
  <2>2. buckets[k].expiresAt \in Nat /\ lastCall.at \in Nat /\ nextCleanup \in Nat
    BY <1>1, <2>1 DEF Bucket, IInv, TypeOK, Call
  <2>3. lastCall.at < nextCleanup /\ nextCleanup < buckets[k].expiresAt + Window
    BY <1>1, <2>1 DEF IInv, SweepAhead, SweptThen
  <2> QED BY <2>2, <2>3, ConstantTypes
<1> QED BY <1>1, Invariance, PTL

-----------------------------------------------------------------------------
(* The sliding bound.  s is the log of one address, t the time, b its      *)
(* bucket.                                                                 *)

Ordered(s, t) ==
    \A i, j \in 1..Len(s) : i <= j => s[i] <= s[j] /\ s[j] <= t

\* A bucket counts the latest calls, from the one that opened it, and limit
\* calls before that one lies a call at least a window older.  Without a
\* bucket, that call lies a window back from now.
Fits(s, b, t) ==
    IF b = NoBucket
    THEN Len(s) >= Limit => s[Len(s) + 1 - Limit] + Window <= t
    ELSE LET p == Len(s) + 1 - b.attempts IN
         /\ p >= 1
         /\ s[p] + Window = b.expiresAt
         /\ p > Limit => s[p - Limit] + Window <= s[p]

Spaced(s) ==
    \A i \in 1..Len(s) :
        i + 2 * Limit - 1 <= Len(s) => s[i] + Window <= s[i + 2 * Limit - 1]

LogInv ==
    \A k \in Key : /\ Ordered(allowed[k], now)
                   /\ Fits(allowed[k], buckets[k], now)
                   /\ Spaced(allowed[k])

\* Facts of arithmetic that the lemmas about logs use.
LEMMA Chain ==
    ASSUME NEW x \in Nat, NEW y \in Nat, NEW w \in Nat, NEW e \in Nat, NEW t \in Nat,
           x <= y, y + w <= e, e <= t
    PROVE  x + w <= t
OBVIOUS

LEMMA LastOrBefore ==
    ASSUME NEW x \in Int, NEW n \in Int, x <= n + 1
    PROVE  x <= n \/ x = n + 1
OBVIOUS

LEMMA PreviousBucket ==
    ASSUME NEW n \in Nat, NEW m \in Nat, NEW L \in Nat, L >= 1, m >= 1, m < L,
           n + 2 - 2 * L >= 1
    PROVE  LET i == n + 2 - 2 * L  p == n + 1 - m IN
           i \in 1..n /\ p - L \in 1..n /\ i <= p - L /\ p > L
OBVIOUS

LEMMA OpenerPlace ==
    ASSUME NEW n \in Nat, NEW a \in Nat, NEW L \in Nat, a >= 1, a <= L, n >= L
    PROVE  n + 1 - a \in 1..n /\ n + 1 - L \in 1..n /\ n + 1 - L <= n + 1 - a
OBVIOUS

LEMMA EarlierPlace ==
    ASSUME NEW n \in Nat, NEW p \in 1..n, NEW L \in Nat, p > L
    PROVE  p - L \in 1..n
OBVIOUS

\* A log that fits an expired bucket fits none.
LEMMA SweepFits ==
    ASSUME NEW s \in Seq(Nat), NEW t \in Nat, NEW b \in Bucket,
           Ordered(s, t), Fits(s, b, t), t >= b.expiresAt
    PROVE  Fits(s, NoBucket, t)
<1> DEFINE n == Len(s)  a == b.attempts  p == n + 1 - a  q == n + 1 - Limit
<1>1. a \in Nat /\ a >= 1 /\ a <= Limit /\ b.expiresAt \in Nat /\ n \in Nat
  BY ConstantTypes DEF Bucket
<1>2. p >= 1 /\ s[p] + Window = b.expiresAt
  BY ConstantTypes DEF Fits
<1> SUFFICES ASSUME n >= Limit PROVE s[q] + Window <= t
  BY DEF Fits
<1>3. p \in 1..n /\ q \in 1..n /\ q <= p
  <2>1. Limit \in Nat
    BY ConstantTypes
  <2> HIDE DEF n, a
  <2> QED BY <1>1, <2>1, OpenerPlace, Zenon
<1>4. s[p] \in Nat /\ s[q] \in Nat
  BY <1>3
<1>5. s[q] <= s[p]
  BY <1>3 DEF Ordered
<1>6. s[p] + Window <= b.expiresAt /\ b.expiresAt <= t
  BY <1>1, <1>2
<1> HIDE DEF p, q
<1> QED BY <1>1, <1>4, <1>5, <1>6, Chain, ConstantTypes

\* Time only helps.
LEMMA TickFits ==
    ASSUME NEW s \in Seq(Nat), NEW t \in Nat, NEW u \in Nat, t <= u,
           NEW b \in Bucket \cup {NoBucket}, Ordered(s, t), Fits(s, b, t)
    PROVE  Ordered(s, u) /\ Fits(s, b, u)
<1>1. \A i \in 1..Len(s) : s[i] \in Nat
  OBVIOUS
<1>2. Ordered(s, u)
  BY <1>1 DEF Ordered
<1>3. Fits(s, b, u)
  <2>1. CASE b # NoBucket
    BY <2>1 DEF Fits
  <2>2. CASE b = NoBucket /\ Len(s) >= Limit
    <3>1. Len(s) + 1 - Limit \in 1..Len(s)
      BY <2>2, ConstantTypes
    <3>2. s[Len(s) + 1 - Limit] \in Nat
      BY <1>1, <3>1
    <3> QED BY <2>2, <3>2, ConstantTypes DEF Fits
  <2>3. CASE b = NoBucket /\ ~(Len(s) >= Limit)
    BY <2>3 DEF Fits
  <2> QED BY <2>1, <2>2, <2>3
<1> QED BY <1>2, <1>3

\* Appending the present time keeps the order, and the spacing if the call
\* 2 * limit - 1 back is a window old.
LEMMA AppendKeeps ==
    ASSUME NEW s \in Seq(Nat), NEW t \in Nat, Ordered(s, t), Spaced(s),
           Len(s) + 2 - 2 * Limit >= 1 => s[Len(s) + 2 - 2 * Limit] + Window <= t
    PROVE  /\ Append(s, t) \in Seq(Nat) /\ Len(Append(s, t)) = Len(s) + 1
           /\ \A i \in 1..Len(s) : Append(s, t)[i] = s[i]
           /\ Append(s, t)[Len(s) + 1] = t
           /\ Ordered(Append(s, t), t) /\ Spaced(Append(s, t))
<1> DEFINE n == Len(s)  r == Append(s, t)
<1>1. /\ r \in Seq(Nat) /\ Len(r) = n + 1 /\ n \in Nat
      /\ \A i \in 1..n : r[i] = s[i]
      /\ r[n + 1] = t
  BY AppendProperties
<1>2. \A i \in 1..n : s[i] \in Nat
  OBVIOUS
<1> HIDE DEF r
<1>3. Ordered(r, t)
  <2> SUFFICES ASSUME NEW i \in 1..(n + 1), NEW j \in 1..(n + 1), i <= j
               PROVE  r[i] <= r[j] /\ r[j] <= t
    BY <1>1 DEF Ordered
  <2>1. CASE j = n + 1 /\ i = n + 1
    BY <1>1, <2>1
  <2>2. CASE j = n + 1 /\ i \in 1..n
    BY <1>1, <2>2 DEF Ordered
  <2>3. CASE j \in 1..n /\ i \in 1..n
    BY <1>1, <2>3 DEF Ordered
  <2> QED BY <1>1, <2>1, <2>2, <2>3
<1>4. Spaced(r)
  <2> SUFFICES ASSUME NEW i \in 1..(n + 1), i + 2 * Limit - 1 <= n + 1
               PROVE  r[i] + Window <= r[i + 2 * Limit - 1]
    BY <1>1 DEF Spaced
  <2>1. i \in 1..n
    BY <1>1, ConstantTypes
  <2>2. CASE i + 2 * Limit - 1 <= n
    <3>1. i + 2 * Limit - 1 \in 1..n
      BY <1>1, <2>2, ConstantTypes
    <3> QED BY <1>1, <2>1, <2>2, <3>1 DEF Spaced
  <2>3. CASE i + 2 * Limit - 1 = n + 1
    <3>1. i = n + 2 - 2 * Limit
      BY <1>1, <2>3, ConstantTypes
    <3> QED BY <1>1, <2>1, <2>3, <3>1
  <2>4. i + 2 * Limit - 1 <= n \/ i + 2 * Limit - 1 = n + 1
    <3>1. i + 2 * Limit - 1 \in Int
      BY ConstantTypes
    <3> HIDE DEF n
    <3> QED BY <1>1, <3>1, LastOrBefore
  <2> QED BY <2>2, <2>3, <2>4
<1> QED BY <1>1, <1>3, <1>4 DEF r

\* A call that opens a bucket.
LEMMA OpenFits ==
    ASSUME NEW s \in Seq(Nat), NEW t \in Nat, NEW b \in Bucket,
           b.attempts = 1, b.expiresAt = t + Window,
           Ordered(s, t), Spaced(s), Fits(s, NoBucket, t)
    PROVE  LET r == Append(s, t) IN Ordered(r, t) /\ Spaced(r) /\ Fits(r, b, t)
<1> DEFINE n == Len(s)  r == Append(s, t)  i == n + 2 - 2 * Limit  q == n + 1 - Limit
<1>1. n \in Nat /\ \A j \in 1..n : s[j] \in Nat
  OBVIOUS
<1>2. q >= 1 => s[q] + Window <= t
  BY <1>1, ConstantTypes DEF Fits
<1>3. i >= 1 => s[i] + Window <= t
  <2> SUFFICES ASSUME i >= 1 PROVE s[i] + Window <= t
    OBVIOUS
  <2>1. i \in 1..n /\ q \in 1..n /\ i <= q
    BY <1>1, ConstantTypes
  <2>2. s[i] <= s[q] /\ s[i] \in Nat /\ s[q] \in Nat
    BY <1>1, <2>1 DEF Ordered
  <2>3. s[q] + Window <= t
    BY <1>2, <2>1
  <2>4. PICK x \in Nat, y \in Nat : x = s[i] /\ y = s[q]
    BY <2>2
  <2>5. x <= y /\ y + Window <= t
    BY <2>2, <2>3, <2>4
  <2> HIDE DEF i, q
  <2>6. x + Window <= t
    BY <2>5, ConstantTypes, Chain
  <2> QED BY <2>4, <2>6
<1>4. /\ Len(r) = n + 1 /\ \A j \in 1..n : r[j] = s[j]
      /\ r[n + 1] = t /\ Ordered(r, t) /\ Spaced(r)
  BY <1>3, AppendKeeps
<1> HIDE DEF r
<1>5. b # NoBucket
  BY ConstantTypes
<1>6. Len(r) + 1 - b.attempts = n + 1
  BY <1>1, <1>4
<1>7. n + 1 > Limit => r[n + 1 - Limit] + Window <= t
  <2> SUFFICES ASSUME n + 1 > Limit PROVE r[q] + Window <= t
    OBVIOUS
  <2>1. q \in 1..n
    BY <1>1, ConstantTypes
  <2> QED BY <1>2, <1>4, <2>1
<1>8. Fits(r, b, t)
  <2>1. /\ n + 1 >= 1 /\ r[n + 1] + Window = b.expiresAt
        /\ n + 1 > Limit => r[n + 1 - Limit] + Window <= r[n + 1]
    BY <1>1, <1>4, <1>7
  <2>2. PICK p : p = Len(r) + 1 - b.attempts
    OBVIOUS
  <2>3. p = n + 1
    BY <1>6, <2>2
  <2> HIDE DEF n
  <2>4. p >= 1 /\ r[p] + Window = b.expiresAt
    BY <2>1, <2>3
  <2>5. p > Limit => r[p - Limit] + Window <= r[p]
    <3> SUFFICES ASSUME p > Limit PROVE r[p - Limit] + Window <= r[p]
      OBVIOUS
    <3>1. p - Limit = n + 1 - Limit /\ n + 1 > Limit
      BY <1>1, <2>3, ConstantTypes
    <3>2. r[n + 1 - Limit] + Window <= r[n + 1]
      BY <2>1, <3>1
    <3> QED BY <2>3, <3>1, <3>2, Zenon
  <2> QED BY <1>5, <2>2, <2>4, <2>5, Zenon DEF Fits
<1> QED BY <1>4, <1>8 DEF r

\* A call counted in a bucket that has room.
LEMMA CountFits ==
    ASSUME NEW s \in Seq(Nat), NEW t \in Nat, NEW b \in Bucket, NEW c \in Bucket,
           b.attempts < Limit, c.attempts = b.attempts + 1, c.expiresAt = b.expiresAt,
           Ordered(s, t), Spaced(s), Fits(s, b, t)
    PROVE  LET r == Append(s, t) IN Ordered(r, t) /\ Spaced(r) /\ Fits(r, c, t)
<1> DEFINE n == Len(s)  r == Append(s, t)  i == n + 2 - 2 * Limit
           p == n + 1 - b.attempts
<1>1. /\ n \in Nat /\ \A j \in 1..n : s[j] \in Nat
      /\ b.attempts \in Nat /\ b.attempts >= 1 /\ b # NoBucket /\ c # NoBucket
  BY ConstantTypes DEF Bucket
<1>2. /\ p >= 1 /\ s[p] + Window = b.expiresAt
      /\ p > Limit => s[p - Limit] + Window <= s[p]
  BY <1>1 DEF Fits
<1>3. p \in 1..n
  BY <1>1, <1>2
<1>4. i >= 1 => s[i] + Window <= t
  <2> SUFFICES ASSUME i >= 1 PROVE s[i] + Window <= t
    OBVIOUS
  <2>1. i \in 1..n /\ p - Limit \in 1..n /\ i <= p - Limit /\ p > Limit
    BY <1>1, PreviousBucket, ConstantTypes
  <2>2. s[p - Limit] + Window <= s[p]
    BY <1>2, <2>1
  <2> HIDE DEF i, p
  <2>3. s[i] \in Nat /\ s[p - Limit] \in Nat /\ s[p] \in Nat
    BY <1>1, <1>3, <2>1
  <2>4. s[i] <= s[p - Limit]
    BY <2>1 DEF Ordered
  <2>5. s[p] <= t
    BY <1>3 DEF Ordered
  <2> DEFINE x == s[i]  y == s[p - Limit]  e == s[p]
  <2>6. /\ x \in Nat /\ y \in Nat /\ e \in Nat /\ Window \in Nat
        /\ x <= y /\ y + Window <= e /\ e <= t
    BY <2>2, <2>3, <2>4, <2>5, ConstantTypes, Zenon
  <2> HIDE DEF x, y, e
  <2>7. x + Window <= t
    BY <2>6
  <2> QED BY <2>7 DEF x
<1>5. /\ Len(r) = n + 1 /\ \A j \in 1..n : r[j] = s[j]
      /\ Ordered(r, t) /\ Spaced(r)
  BY <1>4, AppendKeeps
<1> HIDE DEF r
<1>6. Len(r) + 1 - c.attempts = p
  BY <1>1, <1>5
<1>7. r[p] = s[p] /\ (p > Limit => r[p - Limit] = s[p - Limit])
  <2>1. p > Limit => p - Limit \in 1..n
    <3> HIDE DEF n, p
    <3> QED BY <1>1, <1>3, ConstantTypes, EarlierPlace, Zenon
  <2> QED BY <1>3, <1>5, <2>1
<1>8. Fits(r, c, t)
  BY <1>1, <1>2, <1>6, <1>7 DEF Fits
<1> QED BY <1>5, <1>8 DEF r

\* Every step keeps every address's log in step with its bucket.
LEMMA NextLogInv == IInv /\ LogInv /\ [Next]_vars => LogInv'
<1> SUFFICES ASSUME IInv, LogInv, [Next]_vars PROVE LogInv' OBVIOUS
<1>1. /\ now \in Nat /\ allowed \in [Key -> Seq(Nat)]
      /\ buckets \in [Key -> Bucket \cup {NoBucket}]
  BY DEF IInv, TypeOK
<1>2. CASE UNCHANGED vars
  BY <1>2 DEF vars, LogInv
<1>3. CASE Tick
  <2>1. now' \in Nat /\ now <= now' /\ UNCHANGED <<buckets, allowed>>
    BY <1>1, <1>3 DEF Tick
  <2>2. PICK u \in Nat : u = now'
    BY <2>1
  <2>3. \A k \in Key : Ordered(allowed[k], u) /\ Fits(allowed[k], buckets[k], u)
    BY <1>1, <2>1, <2>2, TickFits DEF LogInv
  <2> QED BY <2>1, <2>2, <2>3 DEF LogInv
<1>4. CASE \E k \in Key : allow(k)
  <2>1. PICK k \in Key : allow(k)
    BY <1>4
  <2>2. PICK table \in [Key -> Bucket \cup {NoBucket}] : table = Swept(k)
    BY SweptKeeps
  <2>3. \A j \in Key : Fits(allowed[j], table[j], now)
    <3> SUFFICES ASSUME NEW j \in Key PROVE Fits(allowed[j], table[j], now)
      OBVIOUS
    <3>1. CASE table[j] = buckets[j]
      BY <3>1 DEF LogInv
    <3>2. CASE table[j] = NoBucket /\ Expired(buckets[j])
      BY <1>1, <3>2, SweepFits DEF LogInv, Expired
    <3> QED BY <2>2, <3>1, <3>2 DEF Swept
  <2>4. now' = now
    BY <2>1 DEF allow
  <2>5. CASE Refuse(k, table)
    <3>1. buckets' = table /\ allowed' = allowed
      BY <2>5 DEF Refuse, Answer
    <3> QED BY <2>3, <2>4, <3>1 DEF LogInv
  <2>6. ASSUME NEW b \in Bucket \cup {NoBucket},
               buckets' = [table EXCEPT ![k] = b], Answer(k, TRUE),
               LET r == Append(allowed[k], now) IN
               Ordered(r, now) /\ Spaced(r) /\ Fits(r, b, now)
        PROVE  LogInv'
    <3>1. allowed' = [allowed EXCEPT ![k] = Append(allowed[k], now)]
      BY <2>6 DEF Answer
    <3>2. PICK r, t : r = Append(allowed[k], now) /\ t = now
      OBVIOUS
    <3>3. \A j \in Key : /\ buckets'[j] = IF j = k THEN b ELSE table[j]
                         /\ allowed'[j] = IF j = k THEN r ELSE allowed[j]
      BY <1>1, <2>6, <3>1, <3>2
    <3>4. now' = t
      BY <2>4, <3>2
    <3>5. \A j \in Key : /\ Ordered(allowed'[j], t)
                         /\ Fits(allowed'[j], buckets'[j], t)
                         /\ Spaced(allowed'[j])
      BY <2>3, <2>6, <3>2, <3>3 DEF LogInv
    <3> QED BY <3>4, <3>5 DEF LogInv
  <2>7. CASE OpenWindow(k, table)
    <3>1. /\ Opened \in Bucket /\ Opened.attempts = 1 /\ Opened.expiresAt = now + Window
      BY <1>1, ConstantTypes DEF Opened, Bucket
    <3>2. buckets' = [table EXCEPT ![k] = Opened] /\ Answer(k, TRUE) /\ table[k] = NoBucket
      BY <2>7 DEF OpenWindow
    <3>3. LET r == Append(allowed[k], now) IN
          Ordered(r, now) /\ Spaced(r) /\ Fits(r, Opened, now)
      BY <1>1, <2>3, <3>1, <3>2, OpenFits DEF LogInv
    <3>4. PICK b : b = Opened
      OBVIOUS
    <3> QED BY <2>6, <3>1, <3>2, <3>3, <3>4
  <2>8. CASE CountAttempt(k, table)
    <3> DEFINE b == [table[k] EXCEPT !.attempts = table[k].attempts + 1]
    <3>1. table[k] \in Bucket /\ table[k].attempts < Limit /\ Answer(k, TRUE)
      BY <2>8 DEF CountAttempt
    <3>2. b \in Bucket /\ b.attempts = table[k].attempts + 1 /\ b.expiresAt = table[k].expiresAt
      <4>1. PICK n \in 1..Limit, e \in Nat : table[k] = [attempts |-> n, expiresAt |-> e]
        BY <3>1 DEF Bucket
      <4>2. n + 1 \in 1..Limit BY <3>1, <4>1, ConstantTypes
      <4>3. b = [attempts |-> n + 1, expiresAt |-> e] BY <4>1
      <4> QED BY <4>1, <4>2, <4>3 DEF Bucket
    <3>3. buckets' = [table EXCEPT ![k] = b]
      BY <2>8 DEF CountAttempt
    <3> HIDE DEF b
    <3>4. LET r == Append(allowed[k], now) IN
          Ordered(r, now) /\ Spaced(r) /\ Fits(r, b, now)
      BY <1>1, <2>3, <3>1, <3>2, CountFits DEF LogInv
    <3> QED BY <2>6, <3>1, <3>2, <3>3, <3>4
  <2> QED BY <2>1, <2>2, <2>5, <2>7, <2>8 DEF allow
<1> QED BY <1>2, <1>3, <1>4 DEF Next

\* No stretch of one window holds 2 * limit allowed calls of an address, for
\* every limit, window and table size.
THEOREM SlidingBoundHolds == Spec => []SlidingBound
<1>1. Init => LogInv
  BY ConstantTypes DEF Init, LogInv, Ordered, Fits, Spaced
<1>2. LogInv /\ IInv => SlidingBound
  <2> SUFFICES ASSUME LogInv, IInv, NEW k \in Key,
                      NEW i \in DOMAIN allowed[k], NEW j \in DOMAIN allowed[k],
                      j = i + 2 * Limit - 1
               PROVE  allowed[k][i] + Window <= allowed[k][j]
    BY DEF SlidingBound
  <2>1. allowed[k] \in Seq(Nat)
    BY DEF IInv, TypeOK
  <2>2. DOMAIN allowed[k] = 1..Len(allowed[k])
    BY <2>1
  <2>3. Spaced(allowed[k])
    BY DEF LogInv
  <2>4. i \in 1..Len(allowed[k]) /\ i + 2 * Limit - 1 <= Len(allowed[k])
    BY <2>2
  <2> QED BY <2>3, <2>4 DEF Spaced
<1> QED BY <1>1, <1>2, Invariance, NextLogInv, PTL DEF Spec
=============================================================================
