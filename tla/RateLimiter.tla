---------------------------- MODULE RateLimiter -----------------------------
(***************************************************************************)
(* ipRateLimiter: the fixed-window counter in front of /v1/auth/login (5   *)
(* per minute) and /v1/device/verify (10 per minute), keyed by client IP.  *)
(* allow() runs under the limiter's mutex, so a call is one step.          *)
(***************************************************************************)
EXTENDS Integers, FiniteSets, Sequences

CONSTANTS
    Key,            \* client addresses
    NoBucket, NoCall,
    Limit,          \* 5 or 10 in the code
    Window,         \* one minute in the code
    MaxKeys,        \* 10,000 by default
    MaxTime         \* bound on the clock

ASSUME LimiterAssumption ==
    /\ {Limit, Window, MaxKeys} \subseteq Nat \ {0}
    /\ MaxTime \in Nat
    /\ IsFiniteSet(Key)
    /\ NoBucket \notin [attempts : 1..Limit, expiresAt : Nat]

VARIABLES
    now,
    buckets,        \* per key, its rateBucket or NoBucket
    nextCleanup,    \* 0 is the zero time
    lastCall,       \* history: the latest call and its answer
    allowed         \* history: the times of the calls allowed, per key

vars == <<now, buckets, nextCleanup, lastCall, allowed>>

Bucket == [attempts : 1..Limit, expiresAt : Nat]
Call == [key : Key, at : Nat, ok : BOOLEAN]

-----------------------------------------------------------------------------
Init ==
    /\ now = 0
    /\ buckets = [k \in Key |-> NoBucket]
    /\ nextCleanup = 0
    /\ lastCall = NoCall
    /\ allowed = [k \in Key |-> <<>>]

Tick ==
    /\ now < MaxTime
    /\ now' = now + 1
    /\ UNCHANGED <<buckets, nextCleanup, lastCall, allowed>>

\* Mutant: expired buckets are evicted once, at the first call.
CleanupDueOnce == nextCleanup = 0

CleanupDue == now >= nextCleanup

Expired(b) == b # NoBucket /\ now >= b.expiresAt

\* The table after evictExpired, if due, and the removal of k's own bucket.
Swept(k) ==
    [j \in Key |-> IF (CleanupDue \/ j = k) /\ Expired(buckets[j])
                   THEN NoBucket ELSE buckets[j]]

Known(table) == {k \in Key : table[k] # NoBucket}

Full(table) == Cardinality(Known(table)) >= MaxKeys

\* Mutant: the call that opens a window is not counted.
OpenedUncounted == [attempts |-> 0, expiresAt |-> now + Window]

Opened == [attempts |-> 1, expiresAt |-> now + Window]

Answer(k, ok) ==
    /\ lastCall' = [key |-> k, at |-> now, ok |-> ok]
    /\ allowed' = IF ok THEN [allowed EXCEPT ![k] = Append(@, now)] ELSE allowed

OpenWindow(k, table) ==
    /\ table[k] = NoBucket
    /\ ~Full(table)
    /\ buckets' = [table EXCEPT ![k] = Opened]
    /\ Answer(k, TRUE)

CountAttempt(k, table) ==
    /\ table[k] # NoBucket
    /\ table[k].attempts < Limit
    /\ buckets' = [table EXCEPT ![k].attempts = @ + 1]
    /\ Answer(k, TRUE)

Refuse(k, table) ==
    /\ IF table[k] = NoBucket THEN Full(table) ELSE table[k].attempts >= Limit
    /\ buckets' = table
    /\ Answer(k, FALSE)

allow(k) ==
    /\ \/ OpenWindow(k, Swept(k))
       \/ CountAttempt(k, Swept(k))
       \/ Refuse(k, Swept(k))
    /\ nextCleanup' = IF CleanupDue THEN now + Window ELSE nextCleanup
    /\ UNCHANGED now

Next == Tick \/ \E k \in Key : allow(k)

Spec == Init /\ [][Next]_vars

-----------------------------------------------------------------------------
\* Every bucket in the table counts between 1 and limit attempts.
TypeOK ==
    /\ now \in Nat
    /\ buckets \in [Key -> Bucket \cup {NoBucket}]
    /\ nextCleanup \in Nat
    /\ lastCall \in Call \cup {NoCall}
    /\ allowed \in [Key -> Seq(Nat)]

\* The table never holds more than maxKeys addresses.
TableBounded == Cardinality(Known(buckets)) <= MaxKeys

\* No bucket is found in the table a whole window after it expired, so a full
\* table refuses new addresses for a bounded time only.
StaleBounded ==
    lastCall # NoCall =>
        \A k \in Known(buckets) : lastCall.at < buckets[k].expiresAt + Window

\* A minute is counted from the first call of a bucket: any stretch of one
\* window may hold calls of two buckets, yet never 2 * limit of them.  Of
\* 2 * limit calls allowed in a row, the last comes a window after the first.
SlidingBound ==
    \A k \in Key : \A i, j \in DOMAIN allowed[k] :
        j = i + 2 * Limit - 1 => allowed[k][i] + Window <= allowed[k][j]
=============================================================================
