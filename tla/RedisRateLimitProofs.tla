------------------------ MODULE RedisRateLimitProofs ------------------------
(***************************************************************************)
(* What the rate limiter grants, for every capacity, refill time, number   *)
(* of requests under way and length of run.                                *)
(***************************************************************************)
EXTENDS RedisRateLimit, FiniteSetTheorems, SequenceTheorems, TLAPS

-----------------------------------------------------------------------------
\* Arithmetic.

LEMMA DivFloor ==
    ASSUME NEW x \in Nat, NEW y \in Nat \ {0}
    PROVE  /\ x \div y \in Nat
           /\ (x \div y) * y <= x /\ x < (x \div y + 1) * y
<1>1. x \div y \in Int /\ y * (x \div y) <= x
  OBVIOUS
<1>2. x < y * (x \div y) + y
  OBVIOUS
<1> DEFINE q == x \div y
<1>3. q \in Int /\ y * q <= x /\ x < y * q + y
  BY <1>1, <1>2
<1> HIDE DEF q
<1>4. q * y = y * q /\ (q + 1) * y = y * q + y
  BY <1>3
<1>5. q * y <= x /\ x < (q + 1) * y
  BY <1>3, <1>4
<1>6. q \in Nat
  <2> SUFFICES ASSUME q < 0 PROVE FALSE
    BY <1>3
  <2>1. -(q + 1) \in Nat
    BY <1>3
  <2>2. (-(q + 1)) * y \in Nat
    BY <2>1
  <2>3. (-(q + 1)) * y = -((q + 1) * y)
    BY <1>3
  <2> QED BY <2>2, <2>3, <1>3, <1>5
<1> QED BY <1>5, <1>6 DEF q

LEMMA Grows ==
    ASSUME NEW x \in Int, NEW y \in Int, NEW k \in Nat
    PROVE  /\ (x + 1) * k = x * k + k /\ x * k \in Int /\ (x - y) * k = x * k - y * k
           /\ x <= y => x * k <= y * k
<1>1. /\ (x + 1) * k = x * k + k /\ x * k \in Int /\ (x - y) * k = x * k - y * k
      /\ (y - x) * k = y * k - x * k /\ y * k \in Int
  OBVIOUS
<1>2. ASSUME x <= y PROVE x * k <= y * k
  <2>1. y - x \in Nat
    BY <1>2
  <2>2. (y - x) * k \in Nat
    BY <2>1
  <2> QED BY <1>1, <2>2
<1> QED BY <1>1, <1>2

LEMMA IntervalFacts ==
    /\ Interval \in Nat /\ Interval * Capacity \in Nat
    /\ Interval <= Interval * Capacity /\ Interval * Capacity <= Refill
<1>1. Interval \in Nat /\ Interval * Capacity <= Refill
  BY LimiterConstants, DivFloor DEF Interval
<1>2. Capacity \in Nat /\ 1 <= Capacity
  BY LimiterConstants
<1>3. 1 * Interval <= Capacity * Interval
  BY <1>1, <1>2, Grows
<1>4. Capacity * Interval = Interval * Capacity /\ 1 * Interval = Interval
  BY <1>1, <1>2
<1>5. Interval * Capacity \in Nat
  BY <1>1, <1>2
<1> QED BY <1>1, <1>3, <1>4, <1>5

LEMMA TtlFacts == Ttl \in Nat /\ Refill < Ttl /\ Interval * Capacity <= Ttl
<1>1. /\ Refill \div MsPerSec \in Nat /\ Refill < (Refill \div MsPerSec + 1) * MsPerSec
      /\ Refill \in Nat /\ MsPerSec \in Nat
  BY LimiterConstants, DivFloor
<1>2. (Refill \div MsPerSec + 1) * MsPerSec \in Nat
  BY <1>1
<1> QED BY <1>1, <1>2, IntervalFacts DEF Ttl

-----------------------------------------------------------------------------
\* Counting admissions: those of the first m in a that started at s or later, and
\* those in a that started from s to e.

SinceSet(a, m, s) == {k \in 1..m : a[k] >= s}
Since(a, m, s) == Cardinality(SinceSet(a, m, s))
WithinSet(a, s, e) == {k \in DOMAIN a : s <= a[k] /\ a[k] <= e}
Within(a, s, e) == Cardinality(WithinSet(a, s, e))

LEMMA SinceFinite ==
    ASSUME NEW a, NEW m \in Nat, NEW s
    PROVE  IsFiniteSet(SinceSet(a, m, s)) /\ Since(a, m, s) \in Nat /\ Since(a, m, s) <= m
<1>1. IsFiniteSet(1..m) /\ Cardinality(1..m) = m
  BY FS_Interval
<1>2. SinceSet(a, m, s) \subseteq 1..m
  BY DEF SinceSet
<1>3. IsFiniteSet(SinceSet(a, m, s)) /\ Cardinality(SinceSet(a, m, s)) <= m
  BY <1>1, <1>2, FS_Subset
<1> QED BY <1>3, FS_CardinalityType DEF Since

LEMMA SinceMore ==
    ASSUME NEW a, NEW m \in Nat, NEW n \in Nat, m <= n, NEW s
    PROVE  Since(a, n, s) <= Since(a, m, s) + (n - m)
<1>1. IsFiniteSet((m + 1)..n) /\ Cardinality((m + 1)..n) = n - m
  <2>1. m + 1 \in Int /\ n \in Int /\ (IF m + 1 > n THEN 0 ELSE n - (m + 1) + 1) = n - m
    OBVIOUS
  <2>2. IsFiniteSet((m + 1)..n) /\ Cardinality((m + 1)..n) = IF m + 1 > n THEN 0 ELSE n - (m + 1) + 1
    BY <2>1, FS_Interval
  <2> QED BY <2>1, <2>2
<1>2. IsFiniteSet(SinceSet(a, m, s)) /\ Since(a, m, s) \in Nat
  BY SinceFinite
<1> DEFINE U == SinceSet(a, m, s) \cup ((m + 1)..n)
<1>3. /\ IsFiniteSet(U)
      /\ Cardinality(U) = Since(a, m, s) + (n - m) - Cardinality(SinceSet(a, m, s) \cap ((m + 1)..n))
  BY <1>1, <1>2, FS_Union DEF Since
<1>4. SinceSet(a, m, s) \cap ((m + 1)..n) = {}
  <2> SUFFICES ASSUME NEW k \in 1..m, k \in (m + 1)..n PROVE FALSE
    BY DEF SinceSet
  <2> QED OBVIOUS
<1>5. Cardinality(U) = Since(a, m, s) + (n - m)
  <2>1. Cardinality(SinceSet(a, m, s) \cap ((m + 1)..n)) = 0
    BY <1>4, FS_EmptySet
  <2> HIDE DEF U
  <2> QED BY <1>2, <1>3, <2>1
<1>6. SinceSet(a, n, s) \subseteq U
  <2> SUFFICES ASSUME NEW k \in 1..n, a[k] >= s PROVE k \in U
    BY DEF SinceSet
  <2>1. k \in 1..m \/ k \in (m + 1)..n
    OBVIOUS
  <2> QED BY <2>1 DEF SinceSet
<1> HIDE DEF U
<1> QED BY <1>3, <1>5, <1>6, FS_Subset DEF Since

LEMMA SinceAppend ==
    ASSUME NEW a \in Seq(Nat), NEW x \in Nat, NEW s \in Nat
    PROVE  /\ \A m \in 0..Len(a) : Since(Append(a, x), m, s) = Since(a, m, s)
           /\ Since(Append(a, x), Len(a) + 1, s) <= Since(a, Len(a), s) + 1
           /\ x < s => Since(Append(a, x), Len(a) + 1, s) = Since(a, Len(a), s)
<1> DEFINE n == Len(a)
           b == Append(a, x)
<1>1. n \in Nat /\ b[n + 1] = x /\ \A k \in 1..n : b[k] = a[k]
  BY LenProperties, AppendProperties
<1> HIDE DEF b
<1>2. ASSUME NEW m \in 0..n PROVE Since(b, m, s) = Since(a, m, s)
  <2>1. SinceSet(b, m, s) = SinceSet(a, m, s)
    BY <1>1 DEF SinceSet
  <2> QED BY <2>1 DEF Since
<1>3. Since(b, n + 1, s) <= Since(a, n, s) + 1
  <2>1. n + 1 \in Nat /\ n <= n + 1 /\ (n + 1) - n = 1 /\ n \in 0..n
    BY <1>1
  <2> HIDE DEF n
  <2>2. Since(b, n + 1, s) <= Since(b, n, s) + ((n + 1) - n)
    BY <1>1, <2>1, SinceMore
  <2> QED BY <1>2, <2>1, <2>2
<1>4. ASSUME x < s PROVE Since(b, n + 1, s) = Since(a, n, s)
  <2>1. SinceSet(b, n + 1, s) = SinceSet(b, n, s)
    <3>1. \A k \in 1..(n + 1) : b[k] >= s => k \in 1..n
      <4> SUFFICES ASSUME NEW k \in 1..(n + 1), k \notin 1..n, b[k] >= s PROVE FALSE
        OBVIOUS
      <4>1. k = n + 1
        BY <1>1
      <4> QED BY <4>1, <1>1, <1>4
    <3> QED BY <1>1, <3>1 DEF SinceSet
  <2> QED BY <1>1, <1>2, <2>1 DEF Since
<1> QED BY <1>2, <1>3, <1>4 DEF b

LEMMA WithinAppend ==
    ASSUME NEW a \in Seq(Nat), NEW x \in Nat, NEW s \in Nat, NEW e \in Nat
    PROVE  /\ Within(a, s, e) \in Nat
           /\ Within(a, s, e) <= Since(a, Len(a), s)
           /\ ~(s <= x /\ x <= e) => Within(Append(a, x), s, e) = Within(a, s, e)
<1> DEFINE n == Len(a)
           b == Append(a, x)
<1>1. /\ n \in Nat /\ DOMAIN a = 1..n /\ DOMAIN b = 1..(n + 1)
      /\ b[n + 1] = x /\ \A k \in 1..n : b[k] = a[k] /\ a[k] \in Nat
  BY LenProperties, AppendProperties, ElementOfSeq
<1> HIDE DEF b
<1>2. WithinSet(a, s, e) \subseteq SinceSet(a, n, s)
  BY <1>1 DEF WithinSet, SinceSet
<1>3. IsFiniteSet(SinceSet(a, n, s))
  BY <1>1, SinceFinite
<1>4. IsFiniteSet(WithinSet(a, s, e)) /\ Within(a, s, e) <= Since(a, n, s)
  BY <1>2, <1>3, FS_Subset DEF Within, Since
<1>5. ASSUME ~(s <= x /\ x <= e) PROVE Within(b, s, e) = Within(a, s, e)
  <2>1. \A k \in 1..(n + 1) : k = n + 1 \/ k \in 1..n
    BY <1>1
  <2>2. n + 1 \notin WithinSet(b, s, e)
    BY <1>1, <1>5 DEF WithinSet
  <2>3. \A k \in 1..n : k \in WithinSet(b, s, e) <=> k \in WithinSet(a, s, e)
    BY <1>1 DEF WithinSet
  <2>4. WithinSet(b, s, e) = WithinSet(a, s, e)
    <3>1. WithinSet(b, s, e) \subseteq 1..(n + 1) /\ WithinSet(a, s, e) \subseteq 1..n
      BY <1>1 DEF WithinSet
    <3> QED BY <2>1, <2>2, <2>3, <3>1
  <2> QED BY <2>4 DEF Within
<1> QED BY <1>4, <1>5, FS_CardinalityType DEF Within, b

-----------------------------------------------------------------------------
\* Debts.  Of the first m admissions in a, those that started at s or later, but for
\* the l that were lost, are paid for at the time v.

Debt(a, m, l, v) ==
    \A s \in Nat : Since(a, m, s) > l => s + (Since(a, m, s) - l) * Interval <= v

LEMMA DebtLess ==
    ASSUME NEW a, NEW m \in Nat, NEW l \in Nat, NEW k \in Nat, l <= k,
           NEW v \in Nat, NEW w \in Nat, v <= w, Debt(a, m, l, v)
    PROVE  Debt(a, m, k, w)
<1> SUFFICES ASSUME NEW s \in Nat, Since(a, m, s) > k
             PROVE  s + (Since(a, m, s) - k) * Interval <= w
  BY DEF Debt
<1> DEFINE n == Since(a, m, s)
<1>1. n \in Nat /\ Interval \in Nat
  BY SinceFinite, IntervalFacts
<1>2. s + (n - l) * Interval <= v
  BY <1>1 DEF Debt
<1> HIDE DEF n
<1>3. n - k <= n - l /\ n - k \in Int /\ n - l \in Int
  BY <1>1
<1>4. (n - k) * Interval <= (n - l) * Interval
  BY <1>1, <1>3, Grows
<1>5. (n - k) * Interval \in Int /\ (n - l) * Interval \in Int
  BY <1>1
<1> QED BY <1>2, <1>4, <1>5 DEF n

LEMMA DebtAppend ==
    ASSUME NEW a \in Seq(Nat), NEW x \in Nat, NEW m \in 0..Len(a), NEW l, NEW v, Debt(a, m, l, v)
    PROVE  Debt(Append(a, x), m, l, v)
  BY SinceAppend DEF Debt

\* An admission that knew of the first m, at the time v it was given, pays for itself
\* and for what it knew of; what it did not know of is lost.
LEMMA DebtAdmit ==
    ASSUME NEW a \in Seq(Nat), NEW now \in Nat, NEW m \in 0..Len(a), NEW l \in Nat,
           NEW v \in Nat, now <= v, Debt(a, m, l, v)
    PROVE  Debt(Append(a, now), Len(a) + 1, l + Len(a) - m, v + Interval)
<1> DEFINE b == Append(a, now)
           k == l + Len(a) - m
<1>0. Len(a) \in Nat /\ m \in Nat /\ m <= Len(a) /\ Interval \in Nat
  BY LenProperties, IntervalFacts
<1>1. k \in Nat
  BY <1>0
<1> SUFFICES ASSUME NEW s \in Nat, Since(b, Len(a) + 1, s) > k
             PROVE  s + (Since(b, Len(a) + 1, s) - k) * Interval <= v + Interval
  BY DEF Debt
<1> DEFINE n == Since(b, Len(a) + 1, s)
           o == Since(a, m, s)
           p == Since(a, Len(a), s)
<1>2. n \in Nat /\ o \in Nat /\ p \in Nat
  <2>1. Len(a) + 1 \in Nat
    BY <1>0
  <2> QED BY <1>0, <2>1, SinceFinite
<1>3. p <= o + (Len(a) - m)
  BY <1>0, SinceMore
<1>4. n <= p + 1 /\ (now < s => n = p)
  BY SinceAppend
<1>5. n > k
  OBVIOUS
<1> HIDE DEF b, n, o, p
<1>6. CASE o > l
  <2>1. s + (o - l) * Interval <= v
    BY <1>6 DEF Debt, o
  <2>2. n - k <= (o - l) + 1 /\ n - k \in Int /\ o - l \in Int
    BY <1>0, <1>2, <1>3, <1>4
  <2>3. (n - k) * Interval <= ((o - l) + 1) * Interval
    BY <1>0, <2>2, Grows
  <2>4. ((o - l) + 1) * Interval = (o - l) * Interval + Interval /\ (o - l) * Interval \in Int
    BY <1>0, <2>2, Grows
  <2>5. (n - k) * Interval \in Int
    BY <1>0, <2>2
  <2> HIDE DEF k
  <2> QED BY <1>0, <2>1, <2>3, <2>4, <2>5 DEF n
<1>7. CASE o <= l
  <2>1. s <= now /\ n - k = 1
    BY <1>0, <1>2, <1>3, <1>4, <1>5, <1>7
  <2>2. (n - k) * Interval = Interval
    BY <1>0, <2>1
  <2> HIDE DEF k
  <2> QED BY <1>0, <2>1, <2>2 DEF n
<1> QED BY <1>2, <1>6, <1>7

-----------------------------------------------------------------------------
\* The state of the limiter.

Locals ==
    [st : {"idle", "served", "panicked"}] \cup [st : {"get"}, now : Nat]
      \cup [st : {"decide"}, now : Nat, tat : Nat, seen : Nat]
      \cup [st : {"rejected"}, now : Nat, tat : Nat, retry : Nat]

LimiterTypes ==
    /\ clock \in Nat /\ tat \in Nat \cup {NoTat} /\ expireAt \in Nat
    /\ r \in [Clients -> Locals] /\ admitted \in Seq(Nat) /\ lastTat \in Nat /\ lost \in Nat

\* A request that is under way began in the past, though not long ago.
Requests ==
    \A c \in Clients :
        /\ r[c].st \in {"get", "decide"} => r[c].now <= clock /\ clock <= r[c].now + MaxDelay
        /\ r[c].st = "decide" => r[c].seen <= Len(admitted)

\* The stored value is the last one written, and outlives the time it stands for.
Value ==
    /\ tat # NoTat => tat = lastTat
    /\ tat = NoTat => expireAt <= clock
    /\ IF admitted = <<>> THEN lastTat = 0 ELSE lastTat + Ttl <= expireAt + Interval * Capacity

LimiterInv == LimiterTypes /\ Requests /\ Value /\ RetryAfterSuffices

\* A request in each of its states
LEMMA LocalTypes ==
    ASSUME LimiterTypes, NEW c \in Clients
    PROVE  /\ r[c].st \in {"get", "decide", "rejected"} => r[c].now \in Nat
           /\ r[c].st \in {"decide", "rejected"} => r[c].tat \in Nat
           /\ r[c].st = "decide" => r[c].seen \in Nat
           /\ r[c].st = "rejected" => r[c].retry \in Nat
  BY DEF LimiterTypes, Locals

\* What a request is given: a time from its start on that is not too far ahead
LEMMA Times ==
    ASSUME NEW t \in Nat, NEW now \in Nat
    PROVE  /\ NewTat(t, now) \in Nat /\ now + Interval <= NewTat(t, now)
           /\ EarliestAllowed(t, now) \in Int
           /\ EarliestAllowed(t, now) <= now => NewTat(t, now) <= now + Interval * Capacity
  BY IntervalFacts DEF NewTat, EarliestAllowed

\* The wait a rejected request is told is long enough.
LEMMA WaitIsEnough ==
    ASSUME NEW t \in Nat, NEW now \in Nat, EarliestAllowed(t, now) > now
    PROVE  /\ RetryAfter(t, now) \in Nat
           /\ LET later == now + RetryAfter(t, now) * MsPerSec
              IN  EarliestAllowed(t, later) <= later
<1> DEFINE x == EarliestAllowed(t, now) - now
           q == x \div MsPerSec
           later == now + (q + 1) * MsPerSec
<1>1. x \in Nat
  <2>1. EarliestAllowed(t, now) \in Int
    BY Times
  <2> QED BY <2>1
<1>2. MsPerSec \in Nat \ {0}
  BY LimiterConstants
<1>3. q \in Nat /\ x < (q + 1) * MsPerSec
  BY <1>1, <1>2, DivFloor
<1>4. RetryAfter(t, now) = q + 1
  BY DEF RetryAfter
<1> HIDE DEF q
<1>5. later \in Nat /\ EarliestAllowed(t, now) < later /\ now <= later
  BY <1>1, <1>2, <1>3, Times
<1> HIDE DEF later
<1>6. EarliestAllowed(t, later) <= later
  <2>1. CASE t < later
    BY <1>5, <2>1, IntervalFacts DEF EarliestAllowed, NewTat
  <2>2. CASE ~(t < later)
    BY <1>5, <2>2, IntervalFacts DEF EarliestAllowed, NewTat
  <2> QED BY <2>1, <2>2
<1> QED BY <1>3, <1>4, <1>6 DEF later

LEMMA LimiterInit == Init => LimiterInv
<1> SUFFICES ASSUME Init PROVE LimiterInv
  OBVIOUS
<1>1. LimiterTypes
  BY EmptySeq DEF Init, LimiterTypes, Locals, Idle, NoTat
<1>2. Requests /\ Value /\ RetryAfterSuffices
  BY DEF Init, Requests, Value, RetryAfterSuffices, Idle, NoTat
<1> QED BY <1>1, <1>2 DEF LimiterInv

\* The steps of a request other than its admission
LEMMA RequestStep ==
    ASSUME LimiterInv, NEW c \in Clients, Arrive(c) \/ Get(c) \/ Reject(c)
    PROVE  LimiterInv'
<1>0. LimiterTypes /\ Requests /\ Value /\ RetryAfterSuffices
  BY DEF LimiterInv
<1>1. /\ UNCHANGED <<clock, tat, expireAt, admitted, lastTat, lost>>
      /\ \E x : r' = [r EXCEPT ![c] = x]
  BY DEF Arrive, Get, Reject, history
<1>2. Len(admitted) \in Nat /\ clock \in Nat /\ MaxDelay \in Nat
  BY <1>0, LenProperties, LimiterConstants DEF LimiterTypes
<1>3. /\ r'[c] \in Locals
      /\ r'[c].st \in {"get", "decide"} => r'[c].now <= clock /\ clock <= r'[c].now + MaxDelay
      /\ r'[c].st = "decide" => r'[c].seen <= Len(admitted)
      /\ r'[c].st = "rejected" =>
            LET later == r'[c].now + r'[c].retry * MsPerSec
            IN  EarliestAllowed(r'[c].tat, later) <= later
  <2>1. CASE Arrive(c)
    <3>1. r'[c] = [st |-> "get", now |-> clock]
      BY <1>0, <2>1 DEF Arrive, LimiterTypes
    <3> QED BY <1>2, <3>1 DEF Locals
  <2>2. CASE Get(c)
    <3> DEFINE t == IF tat = NoTat \/ clock >= expireAt THEN r[c].now ELSE tat
    <3>1. r'[c] = [st |-> "decide", now |-> r[c].now, tat |-> t, seen |-> Len(admitted)]
          /\ r[c].st = "get"
      BY <1>0, <2>2 DEF Get, LimiterTypes
    <3>2. r[c].now \in Nat /\ t \in Nat
      BY <1>0, <3>1, LocalTypes DEF LimiterTypes
    <3>3. r[c].now <= clock /\ clock <= r[c].now + MaxDelay
      BY <1>0, <3>1 DEF Requests
    <3> HIDE DEF t
    <3> QED BY <1>2, <3>1, <3>2, <3>3 DEF Locals
  <2>3. CASE Reject(c)
    <3> DEFINE t == r[c].tat
               now == r[c].now
    <3>1. /\ r'[c] = [st |-> "rejected", now |-> now, tat |-> t, retry |-> RetryAfter(t, now)]
          /\ r[c].st = "decide" /\ EarliestAllowed(t, now) > now
      BY <1>0, <2>3 DEF Reject, LimiterTypes
    <3>2. now \in Nat /\ t \in Nat
      BY <1>0, <3>1, LocalTypes
    <3> HIDE DEF t, now
    <3>3. /\ RetryAfter(t, now) \in Nat
          /\ EarliestAllowed(t, now + RetryAfter(t, now) * MsPerSec) <= now + RetryAfter(t, now) * MsPerSec
      BY <3>1, <3>2, WaitIsEnough
    <3> QED BY <3>1, <3>2, <3>3 DEF Locals
  <2> QED BY <2>1, <2>2, <2>3
<1>4. r' \in [Clients -> Locals] /\ \A d \in Clients \ {c} : r'[d] = r[d]
  BY <1>0, <1>1, <1>3 DEF LimiterTypes
<1>5. LimiterTypes'
  BY <1>0, <1>1, <1>4 DEF LimiterTypes
<1>6. Requests'
  BY <1>0, <1>1, <1>3, <1>4 DEF Requests
<1>7. Value'
  BY <1>0, <1>1 DEF Value
<1>8. RetryAfterSuffices'
  BY <1>0, <1>3, <1>4 DEF RetryAfterSuffices
<1> QED BY <1>5, <1>6, <1>7, <1>8 DEF LimiterInv

LEMMA AdmitFacts ==
    ASSUME LimiterInv, NEW c \in Clients, Admit(c)
    PROVE  /\ r[c].now \in Nat /\ r[c].tat \in Nat /\ r[c].seen \in 0..Len(admitted)
           /\ r[c].now <= clock /\ Len(admitted) \in Nat
           /\ tat' = NewTat(r[c].tat, r[c].now) /\ lastTat' = tat' /\ tat' \in Nat
           /\ tat' <= r[c].now + Interval * Capacity
           /\ expireAt' = clock + Ttl /\ clock' = clock
           /\ admitted' = Append(admitted, r[c].now) /\ admitted' \in Seq(Nat)
           /\ Len(admitted') = Len(admitted) + 1 /\ admitted' # <<>>
           /\ lost' = lost + Len(admitted) - r[c].seen /\ lost' \in Nat /\ lost <= lost'
           /\ r'[c].st \in {"served", "panicked"} /\ r' \in [Clients -> Locals]
           /\ \A d \in Clients \ {c} : r'[d] = r[d]
<1>1. /\ r[c].st = "decide" /\ EarliestAllowed(r[c].tat, r[c].now) <= r[c].now
      /\ tat' = NewTat(r[c].tat, r[c].now) /\ lastTat' = tat'
      /\ expireAt' = clock + Ttl /\ clock' = clock
      /\ admitted' = Append(admitted, r[c].now)
      /\ lost' = lost + Len(admitted) - r[c].seen
      /\ \E x \in {"served", "panicked"} : r' = [r EXCEPT ![c] = [st |-> x]]
  BY DEF Admit
<1>2. r[c].now \in Nat /\ r[c].tat \in Nat /\ r[c].seen \in Nat /\ lost \in Nat
  BY <1>1, LocalTypes DEF LimiterInv, LimiterTypes
<1>3. Len(admitted) \in Nat
  BY LenProperties DEF LimiterInv, LimiterTypes
<1>4. r[c].now <= clock /\ r[c].seen <= Len(admitted)
  BY <1>1 DEF LimiterInv, Requests
<1>5. tat' \in Nat /\ tat' <= r[c].now + Interval * Capacity
  BY <1>1, <1>2, Times
<1>6. /\ admitted' \in Seq(Nat) /\ Len(admitted') = Len(admitted) + 1 /\ admitted' # <<>>
  BY <1>1, <1>2, AppendProperties DEF LimiterInv, LimiterTypes
<1>7. lost' \in Nat /\ lost <= lost'
  BY <1>1, <1>2, <1>3, <1>4
<1>8. /\ r'[c].st \in {"served", "panicked"} /\ r' \in [Clients -> Locals]
      /\ \A d \in Clients \ {c} : r'[d] = r[d]
  BY <1>1 DEF LimiterInv, LimiterTypes, Locals
<1> QED BY <1>1, <1>2, <1>3, <1>4, <1>5, <1>6, <1>7, <1>8

LEMMA AdmitStep ==
    ASSUME LimiterInv, NEW c \in Clients, Admit(c)
    PROVE  LimiterInv'
<1>0. clock \in Nat /\ Ttl \in Nat /\ Interval * Capacity \in Nat
  BY TtlFacts, IntervalFacts DEF LimiterInv, LimiterTypes
<1>1. LimiterTypes'
  BY <1>0, AdmitFacts DEF LimiterTypes
<1>2. Requests'
  <2> SUFFICES ASSUME NEW d \in Clients
               PROVE  /\ r'[d].st \in {"get", "decide"} => /\ r'[d].now <= clock'
                                                           /\ clock' <= r'[d].now + MaxDelay
                      /\ r'[d].st = "decide" => r'[d].seen <= Len(admitted')
    BY DEF Requests
  <2>1. CASE d = c
    BY <2>1, AdmitFacts
  <2>2. CASE d # c
    <3>1. r'[d] = r[d] /\ clock' = clock /\ Len(admitted') = Len(admitted) + 1 /\ Len(admitted) \in Nat
      BY <2>2, AdmitFacts
    <3>2. r[d].st = "decide" => r[d].seen \in Nat /\ r[d].seen <= Len(admitted)
      BY LocalTypes DEF LimiterInv, Requests
    <3> QED BY <3>1, <3>2 DEF LimiterInv, Requests
  <2> QED BY <2>1, <2>2
<1>3. Value'
  <2>1. tat' # NoTat /\ tat' = lastTat' /\ admitted' # <<>>
    BY AdmitFacts DEF NoTat
  <2>2. lastTat' + Ttl <= expireAt' + Interval * Capacity
    <3>1. /\ lastTat' \in Nat /\ r[c].now \in Nat /\ lastTat' <= r[c].now + Interval * Capacity
          /\ r[c].now <= clock /\ expireAt' = clock + Ttl
      BY AdmitFacts
    <3> DEFINE most == Interval * Capacity
    <3>2. most \in Nat /\ lastTat' <= r[c].now + most
      BY <1>0, <3>1
    <3> HIDE DEF most
    <3>3. clock \in Nat /\ Ttl \in Nat /\ lastTat' \in Nat /\ r[c].now \in Nat /\ r[c].now <= clock
      BY <1>0, <3>1
    <3>4. lastTat' <= clock + most
      BY <3>2, <3>3
    <3>5. \A a, b, t, m \in Nat : a <= b + m => a + t <= (b + t) + m
      OBVIOUS
    <3>6. lastTat' + Ttl <= (clock + Ttl) + most
      BY <3>2, <3>3, <3>4, <3>5
    <3> QED BY <3>1, <3>6 DEF most
  <2> QED BY <2>1, <2>2 DEF Value
<1>4. RetryAfterSuffices'
  <2>1. RetryAfterSuffices /\ \A d \in Clients : r'[d].st = "rejected" => r'[d] = r[d]
    BY AdmitFacts DEF LimiterInv
  <2> QED BY <2>1 DEF RetryAfterSuffices
<1> QED BY <1>1, <1>2, <1>3, <1>4 DEF LimiterInv

LEMMA ClockStep == ASSUME LimiterInv, Clock \/ Expire PROVE LimiterInv'
<1>0. clock \in Nat /\ MaxDelay \in Nat /\ expireAt \in Nat
  BY LimiterConstants DEF LimiterInv, LimiterTypes
<1>1. /\ UNCHANGED <<expireAt, r, admitted, lastTat, lost>>
      /\ clock' = clock \/ clock' = clock + 1
      /\ tat' = tat \/ (tat' = NoTat /\ clock' = clock /\ clock >= expireAt)
  BY DEF Clock, Expire, history
<1>2. LimiterTypes'
  BY <1>0, <1>1 DEF LimiterInv, LimiterTypes
<1>3. Requests'
  <2> SUFFICES ASSUME NEW c \in Clients, r[c].st \in {"get", "decide"}
               PROVE  r[c].now <= clock' /\ clock' <= r[c].now + MaxDelay
    BY <1>1 DEF LimiterInv, Requests
  <2>1. r[c].now \in Nat /\ r[c].now <= clock /\ clock <= r[c].now + MaxDelay
    BY LocalTypes DEF LimiterInv, Requests
  <2>2. clock' = clock + 1 => clock < r[c].now + MaxDelay
    BY <1>0 DEF Clock, Expire
  <2> QED BY <1>0, <1>1, <2>1, <2>2
<1>4. Value'
  BY <1>0, <1>1 DEF LimiterInv, Value
<1>5. RetryAfterSuffices'
  BY <1>1 DEF LimiterInv, RetryAfterSuffices
<1> QED BY <1>2, <1>3, <1>4, <1>5 DEF LimiterInv

\* The value in Redis and the requests under way stay as the limiter needs them
\* (rate_limit/redis_service.rs).
THEOREM LimiterInvariant == Spec => []LimiterInv
<1>1. LimiterInv /\ [Next]_vars => LimiterInv'
  <2> SUFFICES ASSUME LimiterInv, [Next]_vars PROVE LimiterInv'
    OBVIOUS
  <2>1. CASE UNCHANGED vars
    BY <2>1 DEF vars, history, LimiterInv, LimiterTypes, Requests, Value, RetryAfterSuffices
  <2>2. CASE Next
    BY <2>2, ClockStep, RequestStep, AdmitStep DEF Next
  <2> QED BY <2>1, <2>2
<1> QED BY <1>1, LimiterInit, PTL DEF Spec

\* A rejected client that waits for the Retry-After it was given finds its request
\* admitted, whatever the remainder of the division (redis_service.rs).
THEOREM WaitSuffices == Spec => []RetryAfterSuffices
<1>1. LimiterInv => RetryAfterSuffices
  BY DEF LimiterInv
<1> QED BY <1>1, LimiterInvariant, PTL

\* Redis drops the value only when it no longer limits anything: the time to live
\* exceeds what the algorithm may put into the future (redis_service.rs, set_ex).
THEOREM ExpiryIsHarmless == Spec => []ExpiryForgetsNothing
<1>1. LimiterInv => ExpiryForgetsNothing
  <2> SUFFICES ASSUME LimiterInv, expireAt <= clock PROVE lastTat <= clock
    BY DEF LimiterInv, LimiterTypes, Value, ExpiryForgetsNothing
  <2>1. /\ clock \in Nat /\ expireAt \in Nat /\ lastTat \in Nat
        /\ IF admitted = <<>> THEN lastTat = 0 ELSE lastTat + Ttl <= expireAt + Interval * Capacity
    BY DEF LimiterInv, LimiterTypes, Value
  <2> QED BY <2>1, TtlFacts, IntervalFacts
<1> QED BY <1>1, LimiterInvariant, PTL

-----------------------------------------------------------------------------
\* The quota.  The stored value pays for all admissions but the lost ones, the value
\* a request has read for those it knows of, and no admission is granted further
\* ahead than a burst of Capacity.

Later(t, now) == IF t < now THEN now ELSE t

QuotaInv ==
    /\ Debt(admitted, Len(admitted), lost, lastTat)
    /\ \A c \in Clients : r[c].st = "decide" =>
          Debt(admitted, r[c].seen, lost, Later(r[c].tat, r[c].now))
    /\ \A s, e \in Nat : Within(admitted, s, e) > lost =>
          s + (Within(admitted, s, e) - lost) * Interval <= e + Interval * Capacity

\* A request is decided before the time to live has run out that the value was
\* stored with beyond what it stands for.
Punctual == MaxDelay + Interval * Capacity <= Ttl

LEMMA LaterType ==
    ASSUME NEW t \in Nat, NEW now \in Nat
    PROVE  /\ Later(t, now) \in Nat /\ now <= Later(t, now) /\ t <= Later(t, now)
           /\ NewTat(t, now) = Later(t, now) + Interval
  BY DEF Later, NewTat

\* No admission, no debt
LEMMA NoDebt ==
    /\ \A l, v \in Nat : Debt(<<>>, 0, l, v)
    /\ \A s, e \in Nat : Within(<<>>, s, e) = 0
<1>1. \A s \in Nat : Since(<<>>, 0, s) <= 0 /\ Since(<<>>, 0, s) \in Nat
  BY SinceFinite
<1>2. \A l, v \in Nat : Debt(<<>>, 0, l, v)
  <2> SUFFICES ASSUME NEW l \in Nat, NEW v \in Nat, NEW s \in Nat, Since(<<>>, 0, s) > l
               PROVE  FALSE
    BY DEF Debt
  <2> QED BY <1>1
<1>3. \A s, e \in Nat : WithinSet(<<>>, s, e) = {}
  BY DEF WithinSet
<1> QED BY <1>2, <1>3, FS_EmptySet DEF Within

LEMMA QuotaInit == Init => QuotaInv
<1> SUFFICES ASSUME Init PROVE QuotaInv
  OBVIOUS
<1>1. admitted = <<>> /\ lost = 0 /\ lastTat = 0 /\ Len(<<>>) = 0
      /\ \A c \in Clients : r[c].st # "decide"
  BY DEF Init, Idle
<1> QED BY <1>1, NoDebt DEF QuotaInv

\* A request reads a value that pays for all it knows of, or none because it was
\* dropped and its own time does.
LEMMA QuotaGet ==
    ASSUME Punctual, LimiterInv, QuotaInv, NEW c \in Clients, Get(c)
    PROVE  QuotaInv'
<1> DEFINE t == IF tat = NoTat \/ clock >= expireAt THEN r[c].now ELSE tat
<1>0. LimiterTypes /\ Requests /\ Value
  BY DEF LimiterInv
<1>1. /\ UNCHANGED <<admitted, lost, lastTat>> /\ r[c].st = "get"
      /\ r' = [r EXCEPT ![c] = [st |-> "decide", now |-> r[c].now, tat |-> t, seen |-> Len(admitted)]]
  BY DEF Get, history
<1>2. r'[c] = [st |-> "decide", now |-> r[c].now, tat |-> t, seen |-> Len(admitted)]
      /\ \A d \in Clients \ {c} : r'[d] = r[d]
  BY <1>0, <1>1 DEF LimiterTypes
<1>3. /\ r[c].now \in Nat /\ t \in Nat /\ lastTat \in Nat /\ lost \in Nat /\ Len(admitted) \in Nat
  BY <1>0, <1>1, LocalTypes, LenProperties DEF LimiterTypes
<1>4. Debt(admitted, Len(admitted), lost, Later(t, r[c].now))
  <2>1. CASE lastTat <= Later(t, r[c].now)
    <3>1. Debt(admitted, Len(admitted), lost, lastTat) /\ Later(t, r[c].now) \in Nat
      BY <1>3, LaterType DEF QuotaInv
    <3> HIDE DEF t
    <3> QED BY <1>3, <2>1, <3>1, DebtLess
  <2>2. CASE admitted = <<>>
    BY <1>3, <2>2, NoDebt, LaterType, EmptySeq
  <2>3. CASE admitted # <<>> /\ (tat = NoTat \/ clock >= expireAt)
    <3>1. /\ clock \in Nat /\ expireAt \in Nat /\ MaxDelay \in Nat /\ Ttl \in Nat
          /\ Interval * Capacity \in Nat
      BY <1>0, LimiterConstants, TtlFacts, IntervalFacts DEF LimiterTypes
    <3>2. /\ lastTat + Ttl <= expireAt + Interval * Capacity /\ expireAt <= clock
      BY <1>0, <2>3, <3>1 DEF Value
    <3>3. clock <= r[c].now + MaxDelay
      BY <1>0, <1>1 DEF Requests
    <3> DEFINE most == Interval * Capacity
    <3>4. /\ most \in Nat /\ lastTat + Ttl <= expireAt + most /\ MaxDelay + most <= Ttl
      BY <3>1, <3>2 DEF Punctual
    <3> HIDE DEF most
    <3>5. \A a, b, x, y, n, d, m \in Nat :
              a + x <= y + m /\ d + m <= x /\ y <= b /\ b <= n + d => a <= n
      OBVIOUS
    <3>6. lastTat <= r[c].now
      <4>1. clock \in Nat /\ expireAt \in Nat /\ MaxDelay \in Nat /\ Ttl \in Nat /\ expireAt <= clock
        BY <3>1, <3>2
      <4> HIDE DEF t
      <4> QED BY <4>1, <1>3, <3>3, <3>4, <3>5
    <3>7. r[c].now <= Later(t, r[c].now) /\ Later(t, r[c].now) \in Nat
      BY <1>3, LaterType
    <3> HIDE DEF t
    <3> QED BY <1>3, <2>1, <3>6, <3>7
  <2>4. CASE ~(tat = NoTat \/ clock >= expireAt)
    <3>1. t = lastTat
      BY <1>0, <2>4 DEF Value
    <3> HIDE DEF t
    <3> QED BY <1>3, <2>1, <3>1, LaterType
  <2> QED BY <2>2, <2>3, <2>4
<1> HIDE DEF t
<1> QED BY <1>1, <1>2, <1>4 DEF QuotaInv

\* An admission pays for itself.
LEMMA QuotaAdmit ==
    ASSUME LimiterInv, QuotaInv, NEW c \in Clients, Admit(c)
    PROVE  QuotaInv'
<1> DEFINE now == r[c].now
           m == r[c].seen
           v == Later(r[c].tat, r[c].now)
<1>0. /\ now \in Nat /\ m \in 0..Len(admitted) /\ Len(admitted) \in Nat /\ admitted \in Seq(Nat)
      /\ lost \in Nat /\ lost' \in Nat /\ lost <= lost' /\ lost' = lost + Len(admitted) - m
      /\ admitted' = Append(admitted, now) /\ Len(admitted') = Len(admitted) + 1
      /\ admitted' \in Seq(Nat) /\ lastTat' \in Nat
  BY AdmitFacts DEF LimiterInv, LimiterTypes
<1>1. v \in Nat /\ now <= v /\ lastTat' = v + Interval
  BY AdmitFacts, LaterType
<1>2. Debt(admitted, m, lost, v)
  BY DEF QuotaInv, Admit
<1>3. lastTat' <= now + Interval * Capacity
  BY AdmitFacts
<1>4. \A d \in Clients : r'[d].st = "decide" =>
          r'[d] = r[d] /\ r[d].seen \in 0..Len(admitted) /\ r[d].now \in Nat /\ r[d].tat \in Nat
  <2> SUFFICES ASSUME NEW d \in Clients, r'[d].st = "decide"
               PROVE  r'[d] = r[d] /\ r[d].seen \in 0..Len(admitted) /\ r[d].now \in Nat /\ r[d].tat \in Nat
    OBVIOUS
  <2>1. r'[d] = r[d]
    BY AdmitFacts
  <2>2. r[d].seen \in Nat /\ r[d].now \in Nat /\ r[d].tat \in Nat /\ r[d].seen <= Len(admitted)
    BY <2>1, LocalTypes DEF LimiterInv, Requests
  <2> QED BY <1>0, <2>1, <2>2
<1> HIDE DEF now, m, v
<1>5. Debt(admitted', Len(admitted'), lost', lastTat')
  BY <1>0, <1>1, <1>2, DebtAdmit
<1>6. ASSUME NEW d \in Clients, r'[d].st = "decide"
      PROVE  Debt(admitted', r'[d].seen, lost', Later(r'[d].tat, r'[d].now))
  <2> DEFINE w == Later(r[d].tat, r[d].now)
             n == r[d].seen
  <2>1. w \in Nat /\ n \in 0..Len(admitted) /\ n \in Nat /\ r'[d] = r[d]
    <3>1. /\ r'[d] = r[d] /\ n \in 0..Len(admitted) /\ r[d].now \in Nat /\ r[d].tat \in Nat
      BY <1>4, <1>6
    <3>2. w \in Nat
      BY <3>1, LaterType
    <3> HIDE DEF w, n
    <3>3. n \in Nat
      BY <1>0, <3>1
    <3> QED BY <3>1, <3>2, <3>3
  <2>2. Debt(admitted, n, lost, w)
    BY <1>6, <2>1 DEF QuotaInv
  <2> HIDE DEF w, n
  <2>3. Debt(admitted', n, lost, w)
    BY <1>0, <2>1, <2>2, DebtAppend
  <2>4. Debt(admitted', n, lost', w)
    BY <1>0, <2>1, <2>3, DebtLess
  <2> QED BY <2>1, <2>4 DEF w, n
<1>7. ASSUME NEW s \in Nat, NEW e \in Nat, Within(admitted', s, e) > lost'
      PROVE  s + (Within(admitted', s, e) - lost') * Interval <= e + Interval * Capacity
  <2> DEFINE x == Within(admitted', s, e)
             most == Interval * Capacity
  <2>0. Interval \in Nat /\ most \in Nat
    BY IntervalFacts
  <2>1. x \in Nat /\ x <= Since(admitted', Len(admitted'), s)
    BY <1>0, WithinAppend
  <2>2. CASE s <= now /\ now <= e
    <3> DEFINE y == Since(admitted', Len(admitted'), s)
    <3>1. y \in Nat
      BY <1>0, SinceFinite
    <3>2. y > lost' /\ x - lost' <= y - lost' /\ x - lost' \in Int /\ y - lost' \in Int
      BY <1>0, <1>7, <2>1, <3>1
    <3>3. s + (y - lost') * Interval <= lastTat'
      BY <1>5, <3>2 DEF Debt
    <3>4. (x - lost') * Interval <= (y - lost') * Interval
          /\ (x - lost') * Interval \in Int /\ (y - lost') * Interval \in Int
      BY <2>0, <3>2, Grows
    <3>5. lastTat' <= now + most
      BY <1>3
    <3> DEFINE a == (x - lost') * Interval
               b == (y - lost') * Interval
    <3>6. a \in Int /\ b \in Int /\ a <= b /\ s + b <= lastTat'
      BY <3>3, <3>4
    <3> HIDE DEF a, b, most
    <3>7. \A i, j, k, l, o, z \in Int : i <= j /\ k + j <= l /\ l <= o + z => k + i <= o + z
      OBVIOUS
    <3>8. s + a <= now + most
      BY <1>0, <2>0, <3>5, <3>6, <3>7
    <3>9. s + a <= e + most
      BY <1>0, <2>0, <2>2, <3>6, <3>8
    <3> QED BY <3>9 DEF a, most
  <2>3. CASE ~(s <= now /\ now <= e)
    <3>1. x = Within(admitted, s, e)
      BY <1>0, <2>3, WithinAppend
    <3>2. x > lost /\ x - lost' <= x - lost /\ x - lost' \in Int /\ x - lost \in Int
      BY <1>0, <1>7, <2>1
    <3>3. s + (x - lost) * Interval <= e + most
      BY <3>1, <3>2 DEF QuotaInv
    <3>4. (x - lost') * Interval <= (x - lost) * Interval
          /\ (x - lost') * Interval \in Int /\ (x - lost) * Interval \in Int
      BY <2>0, <3>2, Grows
    <3> DEFINE a == (x - lost') * Interval
               b == (x - lost) * Interval
    <3>5. a \in Int /\ b \in Int /\ a <= b /\ s + b <= e + most
      BY <3>3, <3>4
    <3> HIDE DEF a, b, most
    <3>6. s + a <= e + most
      BY <2>0, <3>5
    <3> QED BY <3>6 DEF a, most
  <2> QED BY <2>2, <2>3
<1> QED BY <1>5, <1>6, <1>7 DEF QuotaInv

\* The other steps leave the admissions alone, and add no request that decides.
LEMMA QuotaRest ==
    ASSUME LimiterInv, QuotaInv, UNCHANGED <<admitted, lost, lastTat>>,
           \A c \in Clients : r'[c].st = "decide" => r'[c] = r[c]
    PROVE  QuotaInv'
  BY DEF QuotaInv

\* Over any run of admissions, rejections, expiries and races, what is admitted from
\* one moment to another is a burst of Capacity, what the time between them refills,
\* and one request for each admission that a race has overwritten; provided that no
\* request takes longer to be decided than the slack of the time to live, which is a
\* second or more if the refill time is a whole number of them (redis_service.rs).
THEOREM QuotaHolds == ASSUME Punctual PROVE Spec => []QuotaRespected
<1>1. LimiterInv /\ QuotaInv /\ [Next]_vars => QuotaInv'
  <2> SUFFICES ASSUME LimiterInv, QuotaInv, [Next]_vars PROVE QuotaInv'
    OBVIOUS
  <2>1. CASE UNCHANGED vars \/ Clock \/ Expire
    BY <2>1, QuotaRest DEF vars, history, Clock, Expire
  <2>2. ASSUME NEW c \in Clients, Arrive(c) \/ Reject(c) PROVE QuotaInv'
    <3>1. UNCHANGED <<admitted, lost, lastTat>>
      BY <2>2 DEF Arrive, Reject, history
    <3>2. \E x : r' = [r EXCEPT ![c] = x] /\ x.st # "decide"
      <4>1. CASE Arrive(c)
        <5> WITNESS [st |-> "get", now |-> clock]
        <5> QED BY <4>1 DEF Arrive
      <4>2. CASE Reject(c)
        <5> WITNESS [st |-> "rejected", now |-> r[c].now, tat |-> r[c].tat,
                     retry |-> RetryAfter(r[c].tat, r[c].now)]
        <5> QED BY <4>2 DEF Reject
      <4> QED BY <2>2, <4>1, <4>2
    <3>3. \A d \in Clients : r'[d].st = "decide" => r'[d] = r[d]
      BY <3>2 DEF LimiterInv, LimiterTypes
    <3> QED BY <3>1, <3>3, QuotaRest
  <2>3. ASSUME NEW c \in Clients, Get(c) PROVE QuotaInv'
    BY <2>3, QuotaGet
  <2>4. ASSUME NEW c \in Clients, Admit(c) PROVE QuotaInv'
    BY <2>4, QuotaAdmit
  <2> QED BY <2>1, <2>2, <2>3, <2>4 DEF Next
<1>2. LimiterInv /\ QuotaInv => QuotaRespected
  <2> SUFFICES ASSUME LimiterInv, QuotaInv, NEW i \in DOMAIN admitted, NEW j \in DOMAIN admitted,
                      admitted[i] <= admitted[j]
               PROVE  (Cardinality(Admitted(admitted[i], admitted[j])) - Capacity - lost) * Interval
                        <= admitted[j] - admitted[i]
    BY DEF QuotaRespected
  <2> DEFINE s == admitted[i]
             e == admitted[j]
             x == Within(admitted, s, e)
  <2>1. s \in Nat /\ e \in Nat /\ lost \in Nat /\ admitted \in Seq(Nat)
    BY LenProperties, ElementOfSeq DEF LimiterInv, LimiterTypes
  <2>2. Cardinality(Admitted(s, e)) = x
    BY DEF Admitted, Within, WithinSet
  <2>3. x \in Nat /\ Interval \in Nat /\ Capacity \in Nat /\ s <= e
    BY <2>1, WithinAppend, IntervalFacts, LimiterConstants
  <2>4. x > lost => s + (x - lost) * Interval <= e + Interval * Capacity
    BY <2>1 DEF QuotaInv
  <2> HIDE DEF s, e, x
  <2>5. CASE x > lost
    <3>1. x - lost \in Int /\ (x - Capacity - lost) = (x - lost) - Capacity
      BY <2>1, <2>3
    <3>2. ((x - lost) - Capacity) * Interval = (x - lost) * Interval - Capacity * Interval
          /\ (x - lost) * Interval \in Int /\ Capacity * Interval \in Int
      BY <2>3, <3>1, Grows
    <3>3. Capacity * Interval = Interval * Capacity
      BY <2>3
    <3> DEFINE a == (x - lost) * Interval
               b == Capacity * Interval
    <3>4. a \in Int /\ b \in Int /\ s + a <= e + b /\ ((x - lost) - Capacity) * Interval = a - b
      BY <2>4, <2>5, <3>2, <3>3
    <3> HIDE DEF a, b
    <3>5. a - b <= e - s
      BY <2>1, <3>4
    <3>6. (x - Capacity - lost) * Interval = a - b
      BY <3>1, <3>4
    <3> QED BY <2>2, <3>5, <3>6 DEF s, e
  <2>6. CASE ~(x > lost)
    <3>1. x - Capacity - lost <= 0 /\ x - Capacity - lost \in Int
      BY <2>1, <2>3, <2>6
    <3>2. (x - Capacity - lost) * Interval <= 0 * Interval /\ (x - Capacity - lost) * Interval \in Int
      BY <2>3, <3>1, Grows
    <3>3. 0 * Interval = 0 /\ 0 <= e - s /\ e - s \in Int
      BY <2>1, <2>3
    <3>4. (x - Capacity - lost) * Interval <= e - s
      BY <3>2, <3>3
    <3> QED BY <2>2, <3>4 DEF s, e
  <2> QED BY <2>5, <2>6
<1> QED BY <1>1, <1>2, QuotaInit, LimiterInvariant, PTL DEF Spec
=============================================================================
