---------------------------- MODULE RedisRateLimit ----------------------------
(***************************************************************************)
(* The Redis rate limiter for one API key: the generic cell rate algorithm *)
(* over one Redis value, the theoretical arrival time (TAT).  Every        *)
(* request reads the value (GET) and, if it is admitted, writes it back    *)
(* (SETEX) in a second round trip.  Several requests for the key may be    *)
(* between the two, in this gateway or in another one.                     *)
(*                                                                         *)
(* Times are milliseconds; a second is MsPerSec of them.                   *)
(***************************************************************************)
EXTENDS Integers, Sequences, FiniteSets

CONSTANTS
    Clients,    \* requests for the key that may be under way at once
    Capacity,   \* gcra.capacity
    Refill,     \* gcra.refill_frequency, in ms
    MsPerSec,   \* 1000 in the code
    MaxDelay,   \* bound on the time from a request's start to its decision
    MaxTime,    \* bound on the clock
    MaxAdmits   \* bound on the admissions modelled

ASSUME LimiterConstants ==
    /\ Capacity \in Nat \ {0} /\ Refill \in Nat /\ MsPerSec \in Nat \ {0}
    /\ MaxDelay \in Nat /\ MaxTime \in Nat /\ MaxAdmits \in Nat

VARIABLES
    clock,      \* the time
    tat,        \* the value stored under the key, NoTat when there is none
    expireAt,   \* when Redis drops the value
    r,          \* the locals of each request
    admitted,   \* history: the start time of every admitted request, in order
    lastTat,    \* history: the last TAT written
    lost        \* history: admissions that a later SETEX has overwritten

history == <<admitted, lastTat, lost>>
vars == <<clock, tat, expireAt, r, history>>

NoTat == -1

\* Division as the code's i64 arithmetic does it: towards zero.
DivTrunc(a, b) == IF a >= 0 THEN a \div b ELSE -((-a) \div b)

\* interval_per_token_ms: zero when Capacity exceeds Refill, since checked_div
\* by a NonZeroU32 is never None and its default is never used
Interval == Refill \div Capacity

\* Mutation of Ttl: the extra second is left out.
TtlTruncated == (Refill \div MsPerSec) * MsPerSec

\* refill_frequency.as_secs() + 1, in ms
Ttl == (Refill \div MsPerSec + 1) * MsPerSec

\* Mutation of NewTat: the time since the last arrival is credited in full.
NewTatCredit(t, now) == t + Interval

NewTat(t, now) == (IF t < now THEN now ELSE t) + Interval

EarliestAllowed(t, now) == NewTat(t, now) - Interval * Capacity

\* tokens_used, of which u32::try_from(..).expect("value too large") is taken
TokensUsed(t, now) == DivTrunc(t - now + Interval - 1, Interval) + 1

\* The headers of an admitted request cannot be computed: the division is by
\* zero, or the value is negative.  The TAT has been written by then.
HeadersPanic(t, now) == Interval = 0 \/ TokensUsed(t, now) < 0

\* Mutation of RetryAfter: rounded down to whole seconds.
RetryAfterDown(t, now) == (EarliestAllowed(t, now) - now) \div MsPerSec

\* the retry-after header of a rejected request, in seconds
RetryAfter(t, now) == (EarliestAllowed(t, now) - now) \div MsPerSec + 1

Idle == [st |-> "idle"]

TypeOK ==
    /\ clock \in 0..MaxTime
    /\ tat \in Nat \cup {NoTat} /\ expireAt \in Nat
    /\ \A c \in Clients : r[c].st \in {"idle", "get", "decide", "served", "rejected", "panicked"}
    /\ admitted \in Seq(0..MaxTime)
    /\ lastTat \in Nat /\ lost \in Nat
    /\ tat # NoTat => tat = lastTat

Init ==
    /\ clock = 0
    /\ tat = NoTat /\ expireAt = 0
    /\ r = [c \in Clients |-> Idle]
    /\ admitted = <<>> /\ lastTat = 0 /\ lost = 0

\* Time passes, but no request takes longer than MaxDelay to be decided.
Clock ==
    /\ clock < MaxTime
    /\ \A c \in Clients : r[c].st \in {"get", "decide"} => clock < r[c].now + MaxDelay
    /\ clock' = clock + 1
    /\ UNCHANGED <<tat, expireAt, r, history>>

\* Redis: the time to live of the value is over.
Expire ==
    /\ tat # NoTat /\ clock >= expireAt
    /\ tat' = NoTat
    /\ UNCHANGED <<clock, expireAt, r, history>>

\* The request's start time is taken when it enters the gateway.
Arrive(c) ==
    /\ r[c].st \in {"idle", "served", "rejected", "panicked"}
    /\ Len(admitted) < MaxAdmits
    /\ r' = [r EXCEPT ![c] = [st |-> "get", now |-> clock]]
    /\ UNCHANGED <<clock, tat, expireAt, history>>

\* conn.get(&key); an expired value is not returned even before it is dropped.
\* seen is history: the admissions this request knows of.
Get(c) ==
    /\ r[c].st = "get"
    /\ LET t == IF tat = NoTat \/ clock >= expireAt THEN r[c].now ELSE tat IN
         r' = [r EXCEPT ![c] = [st |-> "decide", now |-> r[c].now, tat |-> t,
                              seen |-> Len(admitted)]]
    /\ UNCHANGED <<clock, tat, expireAt, history>>

\* The request is admitted: conn.set_ex(..), then the headers, then the call.
Admit(c) ==
    /\ r[c].st = "decide"
    /\ EarliestAllowed(r[c].tat, r[c].now) <= r[c].now
    /\ tat' = NewTat(r[c].tat, r[c].now)
    /\ lastTat' = tat'
    /\ expireAt' = clock + Ttl
    /\ admitted' = Append(admitted, r[c].now)
    /\ lost' = lost + Len(admitted) - r[c].seen
    /\ r' = [r EXCEPT ![c] =
               [st |-> IF HeadersPanic(r[c].tat, r[c].now) THEN "panicked" ELSE "served"]]
    /\ UNCHANGED clock

Reject(c) ==
    /\ r[c].st = "decide"
    /\ EarliestAllowed(r[c].tat, r[c].now) > r[c].now
    /\ r' = [r EXCEPT ![c] = [st |-> "rejected", now |-> r[c].now, tat |-> r[c].tat,
                              retry |-> RetryAfter(r[c].tat, r[c].now)]]
    /\ UNCHANGED <<clock, tat, expireAt, history>>

Next ==
    \/ Clock \/ Expire
    \/ \E c \in Clients : Arrive(c) \/ Get(c) \/ Admit(c) \/ Reject(c)

Spec == Init /\ [][Next]_vars

-----------------------------------------------------------------------------
\* Properties.

Admitted(s, e) == {k \in DOMAIN admitted : s <= admitted[k] /\ admitted[k] <= e}

\* "The rate limit quota capacity": of the requests admitted between any two
\* moments at most Capacity are burst, and each further one is paid for by an
\* interval of elapsed time, over any sequence of admissions, rejections and
\* expiries of the key.  GET and SETEX are not one transaction; what a race
\* between them gives away is one admission for every one overwritten by a
\* request that had not seen it, and never more.
QuotaRespected ==
    \A i, j \in DOMAIN admitted :
        LET s == admitted[i]
            e == admitted[j]
        IN  s <= e => (Cardinality(Admitted(s, e)) - Capacity - lost) * Interval <= e - s

\* The value is dropped by Redis only when it no longer limits anything: a
\* client never gets a fresh quota by letting the key expire.
ExpiryForgetsNothing ==
    tat = NoTat \/ clock >= expireAt => lastTat <= clock

\* A rejected client that waits for the Retry-After it was given would find
\* its request admitted, if no other request was admitted meanwhile.
RetryAfterSuffices ==
    \A c \in Clients :
        r[c].st = "rejected" =>
            LET later == r[c].now + r[c].retry * MsPerSec
            IN  EarliestAllowed(r[c].tat, later) <= later

\* expect("value too large"): an admitted request is served, whatever the time
\* since the key was last used.
AdmittedIsServed ==
    \A c \in Clients : r[c].st # "panicked"
=============================================================================
