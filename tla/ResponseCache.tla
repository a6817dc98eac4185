---------------------------- MODULE ResponseCache ----------------------------
(***************************************************************************)
(* The response cache in front of a router, for one cache key: requests    *)
(* that hash alike share a row of buckets, each holding at most one stored *)
(* response with its cache policy.                                         *)
(*                                                                         *)
(* A request looks into its buckets in parallel and is served by the first *)
(* fresh answer.  Otherwise it asks the provider and stores the response.  *)
(* Between its look and its store other requests look and store too;       *)
(* nothing is locked.  The policy's clock is the time the REQUEST began,   *)
(* for the look as well as for the store, however long the provider took.  *)
(***************************************************************************)
EXTENDS Integers, FiniteSets

CONSTANTS
    Clients,     \* requests that may be under way at once
    Backends,    \* CacheClient variants: a subset of {"redis", "moka"}
    Counts,      \* bucket counts, from the configuration or a header
    Lives,       \* freshness lifetimes the provider may give a response
    Directives,  \* Cache-Control directives, of a request or the configuration
    MaxTime      \* bound on the clock

\* No max-age
NoAge == -1

\* What a directive says to the cache.  minFresh and maxStale are 0 where it does
\* not name them; max-stale without a value is one above every age.  strict is
\* must-revalidate.  With no-store RespondUnstored is the only answer.
Directive == [noCache : BOOLEAN, maxAge : Nat \cup {NoAge}, minFresh : Nat,
              maxStale : Nat, strict : BOOLEAN]

ASSUME CacheConstants ==
    /\ Directives \subseteq Directive
    /\ Backends \subseteq {"redis", "moka"} /\ Backends # {}
    /\ Counts \subseteq Nat /\ IsFiniteSet(Counts)
    /\ Lives \subseteq Nat /\ MaxTime \in Nat

VARIABLES
    backend,     \* which CacheClient is configured
    clock,       \* the time
    store,       \* what the backend holds under each bucket's key
    q,           \* the locals of each request
    fresh        \* history: see Start

vars == <<backend, clock, store, q, fresh>>

Buckets == UNION {0..(n - 1) : n \in Counts}

\* No entry in a bucket; no bucket remembered
None == [gen |-> -1, at |-> -1, life |-> -1, strict |-> FALSE]
NoBucket == -1

\* gen is when the provider produced the response (history: the policy does
\* not know it), at is the response_time of its CachePolicy, life its max_age
\* and strict whether it must be revalidated once it is stale.
Entry == [gen : 0..MaxTime, at : 0..MaxTime, life : Nat, strict : BOOLEAN]

Idle == [st |-> "idle"]
Ended == {"idle", "hit", "done", "failed", "panicked"}
Request ==
    [st : Ended]
    \cup [st : {"check"}, now : 0..MaxTime, d : Directives, num : Counts,
          todo : SUBSET Buckets, stale : Buckets \cup {NoBucket},
          empty : Buckets \cup {NoBucket}]
    \cup [st : {"call"}, now : 0..MaxTime, d : Directives, bucket : Buckets]
    \cup [st : {"put"}, entry : Entry, bucket : Buckets]

TypeOK ==
    /\ backend \in Backends
    /\ clock \in 0..MaxTime
    /\ store \in [Buckets -> Entry \cup {None}]
    /\ q \in [Clients -> Request]
    /\ fresh \in [Clients -> SUBSET Buckets]

Init ==
    /\ backend \in Backends
    /\ clock = 0
    /\ store = [b \in Buckets |-> None]
    /\ q = [c \in Clients |-> Idle]
    /\ fresh = [c \in Clients |-> {}]

Tick ==
    /\ clock < MaxTime
    /\ clock' = clock + 1
    /\ UNCHANGED <<backend, store, q, fresh>>

-----------------------------------------------------------------------------
\* http_cache_semantics: an entry dated after the request has age zero.
Age(e, now) == IF now < e.at THEN 0 ELSE now - e.at

\* before_request is Fresh.  make_request has put the configured directive on a
\* request without one, and that directive alone decides how old, how close to
\* its end and how long past it an entry may be.
Fresh(e, now, d) ==
    /\ e # None /\ ~d.noCache
    /\ d.maxAge # NoAge => Age(e, now) <= d.maxAge
    /\ d.minFresh > 0 => Age(e, now) + d.minFresh <= e.life
    /\ Age(e, now) < e.life + (IF e.strict THEN 0 ELSE d.maxStale)

\* The history fresh once the backend holds s instead of store
StillFresh(s) ==
    [c \in Clients |-> {b \in fresh[c] : Fresh(s[b], q[c].now, q[c].d)}]

Forget(c) == [fresh EXCEPT ![c] = {}]

\* The backend drops an entry: Moka at its size limit, Redis by its policy.
Evict(b) ==
    /\ store[b] # None
    /\ store' = [store EXCEPT ![b] = None]
    /\ fresh' = StillFresh(store')
    /\ UNCHANGED <<backend, clock, q>>

-----------------------------------------------------------------------------
\* make_request up to the checks, with n buckets.  fresh[c] is history: the
\* buckets that have held a fresh entry for c ever since it began.
Start(c, n, d) ==
    /\ q[c].st \in Ended
    /\ q' = [q EXCEPT ![c] =
               [st |-> "check", now |-> clock, d |-> d, num |-> n,
                todo |-> 0..(n - 1), stale |-> NoBucket, empty |-> NoBucket]]
    /\ fresh' = [fresh EXCEPT ![c] =
                   {b \in 0..(n - 1) : Fresh(store[b], clock, d)}]
    /\ UNCHANGED <<backend, clock, store>>

\* A request whose context does not enable caching, or asks for too many
\* buckets, leaves no trace here.
Bypass(c) ==
    /\ q[c].st \in Ended
    /\ q' = [q EXCEPT ![c] = [st |-> "done"]]
    /\ UNCHANGED <<backend, clock, store, fresh>>

Checking(c, b) == q[c].st = "check" /\ b \in q[c].todo

\* check_cache is Fresh: the other checks are dropped and the client served.
CheckFresh(c, b) ==
    /\ Checking(c, b) /\ Fresh(store[b], q[c].now, q[c].d)
    /\ q' = [q EXCEPT ![c] = [st |-> "hit"]]
    /\ fresh' = Forget(c)
    /\ UNCHANGED <<backend, clock, store>>

\* check_cache is Stale: the first such bucket is remembered.
CheckStale(c, b) ==
    /\ Checking(c, b)
    /\ store[b] # None /\ ~Fresh(store[b], q[c].now, q[c].d)
    /\ q' = [q EXCEPT ![c].todo = @ \ {b},
                      ![c].stale = IF @ = NoBucket THEN b ELSE @]
    /\ UNCHANGED <<backend, clock, store, fresh>>

\* check_cache is Miss: Moka has nothing under the key, or the request does
\* not match the Vary headers of what is stored.
CheckMiss(c, b) ==
    /\ Checking(c, b)
    /\ store[b] # None \/ backend = "moka"
    /\ q' = [q EXCEPT ![c].todo = @ \ {b},
                      ![c].empty = IF @ = NoBucket THEN b ELSE @]
    /\ fresh' = [fresh EXCEPT ![c] = @ \ {b}]
    /\ UNCHANGED <<backend, clock, store>>

\* check_cache is Err, which is only logged.  Any read of Redis may fail, and
\* RedisCacheManager::get fails for a key that is not there.
CheckError(c, b) ==
    /\ Checking(c, b) /\ backend = "redis"
    /\ q' = [q EXCEPT ![c].todo = @ \ {b}]
    /\ fresh' = [fresh EXCEPT ![c] = @ \ {b}]
    /\ UNCHANGED <<backend, clock, store>>

\* Where the response will be stored: a stale bucket is refreshed, else an
\* empty one is filled, else any one is overwritten.
Target(c) ==
    IF q[c].stale # NoBucket THEN {q[c].stale}
    ELSE IF q[c].empty # NoBucket THEN {q[c].empty}
    ELSE 0..(q[c].num - 1)

Calling(c, b) == [st |-> "call", now |-> q[c].now,
                   d |-> q[c].d, bucket |-> b]

\* Mutation of Decide: the first stale or empty bucket decides.
DecideEarly(c) ==
    /\ q[c].st = "check"
    /\ q[c].todo = {} \/ q[c].stale # NoBucket \/ q[c].empty # NoBucket
    /\ \E b \in Target(c) : q' = [q EXCEPT ![c] = Calling(c, b)]
    /\ UNCHANGED <<backend, clock, store, fresh>>

\* No bucket was fresh: the provider is asked.
Decide(c) ==
    /\ q[c].st = "check" /\ q[c].todo = {}
    /\ \E b \in Target(c) : q' = [q EXCEPT ![c] = Calling(c, b)]
    /\ UNCHANGED <<backend, clock, store, fresh>>

\* rand::random::<u8>() % buckets with zero buckets, which no check refuses
DecidePanics(c) ==
    /\ q[c].st = "check" /\ q[c].num = 0
    /\ q' = [q EXCEPT ![c] = [st |-> "panicked"]]
    /\ UNCHANGED <<backend, clock, store, fresh>>

\* The policy of a response stored by a request with directive d, which
\* CacheableResponse::new appends to the headers of the provider: the lifetime is
\* the first max-age, the provider's, and two that differ, like must-revalidate
\* of either, forbid to serve it stale; with no-cache it has no lifetime.
Lifetime(d, life) == IF d.noCache THEN 0 ELSE life

PolicyOf(d, life, strict) ==
    /\ life \in (Lives \cup {d.maxAge}) \ {NoAge}
    /\ d.strict \/ d.maxAge \notin {NoAge, life} => strict

\* The provider answers with a success that the policy lets us store.
Respond(c, life, strict) ==
    /\ q[c].st = "call" /\ PolicyOf(q[c].d, life, strict)
    /\ q' = [q EXCEPT ![c] =
               [st |-> "put", bucket |-> q[c].bucket,
                entry |-> [gen |-> clock, at |-> q[c].now,
                           life |-> Lifetime(q[c].d, life), strict |-> strict]]]
    /\ fresh' = Forget(c)
    /\ UNCHANGED <<backend, clock, store>>

\* An error, or a response that is not storable, is passed on as it is.
RespondUnstored(c) ==
    /\ q[c].st = "call"
    /\ q' = [q EXCEPT ![c] = [st |-> "done"]]
    /\ fresh' = Forget(c)
    /\ UNCHANGED <<backend, clock, store>>

\* Mutation of Put: the policy's clock is read when the response is stored.
PutDatedNow(c) ==
    /\ q[c].st = "put"
    /\ store' = [store EXCEPT ![q[c].bucket] = [q[c].entry EXCEPT !.at = clock]]
    /\ fresh' = StillFresh(store')
    /\ q' = [q EXCEPT ![c] = [st |-> "done"]]
    /\ UNCHANGED <<backend, clock>>

\* cache.put: the last writer wins.
Put(c) ==
    /\ q[c].st = "put"
    /\ store' = [store EXCEPT ![q[c].bucket] = q[c].entry]
    /\ fresh' = StillFresh(store')
    /\ q' = [q EXCEPT ![c] = [st |-> "done"]]
    /\ UNCHANGED <<backend, clock>>

\* The body cannot be collected or the put fails: the client gets an error.
PutFails(c) ==
    /\ q[c].st = "put"
    /\ q' = [q EXCEPT ![c] = [st |-> "failed"]]
    /\ UNCHANGED <<backend, clock, store, fresh>>

Next ==
    \/ Tick
    \/ \E b \in Buckets : Evict(b)
    \/ \E c \in Clients :
         \/ \E n \in Counts, d \in Directives : Start(c, n, d)
         \/ Bypass(c) \/ Decide(c) \/ DecidePanics(c)
         \/ RespondUnstored(c) \/ Put(c) \/ PutFails(c)
         \/ \E life \in Lives \cup {d.maxAge : d \in Directives}, strict \in BOOLEAN :
               Respond(c, life, strict)
         \/ \E b \in Buckets : \/ CheckFresh(c, b) \/ CheckStale(c, b)
                               \/ CheckMiss(c, b) \/ CheckError(c, b)

Spec == Init /\ [][Next]_vars

-----------------------------------------------------------------------------
\* Properties.

\* What a directive promises of an entry for a request that began at now, by the
\* entry's age since the provider PRODUCED it: it is no older than max-age, has
\* min-fresh of its lifetime left, and is past that lifetime by less than
\* max-stale, or not at all if it must be revalidated.
AsAsked(e, now, d) ==
    /\ d.maxAge # NoAge => now - e.gen <= d.maxAge
    /\ d.minFresh > 0 => now - e.gen + d.minFresh <= e.life
    /\ now - e.gen >= e.life => ~e.strict /\ now - e.gen - e.life < d.maxStale

\* A request is served only what its directive asks for, although the policy
\* counts from the start of the request that stored the entry, and the entry was
\* stored later, perhaps over a newer one, and may be read later still.
HitsAsAsked ==
    [][\A c \in Clients, b \in Buckets :
          CheckFresh(c, b) => AsAsked(store[b], q[c].now, q[c].d)]_vars

\* The provider is asked only if no bucket could have served the request: one
\* that held a fresh response for it all along, through the stores of others,
\* is found, whatever the order in which the buckets answer.
FreshBucketServes ==
    \A c \in Clients : q[c].st = "call" => fresh[c] = {}
=============================================================================
