------------------------- MODULE ResponseCacheProofs -------------------------
(***************************************************************************)
(* The response cache serves a request only what its directive asks for    *)
(* and asks the provider only when it has to, for every number of requests *)
(* under way, every set of bucket counts, lifetimes and directives, and    *)
(* any timing.                                                             *)
(***************************************************************************)
EXTENDS ResponseCache, TLAPS

\* A stored response is dated no later than it was produced.
Dated(e) == e # None => e.at <= e.gen

\* One request p, with the buckets fr that have been fresh for it since it began,
\* at time t and with s in the backend: it began in the past; a response it is
\* about to store is dated by that; and while it looks, the buckets that could
\* serve it are among those it has still to see.
Sound(p, fr, s, t) ==
    /\ p.st \in {"check", "call"} => p.now <= t
    /\ p.st = "put" => p.entry.at <= p.entry.gen
    /\ p.st = "check" => /\ fr \subseteq p.todo /\ p.todo \subseteq 0..(p.num - 1)
                         /\ \A b \in fr : Fresh(s[b], p.now, p.d)
    /\ p.st # "check" => fr = {}

CacheInv ==
    /\ TypeOK
    /\ \A b \in Buckets : Dated(store[b])
    /\ \A c \in Clients : Sound(q[c], fresh[c], store, clock)

-----------------------------------------------------------------------------
LEMMA InitCache == Init => CacheInv
<1> SUFFICES ASSUME Init PROVE CacheInv
  OBVIOUS
<1>1. Idle \in Request
  BY DEF Idle, Request, Ended
<1>2. TypeOK
  BY <1>1, CacheConstants DEF Init, TypeOK
<1> QED BY <1>2 DEF Init, CacheInv, Dated, Sound, Idle

\* The buckets of a request are buckets.
LEMMA BucketsOf ==
    ASSUME NEW n \in Counts
    PROVE  0..(n - 1) \in SUBSET Buckets
  BY DEF Buckets

\* The request of which a step is, and the state it leaves it in.
LEMMA Shapes ==
    ASSUME NEW p \in Request
    PROVE  /\ p.st = "check" => p \in [st : {"check"}, now : 0..MaxTime, d : Directives,
                  num : Counts, todo : SUBSET Buckets, stale : Buckets \cup {NoBucket},
                  empty : Buckets \cup {NoBucket}]
           /\ p.st = "call" => p \in [st : {"call"}, now : 0..MaxTime, d : Directives,
                                      bucket : Buckets]
           /\ p.st = "put" => p \in [st : {"put"}, entry : Entry, bucket : Buckets]
  BY DEF Request, Ended

\* A step of one request that leaves the backend alone.
LEMMA OneRequest ==
    ASSUME CacheInv, NEW c \in Clients, NEW p \in Request, NEW fr \in SUBSET Buckets,
           q' = [q EXCEPT ![c] = p], fresh' = [fresh EXCEPT ![c] = fr],
           Sound(p, fr, store, clock), UNCHANGED <<backend, clock, store>>
    PROVE  CacheInv'
<1>1. TypeOK'
  BY DEF CacheInv, TypeOK
<1>2. \A b \in Buckets : Dated(store'[b])
  BY DEF CacheInv
<1>3. ASSUME NEW d \in Clients PROVE Sound(q'[d], fresh'[d], store', clock')
  <2>1. CASE d = c
    BY <2>1 DEF CacheInv, TypeOK
  <2>2. CASE d # c
    <3>1. q'[d] = q[d] /\ fresh'[d] = fresh[d]
      BY <2>2 DEF CacheInv, TypeOK
    <3> QED BY <3>1 DEF CacheInv
  <2> QED BY <2>1, <2>2
<1> QED BY <1>1, <1>2, <1>3 DEF CacheInv

\* A step that changes the backend: what is no longer fresh is forgotten.
LEMMA OneBucket ==
    ASSUME CacheInv, NEW s \in [Buckets -> Entry \cup {None}], \A b \in Buckets : Dated(s[b]),
           store' = s, fresh' = StillFresh(s), UNCHANGED <<backend, clock>>,
           q' \in [Clients -> Request],
           \A c \in Clients : \/ q'[c] = q[c]
                              \/ q[c].st # "check" /\ q'[c] = [st |-> "done"]
    PROVE  CacheInv'
<1>1. \A c \in Clients : /\ Sound(q[c], fresh[c], store, clock)
                         /\ fresh'[c] = {b \in fresh[c] : Fresh(s[b], q[c].now, q[c].d)}
  BY DEF CacheInv, StillFresh
<1>2. fresh' \in [Clients -> SUBSET Buckets]
  BY DEF CacheInv, TypeOK, StillFresh
<1>3. TypeOK'
  BY <1>2 DEF CacheInv, TypeOK
<1>4. ASSUME NEW c \in Clients PROVE Sound(q'[c], fresh'[c], store', clock')
  <2>1. CASE q'[c] = q[c]
    BY <1>1, <2>1 DEF Sound
  <2>2. CASE q[c].st # "check" /\ q'[c] = [st |-> "done"]
    BY <1>1, <2>2 DEF Sound
  <2> QED BY <2>1, <2>2
<1> QED BY <1>3, <1>4 DEF CacheInv

-----------------------------------------------------------------------------
LEMMA TickStep == ASSUME CacheInv, Tick PROVE CacheInv'
<1>1. clock \in Int /\ clock' = clock + 1 /\ clock' \in 0..MaxTime
  BY CacheConstants DEF CacheInv, TypeOK, Tick
<1>2. UNCHANGED <<backend, store, q, fresh>>
  BY DEF Tick
<1>3. ASSUME NEW c \in Clients PROVE Sound(q[c], fresh[c], store, clock')
  <2>1. Sound(q[c], fresh[c], store, clock) /\ q[c] \in Request
    BY DEF CacheInv, TypeOK
  <2>2. q[c].st \in {"check", "call"} => q[c].now \in Int
    BY <2>1, Shapes
  <2> QED BY <1>1, <2>1, <2>2 DEF Sound
<1> QED BY <1>1, <1>2, <1>3 DEF CacheInv, TypeOK

LEMMA EvictStep == ASSUME CacheInv, NEW b \in Buckets, Evict(b) PROVE CacheInv'
<1>1. /\ store' \in [Buckets -> Entry \cup {None}]
      /\ \A d \in Buckets : Dated(store'[d])
  BY DEF CacheInv, TypeOK, Evict, Dated
<1>2. q' = q /\ q' \in [Clients -> Request]
  BY DEF CacheInv, TypeOK, Evict
<1> QED BY <1>1, <1>2, OneBucket DEF Evict

LEMMA StartStep ==
    ASSUME CacheInv, NEW c \in Clients, NEW n \in Counts, NEW d \in Directives,
           Start(c, n, d)
    PROVE  CacheInv'
<1> DEFINE p == [st |-> "check", now |-> clock, d |-> d, num |-> n,
                 todo |-> 0..(n - 1), stale |-> NoBucket, empty |-> NoBucket]
           fr == {b \in 0..(n - 1) : Fresh(store[b], clock, d)}
<1>1. p \in Request /\ fr \in SUBSET Buckets
  BY BucketsOf DEF CacheInv, TypeOK, Request
<1>2. Sound(p, fr, store, clock)
  BY CacheConstants DEF CacheInv, TypeOK, Sound
<1>3. q' = [q EXCEPT ![c] = p] /\ fresh' = [fresh EXCEPT ![c] = fr]
      /\ UNCHANGED <<backend, clock, store>>
  BY DEF Start
<1> HIDE DEF p, fr
<1> QED BY <1>1, <1>2, <1>3, OneRequest

\* A step by which the request of c ends, or is turned away
LEMMA EndingStep ==
    ASSUME CacheInv, NEW c \in Clients, NEW e \in Ended,
           q' = [q EXCEPT ![c] = [st |-> e]],
           fresh' = [fresh EXCEPT ![c] = {}], UNCHANGED <<backend, clock, store>>
    PROVE  CacheInv'
<1>1. [st |-> e] \in Request /\ Sound([st |-> e], {}, store, clock)
  BY DEF Request, Ended, Sound
<1> QED BY <1>1, OneRequest

LEMMA QuietStep ==
    ASSUME CacheInv, NEW c \in Clients,
           Bypass(c) \/ DecidePanics(c) \/ RespondUnstored(c) \/ PutFails(c)
    PROVE  CacheInv'
<1>1. /\ Sound(q[c], fresh[c], store, clock) /\ q[c] \in Request
      /\ fresh \in [Clients -> SUBSET Buckets]
  BY DEF CacheInv, TypeOK
<1>2. fresh[c] = {} => fresh = [fresh EXCEPT ![c] = {}]
  BY <1>1
<1>3. CASE Bypass(c)
  BY <1>1, <1>2, <1>3, EndingStep DEF Bypass, Sound, Ended
<1>4. CASE DecidePanics(c)
  <2>1. q[c].num - 1 < 0 /\ q[c].todo \subseteq 0..(q[c].num - 1) /\ fresh[c] \subseteq q[c].todo
    BY <1>1, <1>4 DEF DecidePanics, Sound
  <2>2. fresh[c] = {}
    BY <1>4, <2>1 DEF DecidePanics
  <2> QED BY <1>2, <1>4, <2>2, EndingStep DEF DecidePanics, Ended
<1>5. CASE RespondUnstored(c)
  BY <1>5, EndingStep DEF RespondUnstored, Forget, Ended
<1>6. CASE PutFails(c)
  BY <1>1, <1>2, <1>6, EndingStep DEF PutFails, Sound, Ended
<1> QED BY <1>3, <1>4, <1>5, <1>6

\* The answer of bucket b is taken note of: it leaves the buckets to see.
LEMMA SeenStep ==
    ASSUME CacheInv, NEW c \in Clients, NEW b, q[c].st = "check",
           NEW st \in Buckets \cup {NoBucket}, NEW em \in Buckets \cup {NoBucket},
           q' = [q EXCEPT ![c] = [q[c] EXCEPT !.todo = @ \ {b}, !.stale = st, !.empty = em]],
           fresh' = [fresh EXCEPT ![c] = @ \ {b}], UNCHANGED <<backend, clock, store>>
    PROVE  CacheInv'
<1> DEFINE p == [q[c] EXCEPT !.todo = @ \ {b}, !.stale = st, !.empty = em]
           fr == fresh[c] \ {b}
<1>1. /\ Sound(q[c], fresh[c], store, clock) /\ fresh[c] \in SUBSET Buckets
      /\ q[c] \in [st : {"check"}, now : 0..MaxTime, d : Directives,
                  num : Counts, todo : SUBSET Buckets, stale : Buckets \cup {NoBucket},
                  empty : Buckets \cup {NoBucket}]
  BY Shapes DEF CacheInv, TypeOK
<1>2. p \in Request /\ fr \in SUBSET Buckets
  BY <1>1 DEF Request
<1>3. /\ p.st = q[c].st /\ p.now = q[c].now /\ p.num = q[c].num /\ p.d = q[c].d
      /\ p.todo = q[c].todo \ {b}
  BY <1>1
<1>4. Sound(p, fr, store, clock)
  BY <1>1, <1>3 DEF Sound
<1>5. q' = [q EXCEPT ![c] = p] /\ fresh' = [fresh EXCEPT ![c] = fr]
  BY DEF CacheInv, TypeOK
<1> HIDE DEF p, fr
<1> QED BY <1>2, <1>4, <1>5, OneRequest

LEMMA CheckStep ==
    ASSUME CacheInv, NEW c \in Clients, NEW b \in Buckets,
           CheckFresh(c, b) \/ CheckStale(c, b) \/ CheckMiss(c, b) \/ CheckError(c, b)
    PROVE  CacheInv'
<1>1. /\ Sound(q[c], fresh[c], store, clock) /\ fresh[c] \in SUBSET Buckets
      /\ fresh \in [Clients -> SUBSET Buckets] /\ store[b] \in Entry \cup {None}
      /\ Dated(store[b]) /\ q \in [Clients -> Request]
      /\ q[c] \in [st : {"check"}, now : 0..MaxTime, d : Directives,
                  num : Counts, todo : SUBSET Buckets, stale : Buckets \cup {NoBucket},
                  empty : Buckets \cup {NoBucket}]
  BY Shapes DEF CacheInv, TypeOK, Checking, CheckFresh, CheckStale, CheckMiss, CheckError
<1>2. CASE CheckFresh(c, b)
  BY <1>2, EndingStep DEF CheckFresh, Forget, Ended
<1>3. CASE CheckStale(c, b)
  <2>1. b \notin fresh[c]
    BY <1>1, <1>3 DEF CheckStale, Sound
  <2>2. fresh' = [fresh EXCEPT ![c] = @ \ {b}] /\ UNCHANGED <<backend, clock, store>>
    BY <1>1, <1>3, <2>1 DEF CheckStale
  <2>3. q' = [q EXCEPT ![c] = [q[c] EXCEPT !.todo = @ \ {b},
                !.stale = IF q[c].stale = NoBucket THEN b ELSE q[c].stale,
                !.empty = q[c].empty]]
    BY <1>1, <1>3 DEF CheckStale
  <2> QED BY <1>1, <2>2, <2>3, SeenStep
<1>4. CASE CheckMiss(c, b)
  <2>1. q' = [q EXCEPT ![c] = [q[c] EXCEPT !.todo = @ \ {b}, !.stale = q[c].stale,
                !.empty = IF q[c].empty = NoBucket THEN b ELSE q[c].empty]]
    BY <1>1, <1>4 DEF CheckMiss
  <2> QED BY <1>1, <1>4, <2>1, SeenStep DEF CheckMiss
<1>5. CASE CheckError(c, b)
  <2>1. q' = [q EXCEPT ![c] = [q[c] EXCEPT !.todo = @ \ {b}, !.stale = q[c].stale,
                                           !.empty = q[c].empty]]
    BY <1>1, <1>5 DEF CheckError
  <2> QED BY <1>1, <1>5, <2>1, SeenStep DEF CheckError
<1> QED BY <1>2, <1>3, <1>4, <1>5

LEMMA CallStep ==
    ASSUME CacheInv, NEW c \in Clients, Decide(c)
    PROVE  CacheInv'
<1>1. /\ Sound(q[c], fresh[c], store, clock) /\ fresh \in [Clients -> SUBSET Buckets]
      /\ q[c] \in [st : {"check"}, now : 0..MaxTime, d : Directives,
                  num : Counts, todo : SUBSET Buckets, stale : Buckets \cup {NoBucket},
                  empty : Buckets \cup {NoBucket}]
  BY Shapes DEF CacheInv, TypeOK, Decide
<1>2. PICK b \in Target(c) : q' = [q EXCEPT ![c] = Calling(c, b)]
  BY DEF Decide
<1>3. b \in Buckets
  BY <1>1, <1>2, BucketsOf DEF Target
<1>4. fresh[c] = {} /\ fresh = [fresh EXCEPT ![c] = {}]
  BY <1>1 DEF Decide, Sound
<1>5. Calling(c, b) \in Request /\ Sound(Calling(c, b), {}, store, clock)
  BY <1>1, <1>3 DEF Calling, Request, Sound
<1>6. UNCHANGED <<backend, clock, store, fresh>>
  BY DEF Decide
<1> QED BY <1>2, <1>4, <1>5, <1>6, OneRequest

\* The lifetime of a stored response is a natural number.
LEMMA LifetimeNat ==
    ASSUME NEW d \in Directives, NEW life, NEW strict, PolicyOf(d, life, strict)
    PROVE  Lifetime(d, life) \in Nat
<1>1. d \in Directive
  BY CacheConstants
<1>2. \A l \in Lives : l \in Nat
  BY CacheConstants
<1>3. d.maxAge \in Nat \cup {NoAge}
  BY <1>1 DEF Directive
<1>4. life \in Nat
  BY <1>2, <1>3 DEF PolicyOf
<1> QED BY <1>4 DEF Lifetime

LEMMA RespondStep ==
    ASSUME CacheInv, NEW c \in Clients, NEW life, NEW strict \in BOOLEAN,
           Respond(c, life, strict)
    PROVE  CacheInv'
<1> DEFINE p == [st |-> "put", bucket |-> q[c].bucket,
                 entry |-> [gen |-> clock, at |-> q[c].now,
                            life |-> Lifetime(q[c].d, life), strict |-> strict]]
<1>1. /\ Sound(q[c], fresh[c], store, clock) /\ clock \in 0..MaxTime
      /\ q[c] \in [st : {"call"}, now : 0..MaxTime, d : Directives, bucket : Buckets]
  BY Shapes DEF CacheInv, TypeOK, Respond
<1>2. p \in Request
  <2>1. Lifetime(q[c].d, life) \in Nat
    BY <1>1, LifetimeNat DEF Respond
  <2> QED BY <1>1, <2>1 DEF Request, Entry
<1>3. Sound(p, {}, store, clock)
  BY <1>1 DEF Sound
<1>4. q' = [q EXCEPT ![c] = p] /\ fresh' = [fresh EXCEPT ![c] = {}]
      /\ UNCHANGED <<backend, clock, store>>
  BY DEF Respond, Forget
<1> HIDE DEF p
<1> QED BY <1>2, <1>3, <1>4, OneRequest

LEMMA PutStep == ASSUME CacheInv, NEW c \in Clients, Put(c) PROVE CacheInv'
<1>1. /\ Sound(q[c], fresh[c], store, clock) /\ q \in [Clients -> Request]
      /\ q[c] \in [st : {"put"}, entry : Entry, bucket : Buckets]
      /\ store \in [Buckets -> Entry \cup {None}] /\ \A b \in Buckets : Dated(store[b])
  BY Shapes DEF CacheInv, TypeOK, Put
<1>2. /\ store' \in [Buckets -> Entry \cup {None}]
      /\ \A b \in Buckets : Dated(store'[b])
  BY <1>1 DEF Put, Sound, Dated
<1>3. /\ q' \in [Clients -> Request]
      /\ \A d \in Clients : \/ q'[d] = q[d]
                            \/ q[d].st # "check" /\ q'[d] = [st |-> "done"]
  BY <1>1 DEF Put, Request, Ended
<1> QED BY <1>2, <1>3, OneBucket DEF Put

\* The inductive invariant of the cache
THEOREM CacheInvariant == Spec => []CacheInv
<1>1. CacheInv /\ [Next]_vars => CacheInv'
  <2> SUFFICES ASSUME CacheInv, [Next]_vars PROVE CacheInv'
    OBVIOUS
  <2>1. CASE UNCHANGED vars
    BY <2>1 DEF vars, CacheInv, TypeOK
  <2>2. CASE Next
    BY <2>2, TickStep, EvictStep, StartStep, QuietStep, CheckStep, CallStep, RespondStep, PutStep
       DEF Next
  <2> QED BY <2>1, <2>2
<1> QED BY InitCache, <1>1, PTL DEF Spec

\* What the policy finds fresh is as its directive asks by its age since the
\* provider produced it, which the policy never takes for less than it is.
LEMMA FreshAsAsked ==
    ASSUME NEW e \in Entry, NEW now \in Int, NEW d \in Directive,
           e.at <= e.gen, Fresh(e, now, d)
    PROVE  AsAsked(e, now, d)
<1>1. e.gen \in Int /\ e.at \in Int /\ e.life \in Nat /\ e.strict \in BOOLEAN
  BY DEF Entry
<1>2. d.maxAge \in Int /\ d.minFresh \in Nat /\ d.maxStale \in Nat
  BY DEF Directive, NoAge
<1>3. Age(e, now) \in Int /\ now - e.gen <= Age(e, now)
  BY <1>1 DEF Age
<1>4. PICK a \in Int : a = Age(e, now) /\ now - e.gen <= a
  BY <1>3
<1>5. /\ d.maxAge # NoAge => a <= d.maxAge
      /\ d.minFresh > 0 => a + d.minFresh <= e.life
  BY <1>4 DEF Fresh
<1>6. a < e.life + (IF e.strict THEN 0 ELSE d.maxStale)
  BY <1>4 DEF Fresh
<1>7. CASE e.strict
  BY <1>1, <1>2, <1>4, <1>5, <1>6, <1>7 DEF AsAsked
<1>8. CASE ~e.strict
  BY <1>1, <1>2, <1>4, <1>5, <1>6, <1>8 DEF AsAsked
<1> QED BY <1>7, <1>8

\* No request, however it overlaps with others that store and evict, is served a
\* response older than its max-age, closer to its end than its min-fresh, or past
\* its lifetime by max-stale or more.
THEOREM CacheServesAsAsked == Spec => HitsAsAsked
<1>1. CacheInv /\ [Next]_vars =>
        [\A c \in Clients, b \in Buckets :
            CheckFresh(c, b) => AsAsked(store[b], q[c].now, q[c].d)]_vars
  <2> SUFFICES ASSUME CacheInv, NEW c \in Clients, NEW b \in Buckets, CheckFresh(c, b)
               PROVE  AsAsked(store[b], q[c].now, q[c].d)
    OBVIOUS
  <2>1. /\ store[b] \in Entry \cup {None} /\ Dated(store[b]) /\ q[c] \in Request
        /\ q[c].st = "check" /\ Fresh(store[b], q[c].now, q[c].d)
    BY DEF CacheInv, TypeOK, CheckFresh, Checking
  <2>2. q[c].now \in Int /\ q[c].d \in Directive
    BY <2>1, Shapes, CacheConstants
  <2>3. store[b] \in Entry /\ store[b].at <= store[b].gen
    BY <2>1 DEF Fresh, Dated
  <2> QED BY <2>1, <2>2, <2>3, FreshAsAsked
<1> QED BY CacheInvariant, <1>1, PTL DEF Spec, HitsAsAsked

\* A request goes to the provider only when no bucket has held a response that
\* was fresh for it ever since it began.
THEOREM CacheAsksOnlyIfItMust == Spec => []FreshBucketServes
<1>1. CacheInv => FreshBucketServes
  BY DEF CacheInv, Sound, FreshBucketServes
<1> QED BY CacheInvariant, <1>1, PTL
=============================================================================
