---------------------------- MODULE ProviderPool ----------------------------
(***************************************************************************)
(* The provider pool of one router: the load balancer behind the router's  *)
(* tower::Buffer, the health monitor, the rate limit monitor and the       *)
(* requests that feed both.                                                *)
(*                                                                         *)
(* The two monitors run as tasks of their own and change the pool only     *)
(* through one bounded channel of Insert/Remove changes.  The balancer     *)
(* reads that channel in poll_ready, and poll_ready runs only while the    *)
(* Buffer worker holds a request.  What each monitor knows (unhealthy_keys,*)
(* rate_limited_providers, the restore timers) is private to it.           *)
(*                                                                         *)
(* A router with one endpoint type is modelled, so a key is a provider.    *)
(* Request and error counts are those of the current lap of the rolling    *)
(* counters (module RollingCounter has their detail); they are global, so  *)
(* other routers and direct proxies move them too.                         *)
(***************************************************************************)
EXTENDS Integers, Sequences, FiniteSets

CONSTANTS
    Providers,     \* the providers in the router's balance config
    Clients,       \* the requests that may be in the router at once
    ChanCap,       \* CHANNEL_CAPACITY of the change channel
    RateCap,       \* CHANNEL_CAPACITY of the rate limit event channel
    MinRequests,   \* GracePeriod::Requests
    ErrNum, ErrDen,\* error_threshold, as the fraction ErrNum / ErrDen
    RetryAfters,   \* values a Retry-After header may carry
    DefaultWait,   \* DEFAULT_WAIT_SECONDS
    BufferWait,    \* RATE_LIMIT_BUFFER_SECONDS
    MaxCount       \* bound on the counts of one lap

\* extract_retry_after found no usable header
NoRetryAfter == -1

\* no restore timer runs for the provider
NoTimer == -1

ASSUME PoolConstants ==
    /\ IsFiniteSet(Providers) /\ Providers # {}
    /\ ChanCap \in Nat \ {0} /\ RateCap \in Nat \ {0}
    /\ MinRequests \in Nat /\ ErrNum \in Nat /\ ErrDen \in Nat \ {0}
    /\ RetryAfters \subseteq Nat \cup {NoRetryAfter}
    /\ DefaultWait \in Nat /\ BufferWait \in Nat /\ MaxCount \in Nat \ {0}

VARIABLES
    reqs, errs,    \* request_count and remote_internal_error_count
    unhealthy,     \* unhealthy_keys of the health monitor
    hmTodo,        \* providers the current health round has yet to check
    hmSend,        \* the change the health monitor is sending, if any
    rlq,           \* rate limit events sent and not yet received
    limited,       \* rate_limited_providers of the rate limit monitor
    timer,         \* seconds left on each pending restore
    rlSend,        \* the change the rate limit monitor is sending, if any
    chan,          \* the change channel
    initial,       \* ConfigDiscovery's initial inserts not yet polled
    pool,          \* the services of the balancer
    bufq,          \* requests in the Buffer, the worker's own first
    worker,        \* "idle", "drain" (in poll_ready) or "pick"
    req            \* what each client's request is doing

health  == <<unhealthy, hmTodo, hmSend>>
limits  == <<limited, timer, rlSend>>
counts  == <<reqs, errs>>
balance == <<initial, pool, worker, bufq>>
vars    == <<counts, health, rlq, limits, chan, balance, req>>

Change  == [op : {"insert", "remove"}, key : Providers]
RlSend  == [op : {"insert", "remove"}, key : Providers, wait : Nat]
Event   == [key : Providers, retry : RetryAfters]
Request == [st : {"idle", "queued"}]
              \cup [st : {"sent", "await"}, to : Providers]
              \cup [st : {"limiting"}, to : Providers, retry : RetryAfters]

IdleReq == [st |-> "idle"]
AtMostOne(S) == \A a, b \in S : a = b

TypeOK ==
    /\ reqs \in [Providers -> 0..MaxCount]
    /\ errs \in [Providers -> 0..MaxCount]
    /\ unhealthy \subseteq Providers
    /\ hmTodo \subseteq Providers
    /\ hmSend \subseteq Change /\ AtMostOne(hmSend)
    /\ rlq \in Seq(Event) /\ Len(rlq) <= RateCap
    /\ limited \subseteq Providers
    /\ timer \in [Providers -> Nat \cup {NoTimer}]
    /\ rlSend \subseteq RlSend /\ AtMostOne(rlSend)
    /\ chan \in Seq(Change) /\ Len(chan) <= ChanCap
    /\ initial \subseteq Providers
    /\ pool \subseteq Providers
    /\ bufq \in Seq(Clients)
    /\ worker \in {"idle", "drain", "pick"}
    /\ req \in [Clients -> Request]

\* ProviderBalancer is built with every configured provider still in
\* ConfigDiscovery's initial map; both monitors start knowing nothing.
Init ==
    /\ reqs = [p \in Providers |-> 0]
    /\ errs = [p \in Providers |-> 0]
    /\ unhealthy = {} /\ hmTodo = {} /\ hmSend = {}
    /\ rlq = <<>>
    /\ limited = {} /\ rlSend = {}
    /\ timer = [p \in Providers |-> NoTimer]
    /\ chan = <<>>
    /\ initial = Providers /\ pool = {}
    /\ bufq = <<>> /\ worker = "idle"
    /\ req = [c \in Clients |-> IdleReq]

-----------------------------------------------------------------------------
\* The counters.

\* RollingCounter::total sums the current lap only, and every counter has its
\* own start, so requests and errors return to zero at different moments.
ReqLap(p) ==
    /\ reqs[p] > 0
    /\ reqs' = [reqs EXCEPT ![p] = 0]
    /\ UNCHANGED <<errs, health, rlq, limits, chan, balance, req>>

ErrLap(p) ==
    /\ errs[p] > 0
    /\ errs' = [errs EXCEPT ![p] = 0]
    /\ UNCHANGED <<reqs, health, rlq, limits, chan, balance, req>>

\* Another router or a direct proxy uses the same provider endpoint.
ForeignRequest(p) ==
    /\ reqs[p] < MaxCount
    /\ reqs' = [reqs EXCEPT ![p] = @ + 1]
    /\ UNCHANGED <<errs, health, rlq, limits, chan, balance, req>>

ForeignError(p) ==
    /\ errs[p] < MaxCount
    /\ errs' = [errs EXCEPT ![p] = @ + 1]
    /\ UNCHANGED <<reqs, health, rlq, limits, chan, balance, req>>

-----------------------------------------------------------------------------
\* The health monitor.

\* check_health: within the grace period a provider counts as healthy.  Past
\* it, errors / requests > threshold is decided on the integers (with no
\* request, x/0 is infinite for x > 0 and 0/0 is NaN, which exceeds nothing).
IsHealthy(p) ==
    \/ reqs[p] < MinRequests
    \/ errs[p] * ErrDen <= reqs[p] * ErrNum

\* interval.tick(), after the previous round has been joined
StartRound ==
    /\ hmTodo = {} /\ hmSend = {}
    /\ hmTodo' = Providers
    /\ UNCHANGED <<counts, unhealthy, hmSend, rlq, limits, chan, balance, req>>

\* Mutation of CheckProvider: a recovered provider is forgotten without an Insert.
CheckProviderSilent(p) ==
    /\ p \in hmTodo /\ hmSend = {}
    /\ hmTodo' = hmTodo \ {p}
    /\ \/ /\ ~IsHealthy(p) /\ p \notin unhealthy
          /\ hmSend' = {[op |-> "remove", key |-> p]}
          /\ UNCHANGED unhealthy
       \/ /\ IsHealthy(p) \/ p \in unhealthy
          /\ unhealthy' = IF IsHealthy(p) THEN unhealthy \ {p} ELSE unhealthy
          /\ UNCHANGED hmSend
    /\ UNCHANGED <<counts, rlq, limits, chan, balance, req>>

\* One provider of a round: the verdict is taken here, the change it leads to
\* is sent later, when the channel has room.
CheckProvider(p) ==
    /\ p \in hmTodo /\ hmSend = {}
    /\ hmTodo' = hmTodo \ {p}
    /\ \/ /\ ~IsHealthy(p) /\ p \notin unhealthy
          /\ hmSend' = {[op |-> "remove", key |-> p]}
          /\ UNCHANGED unhealthy
       \/ /\ IsHealthy(p) /\ p \in unhealthy
          /\ unhealthy' = unhealthy \ {p}
          /\ hmSend' = {[op |-> "insert", key |-> p]}
       \/ /\ IsHealthy(p) <=> p \notin unhealthy
          /\ UNCHANGED <<unhealthy, hmSend>>
    /\ UNCHANGED <<counts, rlq, limits, chan, balance, req>>

\* Mutation of HealthSend: the channel's capacity is not respected.
HealthSendUnbounded ==
    /\ \E ch \in hmSend :
         /\ chan' = Append(chan, ch)
         /\ unhealthy' = IF ch.op = "remove" THEN unhealthy \cup {ch.key}
                                             ELSE unhealthy
    /\ hmSend' = {}
    /\ UNCHANGED <<counts, hmTodo, rlq, limits, balance, req>>

\* Mutation of HealthSend: the removed key is never recorded.
HealthSendForgets ==
    /\ Len(chan) < ChanCap
    /\ \E ch \in hmSend : chan' = Append(chan, ch)
    /\ hmSend' = {}
    /\ UNCHANGED <<counts, unhealthy, hmTodo, rlq, limits, balance, req>>

\* tx.send(change).await completes; a removed key is recorded only now.
HealthSend ==
    /\ Len(chan) < ChanCap
    /\ \E ch \in hmSend :
         /\ chan' = Append(chan, ch)
         /\ unhealthy' = IF ch.op = "remove" THEN unhealthy \cup {ch.key}
                                             ELSE unhealthy
    /\ hmSend' = {}
    /\ UNCHANGED <<counts, hmTodo, rlq, limits, balance, req>>

-----------------------------------------------------------------------------
\* The rate limit monitor.

RestoreWait(retry) ==
    (IF retry = NoRetryAfter THEN DefaultWait ELSE retry) + BufferWait

\* rx.recv(): an event for a provider already limited is dropped.
LimitEvent ==
    /\ rlSend = {} /\ rlq # <<>>
    /\ rlq' = Tail(rlq)
    /\ LET e == Head(rlq) IN
         rlSend' = IF e.key \in limited THEN {}
                   ELSE {[op |-> "remove", key |-> e.key,
                          wait |-> RestoreWait(e.retry)]}
    /\ UNCHANGED <<counts, health, limited, timer, chan, balance, req>>

\* The Remove is in the channel: the restore timer starts now.
LimitSendRemove ==
    /\ Len(chan) < ChanCap
    /\ \E s \in rlSend :
         /\ s.op = "remove"
         /\ chan' = Append(chan, [op |-> "remove", key |-> s.key])
         /\ timer' = [timer EXCEPT ![s.key] = s.wait]
         /\ limited' = limited \cup {s.key}
    /\ rlSend' = {}
    /\ UNCHANGED <<counts, health, rlq, balance, req>>

\* Mutation of RestoreDue: the timer is consumed and no Insert follows.
RestoreDueSilent(p) ==
    /\ rlSend = {} /\ timer[p] = 0
    /\ timer' = [timer EXCEPT ![p] = NoTimer]
    /\ UNCHANGED <<counts, health, rlq, limited, rlSend, chan, balance, req>>

\* pending_restores.next()
RestoreDue(p) ==
    /\ rlSend = {} /\ timer[p] = 0
    /\ timer' = [timer EXCEPT ![p] = NoTimer]
    /\ rlSend' = {[op |-> "insert", key |-> p, wait |-> 0]}
    /\ UNCHANGED <<counts, health, rlq, limited, chan, balance, req>>

\* Mutation of LimitSendInsert: the provider stays in rate_limited_providers.
LimitSendInsertKeeps ==
    /\ Len(chan) < ChanCap
    /\ \E s \in rlSend :
         /\ s.op = "insert"
         /\ chan' = Append(chan, [op |-> "insert", key |-> s.key])
    /\ rlSend' = {}
    /\ UNCHANGED <<counts, health, rlq, limited, timer, balance, req>>

\* The restored provider's Insert is in the channel; its events count again.
LimitSendInsert ==
    /\ Len(chan) < ChanCap
    /\ \E s \in rlSend :
         /\ s.op = "insert"
         /\ chan' = Append(chan, [op |-> "insert", key |-> s.key])
         /\ limited' = limited \ {s.key}
    /\ rlSend' = {}
    /\ UNCHANGED <<counts, health, rlq, timer, balance, req>>

\* One second passes on every restore timer.
Tick ==
    /\ \E p \in Providers : timer[p] > 0
    /\ timer' = [p \in Providers |->
                    IF timer[p] > 0 THEN timer[p] - 1 ELSE timer[p]]
    /\ UNCHANGED <<counts, health, rlq, limited, rlSend, chan, balance, req>>

-----------------------------------------------------------------------------
\* The Buffer worker and the balancer.

Submit(c) ==
    /\ req[c].st = "idle"
    /\ req' = [req EXCEPT ![c] = [st |-> "queued"]]
    /\ bufq' = Append(bufq, c)
    /\ UNCHANGED <<counts, health, rlq, limits, chan, initial, pool, worker>>

TakeRequest ==
    /\ worker = "idle" /\ bufq # <<>>
    /\ worker' = "drain"
    /\ UNCHANGED <<counts, health, rlq, limits, chan, initial, pool, bufq, req>>

\* ConfigDiscovery::poll_next, inside update_pending_from_discover: the
\* initial inserts first, then the channel, one change at a time.
Discover ==
    /\ worker = "drain"
    /\ \/ \E p \in initial :
            /\ initial' = initial \ {p}
            /\ pool' = pool \cup {p}
            /\ UNCHANGED chan
       \/ /\ initial = {} /\ chan # <<>>
          /\ chan' = Tail(chan)
          /\ pool' = IF Head(chan).op = "insert" THEN pool \cup {Head(chan).key}
                                                 ELSE pool \ {Head(chan).key}
          /\ UNCHANGED initial
    /\ UNCHANGED <<counts, health, rlq, limits, bufq, worker, req>>

\* Discovery is Pending.  With no service the worker stays parked in
\* poll_ready until a change wakes it.
DiscoverPending ==
    /\ worker = "drain"
    /\ initial = {} /\ chan = <<>> /\ pool # {}
    /\ worker' = "pick"
    /\ UNCHANGED <<counts, health, rlq, limits, chan, initial, pool, bufq, req>>

\* call: the balancer's choice is random, any service may get the request.
Pick(p) ==
    /\ worker = "pick" /\ p \in pool
    /\ req' = [req EXCEPT ![Head(bufq)] = [st |-> "sent", to |-> p]]
    /\ bufq' = Tail(bufq)
    /\ worker' = "idle"
    /\ UNCHANGED <<counts, health, rlq, limits, chan, initial, pool>>

-----------------------------------------------------------------------------
\* Dispatcher::dispatch, in the client's own task.

CountRequest(c) ==
    /\ req[c].st = "sent"
    /\ LET p == req[c].to IN
         /\ reqs[p] < MaxCount
         /\ reqs' = [reqs EXCEPT ![p] = @ + 1]
         /\ req' = [req EXCEPT ![c] = [st |-> "await", to |-> p]]
    /\ UNCHANGED <<errs, health, rlq, limits, chan, balance>>

\* A success, a client error, or a transport error of a sync request: `?`
\* leaves dispatch before any of them is counted.
RespondUncounted(c) ==
    /\ req[c].st = "await"
    /\ req' = [req EXCEPT ![c] = IdleReq]
    /\ UNCHANGED <<counts, health, rlq, limits, chan, balance>>

\* A 5xx, or an error on the first or a later event of a stream
RespondServerError(c) ==
    /\ req[c].st = "await"
    /\ LET p == req[c].to IN
         /\ errs[p] < MaxCount
         /\ errs' = [errs EXCEPT ![p] = @ + 1]
    /\ req' = [req EXCEPT ![c] = IdleReq]
    /\ UNCHANGED <<reqs, health, rlq, limits, chan, balance>>

\* A 429.  A streaming request leaves dispatch with the stream's error, so
\* only a sync request goes on to tell the rate limit monitor.
RespondRateLimited(c, isStream, retry) ==
    /\ req[c].st = "await"
    /\ req' = [req EXCEPT ![c] =
                 IF isStream THEN IdleReq
                 ELSE [st |-> "limiting", to |-> req[c].to, retry |-> retry]]
    /\ UNCHANGED <<counts, health, rlq, limits, chan, balance>>

\* rate_limit_tx.send(..).await: the response waits while the channel is full.
SignalRateLimit(c) ==
    /\ req[c].st = "limiting" /\ Len(rlq) < RateCap
    /\ rlq' = Append(rlq, [key |-> req[c].to, retry |-> req[c].retry])
    /\ req' = [req EXCEPT ![c] = IdleReq]
    /\ UNCHANGED <<counts, health, limits, chan, balance>>

\* The client disconnects: its future is dropped at an await point.
Disconnect(c) ==
    /\ req[c].st \in {"sent", "await", "limiting"}
    /\ req' = [req EXCEPT ![c] = IdleReq]
    /\ UNCHANGED <<counts, health, rlq, limits, chan, balance>>

-----------------------------------------------------------------------------
Counters ==
    \E p \in Providers : ReqLap(p) \/ ErrLap(p) \/ ForeignRequest(p) \/ ForeignError(p)

HealthMonitor ==
    StartRound \/ HealthSend \/ \E p \in Providers : CheckProvider(p)

RateLimitMonitor ==
    \/ LimitEvent \/ LimitSendRemove \/ LimitSendInsert
    \/ \E p \in Providers : RestoreDue(p)

Balancer ==
    TakeRequest \/ Discover \/ DiscoverPending \/ \E p \in Providers : Pick(p)

Dispatch ==
    \E c \in Clients :
        \/ CountRequest(c) \/ RespondUncounted(c) \/ RespondServerError(c)
        \/ \E s \in BOOLEAN, r \in RetryAfters : RespondRateLimited(c, s, r)
        \/ SignalRateLimit(c) \/ Disconnect(c)

Next ==
    \/ Counters \/ HealthMonitor \/ RateLimitMonitor \/ Tick
    \/ Balancer \/ Dispatch \/ \E c \in Clients : Submit(c)

Spec == Init /\ [][Next]_vars

\* The monitor tasks, the Buffer worker and the clock keep running.  Nothing
\* is assumed of clients, of providers' answers or of foreign traffic.
Fairness ==
    /\ WF_vars(HealthMonitor) /\ WF_vars(Balancer) /\ WF_vars(Tick)
    /\ WF_vars(RateLimitMonitor)

FairSpec == Spec /\ Fairness

-----------------------------------------------------------------------------
\* Properties.

Changes(p) == {i \in 1..Len(chan) : chan[i].key = p}

\* The pool will lack p once the balancer has applied every change under way:
\* the last change for p in the channel removes it, or there is none and p is
\* neither in the balancer nor among the initial inserts.
Absent(p) ==
    \/ \E i \in Changes(p) :
          /\ chan[i].op = "remove"
          /\ \A j \in Changes(p) : j <= i
    \/ Changes(p) = {} /\ p \notin pool \cup initial

\* A change for p that some task is about to put in the channel
Sending(op, p) ==
    \/ \E ch \in hmSend : ch.op = op /\ ch.key = p
    \/ \E s \in rlSend : s.op = op /\ s.key = p

\* The rate limit monitor will restore p: its timer runs or its Insert is
\* waiting for room in the channel.
RestoreScheduled(p) ==
    timer[p] # NoTimer \/ \E s \in rlSend : s.op = "insert" /\ s.key = p

\* Two monitors remove and re-insert providers without knowing of each other,
\* over a channel that may be full, while the balancer may not read it for a
\* long time.  Whatever the order, a provider that is, or is about to be, out
\* of the pool has somebody who will bring it back: the health monitor still
\* holds it unhealthy or is sending its Insert, or the rate limit monitor
\* holds it limited and has a restore scheduled for it.
NoLostProvider ==
    \A p \in Providers :
        Absent(p) => \/ p \in unhealthy
                     \/ \E ch \in hmSend : ch.op = "insert" /\ ch.key = p
                     \/ p \in limited /\ RestoreScheduled(p)

\* rate_limited_providers and pending_restores always agree: a duplicate event
\* never starts a second timer, and no provider is kept limited (its later
\* events all ignored) without a restore under way.
OneRestorePerLimit ==
    \A p \in Providers : p \in limited <=> RestoreScheduled(p)

\* What makes the two invariants above inductive: the Buffer worker polls only
\* for a request it holds; a provider whose Insert is being sent has no timer
\* left, and one whose Remove is being sent is not limited yet.
WorkerHasRequest == worker # "idle" => bufq # <<>>
SendsMatchTimers ==
    \A s \in rlSend : /\ s.op = "insert" => timer[s.key] = NoTimer
                      /\ s.op = "remove" => s.key \notin limited

PoolInv == /\ TypeOK /\ WorkerHasRequest /\ SendsMatchTimers
           /\ OneRestorePerLimit /\ NoLostProvider

\* No provider gives the monitors a reason to remove it.
Calm ==
    /\ \A p \in Providers : IsHealthy(p)
    /\ rlq = <<>> /\ \A s \in rlSend : s.op = "insert"

\* Once the trouble is over and requests keep coming, every provider returns
\* to the pool for good.
PoolRecovers ==
    (<>[]Calm /\ []<>(worker = "drain")) => <>[](pool = Providers)

\* A request that the worker holds in poll_ready with an empty pool is
\* dispatched once the trouble is over: the changes that refill the pool wake
\* the worker, and no monitor waits for a channel only that worker drains.
RequestsServed ==
    <>[]Calm => \A c \in Clients : (req[c].st = "queued") ~> (req[c].st # "queued")
=============================================================================
