------------------------------ MODULE Routers -------------------------------
(***************************************************************************)
(* All the routers of a gateway: how App::new builds them and registers    *)
(* their monitors and channels, and how the two monitor tasks then serve   *)
(* all of them.  What happens inside one router is module ProviderPool;    *)
(* here a change on a channel is one more of them, whatever it says.       *)
(*                                                                         *)
(* A balancer is named by its router and its endpoint type, and so are the *)
(* two channels that are made with it: the changes it reads, and the rate  *)
(* limit events its dispatchers send.  The registries of AppState have one *)
(* entry for each router, not for each balancer.                           *)
(*                                                                         *)
(* A configuration is a record: global (the providers of the providers     *)
(* config) and routers, a function from the routers to their balance       *)
(* configs, each a function from endpoint types to a strategy, a set of    *)
(* providers and what is known of their weights: "fine" (they sum to one), *)
(* "zero" (so they do, but some are zero) or "off" (they do not).          *)
(***************************************************************************)
EXTENDS Integers, FiniteSets, Functions

CONSTANTS
    Configs,    \* the configurations
    Supported,  \* the providers the gateway has a client for
    SDK,        \* the provider of a router's direct proxy
    Served,     \* the endpoint types the gateway has an endpoint of
    ChanCap     \* CHANNEL_CAPACITY of the change channels

ASSUME RoutersConstants == ChanCap \in Nat \ {0} /\ SDK \in Supported

\* BalanceConfigInner has two strategies; "proxy" names the direct proxy of a router,
\* which is no endpoint type.
ASSUME ConfigShapes ==
    \A c \in Configs : \A r \in DOMAIN c.routers : \A t \in DOMAIN c.routers[r] :
        t # "proxy" /\ c.routers[r][t].strategy \in {"latency", "weighted"}

VARIABLES
    stage,     \* "validate", "build", "running", "refused" or "down"
    config,
    todo,      \* the parts to build of the router being built
    waiting,   \* the routers that are not built yet
    keyed,     \* the routers with an entry in provider_keys
    sender,    \* the event channel each balancer's dispatchers send to
    senders, receivers,          \* rate_limit_senders, rate_limit_receivers
    healthMonitors, rateMonitors,\* the balancer each router's monitor sends to
    tasks,     \* the rate limit monitor tasks that run: [from, to] channels
    chan,      \* the number of changes in each change channel
    failed,    \* the balancers that failed: their end of the channel is gone
    left,      \* the keys each router of the current health round has yet to check
    sending    \* the routers whose health check waits to send a change

registries == <<keyed, senders, receivers, healthMonitors, rateMonitors>>
building == <<config, todo, waiting, sender>>
monitors == <<tasks, chan, failed, left, sending>>
vars == <<stage, building, registries, monitors>>

NoEntry == [x \in {} |-> x]
Put(f, k, v) == [x \in DOMAIN f \cup {k} |-> IF x = k THEN v ELSE f[x]]

Balance(r) == config.routers[r]
KeysOf(r) == UNION {{[provider |-> p, type |-> t] : p \in Balance(r)[t].providers} : t \in DOMAIN Balance(r)}
BalancersOf(r) == {<<r, t>> : t \in DOMAIN Balance(r)}
Proxy(r) == <<r, "proxy">>

Init ==
    /\ stage = "validate" /\ config \in Configs
    /\ todo = {} /\ waiting = {} /\ keyed = {} /\ sender = NoEntry
    /\ senders = NoEntry /\ receivers = NoEntry
    /\ healthMonitors = NoEntry /\ rateMonitors = NoEntry
    /\ tasks = {} /\ chan = NoEntry /\ failed = {} /\ left = NoEntry /\ sending = {}

-----------------------------------------------------------------------------
(* Startup: App::new, MetaRouter::from_config, Router::new *)

\* The provider has an entry in the providers config, which its client needs
Configured(p) == p \in config.global

\* The part of Config::validate about the providers of the routers
Validate ==
    /\ stage = "validate"
    /\ IF \A r \in DOMAIN config.routers : \A k \in KeysOf(r) : Configured(k.provider)
       THEN stage' = "build" /\ waiting' = DOMAIN config.routers
       ELSE stage' = "refused" /\ UNCHANGED waiting
    /\ UNCHANGED <<config, todo, sender, registries, monitors>>

\* A client can be made for a provider that is supported and configured
HasClient(p) == p \in Supported /\ Configured(p)

\* RouterConfig::validate
WeightsSumToOne(r) == \A t \in DOMAIN Balance(r) : Balance(r)[t].weights # "off"

\* Router::new up to its balancers: the provider keys of the router are registered
NewRouter(r) ==
    /\ stage = "build" /\ todo = {} /\ r \in waiting
    /\ IF WeightsSumToOne(r)
       THEN /\ todo' = BalancersOf(r) \cup {Proxy(r)} /\ waiting' = waiting \ {r}
            /\ keyed' = keyed \cup {r} /\ UNCHANGED stage
       ELSE stage' = "refused" /\ UNCHANGED <<todo, waiting, keyed>>
    /\ UNCHANGED <<config, sender, senders, receivers, healthMonitors, rateMonitors, monitors>>

\* Client::new_for_router of every provider of the router
HasClients(r) == r \in keyed /\ \A k \in KeysOf(r) : HasClient(k.provider)

\* Dispatcher::new of any key of the router
CanDispatch(r) == HasClients(r) /\ r \in DOMAIN senders

\* Every endpoint type of the balancer's router has the balancer's strategy
OneStrategy(b) ==
    \A t \in DOMAIN Balance(b[1]) : Balance(b[1])[t].strategy = Balance(b[1])[b[2]].strategy

\* ConfigDiscovery: a weighted balancer wants every endpoint type to be weighted
CanDiscover(b) == Balance(b[1])[b[2]].strategy = "weighted" => OneStrategy(b)

\* Mutation of Register: the receiver of an earlier balancer is kept
RegisterKeepsReceiver(b) ==
    /\ healthMonitors' = Put(healthMonitors, b[1], b)
    /\ senders' = Put(senders, b[1], b)
    /\ receivers' = IF b[1] \in DOMAIN receivers THEN receivers ELSE Put(receivers, b[1], b)
    /\ rateMonitors' = Put(rateMonitors, b[1], b)

\* The four registrations, each of which replaces the router's earlier entry
Register(b) ==
    /\ healthMonitors' = Put(healthMonitors, b[1], b)
    /\ senders' = Put(senders, b[1], b)
    /\ receivers' = Put(receivers, b[1], b)
    /\ rateMonitors' = Put(rateMonitors, b[1], b)

\* ProviderBalancer::weighted, peak_ewma: channels, registrations, discovery
NewBalancer(b) ==
    /\ stage = "build" /\ b \in todo /\ b # Proxy(b[1])
    /\ Register(b)
    /\ IF CanDiscover(b) /\ HasClients(b[1])
       THEN /\ todo' = todo \ {b}
            /\ sender' = Put(sender, b, senders'[b[1]])
            /\ chan' = Put(chan, b, 0) /\ UNCHANGED stage
       ELSE stage' = "refused" /\ UNCHANGED <<todo, sender, chan>>
    /\ UNCHANGED <<config, waiting, keyed, tasks, failed, left, sending>>

\* The end of Router::new: the direct proxy of the router, to the SDK's provider
NewRouterProxy(r) ==
    /\ stage = "build" /\ todo = {Proxy(r)}
    /\ IF HasClient(SDK)
       THEN todo' = {} /\ UNCHANGED stage
       ELSE stage' = "refused" /\ UNCHANGED todo
    /\ UNCHANGED <<config, waiting, sender, registries, monitors>>

\* The direct proxies of the unified API and the meta router, and so App::new, end
NewProxies ==
    /\ stage = "build" /\ todo = {} /\ waiting = {}
    /\ stage' = IF \A p \in config.global : HasClient(p) THEN "running" ELSE "refused"
    /\ UNCHANGED <<building, registries, monitors>>

-----------------------------------------------------------------------------
(* The rate limit monitor *)

Without(f, S) == Restrict(f, DOMAIN f \ S)

\* Mutation of RateTick: the monitors are not taken out of the registry
RateTickKeepsMonitors ==
    /\ stage = "running" /\ rateMonitors # NoEntry
    /\ IF DOMAIN rateMonitors \subseteq DOMAIN receivers
       THEN /\ tasks' = tasks \cup {[from |-> receivers[r], to |-> rateMonitors[r]] :
                                       r \in DOMAIN rateMonitors}
            /\ receivers' = Without(receivers, DOMAIN rateMonitors)
            /\ UNCHANGED stage
       ELSE stage' = "down" /\ UNCHANGED <<tasks, receivers>>
    /\ UNCHANGED <<building, keyed, senders, healthMonitors, rateMonitors, chan, failed, left, sending>>

\* A tick of RateLimitMonitor::run_forever: every new monitor gets a task with
\* its router's receiver; one that has no receiver ends the gateway
RateTick ==
    /\ stage = "running" /\ rateMonitors # NoEntry
    /\ IF DOMAIN rateMonitors \subseteq DOMAIN receivers
       THEN /\ tasks' = tasks \cup {[from |-> receivers[r], to |-> rateMonitors[r]] :
                                       r \in DOMAIN rateMonitors}
            /\ receivers' = Without(receivers, DOMAIN rateMonitors)
            /\ rateMonitors' = NoEntry
            /\ UNCHANGED stage
       ELSE stage' = "down" /\ UNCHANGED <<tasks, receivers, rateMonitors>>
    /\ UNCHANGED <<building, keyed, senders, healthMonitors, chan, failed, left, sending>>

\* A send to a channel: a failed balancer's takes nothing, and does not wait
CanSend(b) == b \in failed \/ chan[b] < ChanCap
Sent(b) == IF b \in failed THEN chan ELSE [chan EXCEPT ![b] = @ + 1]

\* create_key_for_endpoint, for an event of provider p and endpoint type t: a
\* weighted balancer's monitor looks the weight up
HasKey(b, p, t) ==
    Balance(b[1])[b[2]].strategy = "weighted" =>
        Balance(b[1])[t].strategy = "weighted" /\ p \in Balance(b[1])[t].providers

\* A rate limit task removes provider p, of which a dispatcher of the balancer it
\* hears has sent an event, or makes a dispatcher and restores it: without a key,
\* without a dispatcher, or if the restore cannot be sent the gateway ends
Limit(k, p, change) ==
    /\ stage = "running" /\ k \in tasks /\ k.from[2] \in Served /\ CanSend(k.to)
    /\ IF IF change = "remove" THEN HasKey(k.to, p, k.from[2])
                               ELSE CanDispatch(k.to[1]) /\ k.to \notin failed
       THEN chan' = Sent(k.to) /\ UNCHANGED stage
       ELSE stage' = "down" /\ UNCHANGED chan
    /\ UNCHANGED <<building, registries, tasks, failed, left, sending>>

-----------------------------------------------------------------------------
(* The health monitor: the checks of a round run side by side, under one lock *)

\* A tick of HealthMonitor::run_forever
HealthTick ==
    /\ stage = "running" /\ left = NoEntry
    /\ left' = [r \in DOMAIN healthMonitors |-> Cardinality(KeysOf(r))]
    /\ UNCHANGED <<stage, building, registries, tasks, chan, failed, sending>>

\* check_monitor looks at the next key: nothing to do, or a change to send; an
\* entry of the other strategy or no dispatcher for an insert end the gateway
Check(r, change) ==
    /\ stage = "running" /\ r \in DOMAIN left \ sending /\ left[r] > 0
    /\ IF OneStrategy(healthMonitors[r]) /\ (change = "insert" => CanDispatch(r))
       THEN /\ left' = [left EXCEPT ![r] = IF change = "none" THEN @ - 1 ELSE @]
            /\ sending' = IF change = "none" THEN sending ELSE sending \cup {r}
            /\ UNCHANGED stage
       ELSE stage' = "down" /\ UNCHANGED <<left, sending>>
    /\ UNCHANGED <<building, registries, tasks, chan, failed>>

\* Mutation of Send: the change is sent again instead of looking at the next key
SendAgain(r) ==
    /\ stage = "running" /\ r \in sending /\ CanSend(healthMonitors[r])
    /\ chan' = Sent(healthMonitors[r])
    /\ UNCHANGED <<stage, building, registries, tasks, failed, left, sending>>

\* tx.send(..).await has a place in the channel; that it fails is only logged
Send(r) ==
    /\ stage = "running" /\ r \in sending /\ CanSend(healthMonitors[r])
    /\ chan' = Sent(healthMonitors[r])
    /\ sending' = sending \ {r} /\ left' = [left EXCEPT ![r] = @ - 1]
    /\ UNCHANGED <<stage, building, registries, tasks, failed>>

\* try_join_all: the round is over when every router's check is
RoundOver ==
    /\ stage = "running" /\ left # NoEntry /\ \A r \in DOMAIN left : left[r] = 0
    /\ left' = NoEntry
    /\ UNCHANGED <<stage, building, registries, tasks, chan, failed, sending>>

-----------------------------------------------------------------------------
(* The balancers *)

\* A balancer reads a change in poll_ready, while it has a request to serve: only
\* one of a type that is served ever has
Drain(b) ==
    /\ stage = "running" /\ b \in DOMAIN chan \ failed /\ chan[b] > 0 /\ b[2] \in Served
    /\ chan' = [chan EXCEPT ![b] = @ - 1]
    /\ UNCHANGED <<stage, building, registries, tasks, failed, left, sending>>

\* The services left in a weighted balancer have weight zero: poll_ready fails,
\* the worker of the Buffer around it ends, and the receiver is dropped with it
Fail(b) ==
    /\ stage = "running" /\ b \in DOMAIN chan \ failed /\ b[2] \in Served
    /\ \E t \in DOMAIN Balance(b[1]) : Balance(b[1])[t].weights = "zero"
    /\ failed' = failed \cup {b}
    /\ UNCHANGED <<stage, building, registries, tasks, chan, left, sending>>

AllRouters == UNION {DOMAIN c.routers : c \in Configs}
AllTypes == UNION {UNION {DOMAIN c.routers[r] : r \in DOMAIN c.routers} : c \in Configs}
AllBalancers == AllRouters \X AllTypes

Next ==
    \/ Validate \/ NewProxies \/ RateTick \/ HealthTick \/ RoundOver
    \/ \E r \in AllRouters : NewRouter(r) \/ NewRouterProxy(r) \/ Send(r)
    \/ \E r \in AllRouters : \E change \in {"none", "remove", "insert"} : Check(r, change)
    \/ \E b \in AllBalancers : NewBalancer(b) \/ Drain(b) \/ Fail(b)
    \/ \E k \in tasks : \E p \in {key.provider : key \in KeysOf(k.to[1])},
                         change \in {"remove", "insert"} : Limit(k, p, change)

(***************************************************************************)
(* The health monitor is a task that is polled; a place in a channel goes  *)
(* to its senders in turn, so that one that waits gets one if places keep  *)
(* coming.  That they come (Drain) is an assumption about the clients:     *)
(* every router keeps getting requests of the types that are served.       *)
(***************************************************************************)
Fairness ==
    /\ WF_vars(RoundOver)
    /\ \A r \in AllRouters : WF_vars(\E c \in {"none", "remove", "insert"} : Check(r, c))
                          /\ SF_vars(Send(r))
    /\ \A b \in AllBalancers : WF_vars(Drain(b))

Spec == Init /\ [][Next]_vars /\ Fairness

-----------------------------------------------------------------------------
(* Properties *)

\* Both monitors of the router send to this balancer, and the rate limit
\* monitor hears the balancer's own dispatchers
Fed(b) ==
    /\ healthMonitors[b[1]] = b
    /\ \/ /\ b[1] \in DOMAIN rateMonitors \cap DOMAIN receivers
          /\ rateMonitors[b[1]] = b /\ receivers[b[1]] = sender[b]
       \/ \E k \in tasks : k.to = b /\ k.from = sender[b]

(***************************************************************************)
(* Of the balancers of a running router exactly one is fed: its health     *)
(* monitor, its rate limit monitor and its dispatchers' events are all of  *)
(* the same balancer, although they are registered one by one, by router,  *)
(* and the next balancer's registrations replace them.  A router with one  *)
(* endpoint type has its only balancer fed.                                *)
(***************************************************************************)
OneBalancerFed ==
    stage = "running" =>
        \A r \in DOMAIN config.routers :
            BalancersOf(r) # {} => Cardinality({b \in BalancersOf(r) : Fed(b)}) = 1

\* A provider of any type of a router has a key of every type that is served
KeysForAllServed(r) ==
    \A k \in KeysOf(r), t \in Served \cap DOMAIN Balance(r) : [k EXCEPT !.type = t] \in KeysOf(r)

(***************************************************************************)
(* A running gateway is not ended by its monitors while no balancer has    *)
(* failed and no endpoint type adds a provider that a served one lacks:    *)
(* what they look up in the registries (a receiver, a sender, the provider *)
(* keys), build (a client) and expect (one strategy for all the endpoint   *)
(* types of a router, a weight for every event) is there whenever they     *)
(* come for it.                                                            *)
(***************************************************************************)
StaysUp ==
    [][stage = "running" /\ failed = {} /\ (\A r \in DOMAIN config.routers : KeysForAllServed(r))
         => stage' = "running"]_stage

(***************************************************************************)
(* Every health round ends, so that the next begins and the lock is free,  *)
(* although the checks of all routers wait for one another and for places  *)
(* in channels that the rate limit tasks fill too, and a router whose      *)
(* balancer has failed holds up none of them; provided that every router's *)
(* monitor sends to a balancer that gets requests, and so reads.           *)
(***************************************************************************)
RoundsEnd ==
    (left # NoEntry /\ \A r \in DOMAIN healthMonitors : healthMonitors[r][2] \in Served)
        ~> (left = NoEntry \/ stage = "down")
=============================================================================
