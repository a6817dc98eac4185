---------------------------- MODULE RoutersProofs ----------------------------
(***************************************************************************)
(* The registries that the routers share, for every set of configurations, *)
(* any number of routers, endpoint types and providers, and any order in   *)
(* which the routers and their balancers are built.                        *)
(***************************************************************************)
EXTENDS Routers, FiniteSetTheorems, TLAPS

\* A router's entry in the registries is one of its own balancers.
OwnEntries ==
    \A r \in DOMAIN healthMonitors :
        r \in DOMAIN config.routers /\ healthMonitors[r] \in BalancersOf(r)

\* The four registries agree: until the first tick of the rate limit monitor they
\* name the same balancers, and from then on its tasks do.
Agree ==
    /\ senders = healthMonitors
    /\ \/ rateMonitors = healthMonitors /\ receivers = healthMonitors /\ tasks = {}
       \/ /\ rateMonitors = NoEntry /\ receivers = NoEntry
          /\ tasks = {[from |-> healthMonitors[r], to |-> healthMonitors[r]] :
                         r \in DOMAIN healthMonitors}
          /\ stage \in {"running", "down"}

\* The dispatchers of a balancer that was built send to its own channel.
OwnSenders == \A b \in DOMAIN sender : sender[b] = b /\ CanDiscover(b) /\ HasClients(b[1])

\* A balancer of a router that was begun is built or still to be built, and the
\* last one registered is built.
Progress ==
    /\ waiting \subseteq DOMAIN config.routers
    /\ \A b \in todo : /\ b[1] \in DOMAIN config.routers
                       /\ b \in BalancersOf(b[1]) \cup {Proxy(b[1])}
    /\ stage # "validate" =>
          \A r \in DOMAIN config.routers \ waiting : \A b \in BalancersOf(r) :
              b \in todo \/ (b \in DOMAIN sender /\ r \in DOMAIN healthMonitors)
    /\ \A r \in DOMAIN healthMonitors : healthMonitors[r] \in DOMAIN sender
    /\ stage \in {"running", "down"} => waiting = {} /\ todo = {}

RoutersInv ==
    /\ config \in Configs
    /\ OwnEntries /\ Agree /\ OwnSenders
    /\ stage # "refused" => Progress
    /\ DOMAIN left \subseteq DOMAIN healthMonitors

-----------------------------------------------------------------------------
LEMMA InitRouters == Init => RoutersInv
<1> SUFFICES ASSUME Init PROVE RoutersInv
  OBVIOUS
<1>1. OwnEntries /\ OwnSenders /\ Agree
  BY DEF Init, OwnEntries, OwnSenders, Agree, NoEntry
<1>2. Progress
  BY DEF Init, Progress, NoEntry
<1> QED BY <1>1, <1>2 DEF Init, RoutersInv, NoEntry

\* What a balancer is called
LEMMA Names ==
    ASSUME NEW r, NEW b \in BalancersOf(r)
    PROVE  /\ b[1] = r /\ b = <<r, b[2]>> /\ b[2] \in DOMAIN Balance(r)
  BY DEF BalancersOf

LEMMA ProxyIsNoBalancer ==
    ASSUME config \in Configs, NEW r \in DOMAIN config.routers
    PROVE  Proxy(r) \notin BalancersOf(r)
  BY ConfigShapes DEF Proxy, BalancersOf, Balance

-----------------------------------------------------------------------------
\* Startup.

LEMMA BuildStep ==
    ASSUME RoutersInv, \/ Validate \/ NewProxies
                       \/ \E r \in AllRouters : NewRouter(r) \/ NewRouterProxy(r)
    PROVE  RoutersInv' /\ stage # "running"
<1>1. /\ UNCHANGED <<config, sender, senders, receivers, healthMonitors, rateMonitors>>
      /\ UNCHANGED monitors /\ keyed \subseteq keyed'
      /\ stage \in {"validate", "build"} /\ stage' \in {"build", "running", "refused"}
  BY DEF Validate, NewProxies, NewRouter, NewRouterProxy, building, registries
<1>2. /\ config' \in Configs /\ OwnEntries' /\ Agree' /\ DOMAIN left' \subseteq DOMAIN healthMonitors'
  BY <1>1 DEF RoutersInv, OwnEntries, Agree, monitors, BalancersOf, Balance
<1>3. OwnSenders'
  BY <1>1 DEF RoutersInv, OwnSenders, CanDiscover, OneStrategy, HasClients, HasClient, Configured,
              KeysOf, Balance
<1>4. ASSUME stage' # "refused" PROVE Progress'
  <2>0. Progress
    BY <1>1 DEF RoutersInv
  <2>1. CASE Validate
    BY <1>1, <1>4, <2>0, <2>1 DEF Validate, Progress, BalancersOf, Balance, Proxy
  <2>2. CASE NewProxies
    BY <1>1, <2>0, <2>2 DEF NewProxies, building, Progress, BalancersOf, Balance, Proxy
  <2>3. ASSUME NEW r \in AllRouters, NewRouter(r) PROVE Progress'
    <3>1. /\ todo = {} /\ r \in waiting /\ stage' = "build"
          /\ todo' = BalancersOf(r) \cup {Proxy(r)} /\ waiting' = waiting \ {r}
      BY <1>1, <1>4, <2>3 DEF NewRouter
    <3>2. \A b \in todo' : b[1] = r
      BY <3>1, Names DEF Proxy
    <3>3. /\ \A x : BalancersOf(x)' = BalancersOf(x) /\ Proxy(x)' = Proxy(x)
      BY <1>1 DEF BalancersOf, Balance, Proxy
    <3>4. /\ waiting' \subseteq DOMAIN config'.routers
          /\ \A b \in todo' : /\ b[1] \in DOMAIN config'.routers
                              /\ b \in BalancersOf(b[1])' \cup {Proxy(b[1])'}
      BY <1>1, <2>0, <3>1, <3>2, <3>3 DEF Progress
    <3>5. \A x \in DOMAIN config.routers \ waiting' : \A b \in BalancersOf(x) :
              b \in todo' \/ (b \in DOMAIN sender /\ x \in DOMAIN healthMonitors)
      <4> SUFFICES ASSUME NEW x \in DOMAIN config.routers \ waiting', NEW b \in BalancersOf(x),
                          b \notin todo'
                   PROVE  b \in DOMAIN sender /\ x \in DOMAIN healthMonitors
        OBVIOUS
      <4>1. x # r /\ x \notin waiting
        BY <3>1
      <4>2. stage = "build"
        BY <2>3 DEF NewRouter
      <4> QED BY <4>1, <4>2, <2>0, <3>1 DEF Progress
    <3>6. \A x \in DOMAIN healthMonitors' : healthMonitors'[x] \in DOMAIN sender'
      BY <1>1, <2>0 DEF Progress
    <3>7. \A x \in DOMAIN config'.routers \ waiting' : \A b \in BalancersOf(x)' :
              b \in todo' \/ (b \in DOMAIN sender' /\ x \in DOMAIN healthMonitors')
      BY <1>1, <3>3, <3>5
    <3> QED BY <3>1, <3>4, <3>6, <3>7 DEF Progress
  <2>4. ASSUME NEW r \in AllRouters, NewRouterProxy(r) PROVE Progress'
    BY <1>1, <1>4, <2>0, <2>4, ProxyIsNoBalancer
       DEF NewRouterProxy, Progress, BalancersOf, Balance, Proxy, RoutersInv
  <2> QED BY <2>1, <2>2, <2>3, <2>4
<1> QED BY <1>1, <1>2, <1>3, <1>4 DEF RoutersInv

\* The registrations of a balancer replace the router's in all four registries, and
\* its dispatchers find the sender just registered.
LEMMA BalancerStep ==
    ASSUME RoutersInv, NEW b \in AllBalancers, NewBalancer(b)
    PROVE  RoutersInv' /\ stage # "running"
<1>0. /\ stage = "build" /\ b \in todo /\ b # Proxy(b[1]) /\ Progress
      /\ UNCHANGED <<config, waiting, keyed, tasks, failed, left, sending>>
  BY DEF NewBalancer, RoutersInv
<1>1. /\ b[1] \in DOMAIN config.routers /\ b \in BalancersOf(b[1])
  BY <1>0 DEF Progress
<1>2. /\ DOMAIN healthMonitors' = DOMAIN healthMonitors \cup {b[1]} /\ healthMonitors'[b[1]] = b
      /\ \A r \in DOMAIN healthMonitors : r # b[1] => healthMonitors'[r] = healthMonitors[r]
  BY DEF NewBalancer, Register, Put
<1>3. \A x : BalancersOf(x)' = BalancersOf(x) /\ Proxy(x)' = Proxy(x)
  BY <1>0 DEF BalancersOf, Balance, Proxy
<1>4. OwnEntries'
  BY <1>0, <1>1, <1>2, <1>3 DEF RoutersInv, OwnEntries
<1>5. Agree'
  BY <1>0 DEF RoutersInv, Agree, NewBalancer, Register
<1>6. CASE CanDiscover(b) /\ HasClients(b[1])
  <2>1. /\ todo' = todo \ {b} /\ stage' = "build"
        /\ sender' = Put(sender, b, senders'[b[1]])
    BY <1>0, <1>6 DEF NewBalancer
  <2>2. senders' = healthMonitors'
    BY <1>5 DEF Agree
  <2>3. /\ DOMAIN sender' = DOMAIN sender \cup {b} /\ sender'[b] = b
        /\ \A c \in DOMAIN sender : c # b => sender'[c] = sender[c]
    BY <2>1, <2>2, <1>2 DEF Put
  <2>4. \A c : (CanDiscover(c) => CanDiscover(c)') /\ (HasClients(c[1]) => HasClients(c[1])')
    BY <1>0 DEF CanDiscover, OneStrategy, HasClients, HasClient, Configured, KeysOf, Balance
  <2>5. OwnSenders'
    BY <2>3, <2>4, <1>6 DEF RoutersInv, OwnSenders
  <2>6. \A c \in todo' : /\ c[1] \in DOMAIN config'.routers
                         /\ c \in BalancersOf(c[1])' \cup {Proxy(c[1])'}
    BY <1>0, <1>3, <2>1 DEF Progress
  <2>7. \A x \in DOMAIN config.routers \ waiting : \A c \in BalancersOf(x) :
            c \in todo' \/ (c \in DOMAIN sender' /\ x \in DOMAIN healthMonitors')
    <3> SUFFICES ASSUME NEW x \in DOMAIN config.routers \ waiting, NEW c \in BalancersOf(x),
                        c \notin todo'
                 PROVE  c \in DOMAIN sender' /\ x \in DOMAIN healthMonitors'
      OBVIOUS
    <3>1. CASE c = b
      <4>1. x = b[1]
        BY <3>1, Names
      <4> QED BY <3>1, <4>1, <1>2, <2>3
    <3>2. CASE c # b
      <4>1. c \notin todo
        BY <3>2, <2>1
      <4> QED BY <4>1, <1>0, <1>2, <2>3 DEF Progress
    <3> QED BY <3>1, <3>2
  <2>8. \A x \in DOMAIN healthMonitors' : healthMonitors'[x] \in DOMAIN sender'
    BY <1>0, <1>2, <2>3 DEF Progress
  <2>9. \A x \in DOMAIN config'.routers \ waiting' : \A c \in BalancersOf(x)' :
            c \in todo' \/ (c \in DOMAIN sender' /\ x \in DOMAIN healthMonitors')
    BY <1>0, <1>3, <2>7
  <2>10. Progress'
    BY <1>0, <2>1, <2>6, <2>8, <2>9 DEF Progress
  <2> QED BY <1>0, <1>2, <1>4, <1>5, <2>5, <2>10 DEF RoutersInv
<1>7. CASE ~(CanDiscover(b) /\ HasClients(b[1]))
  <2>1. stage' = "refused" /\ sender' = sender
    BY <1>7 DEF NewBalancer
  <2>2. \A c : (CanDiscover(c) => CanDiscover(c)') /\ (HasClients(c[1]) => HasClients(c[1])')
    BY <1>0 DEF CanDiscover, OneStrategy, HasClients, HasClient, Configured, KeysOf, Balance
  <2>3. OwnSenders'
    BY <2>1, <2>2 DEF RoutersInv, OwnSenders
  <2> QED BY <1>0, <1>2, <1>4, <1>5, <2>1, <2>3 DEF RoutersInv
<1> QED BY <1>0, <1>6, <1>7

-----------------------------------------------------------------------------
\* The gateway at work.

\* The one step that touches the registries: each new monitor finds its receiver.
LEMMA RateTickStep ==
    ASSUME RoutersInv, RateTick
    PROVE  RoutersInv' /\ stage' = "running"
<1>1. /\ stage = "running" /\ rateMonitors = healthMonitors /\ receivers = healthMonitors /\ tasks = {}
      /\ senders = healthMonitors
  BY DEF RateTick, RoutersInv, Agree
<1>2. /\ stage' = "running" /\ rateMonitors' = NoEntry
      /\ tasks' = {[from |-> healthMonitors[r], to |-> healthMonitors[r]] : r \in DOMAIN healthMonitors}
      /\ receivers' = Without(receivers, DOMAIN rateMonitors)
      /\ UNCHANGED <<config, todo, waiting, sender, keyed, senders, healthMonitors, left>>
  BY <1>1 DEF RateTick, building
<1>3. receivers' = NoEntry
  BY <1>1, <1>2 DEF Without, Restrict, NoEntry
<1>4. Agree'
  BY <1>1, <1>2, <1>3 DEF Agree
<1>5. OwnEntries' /\ OwnSenders' /\ config' \in Configs /\ DOMAIN left' \subseteq DOMAIN healthMonitors'
  BY <1>2 DEF RoutersInv, OwnEntries, OwnSenders, CanDiscover, OneStrategy, HasClients, HasClient,
              Configured, KeysOf, Balance, BalancersOf
<1>6. Progress'
  BY <1>1, <1>2 DEF RoutersInv, Progress, BalancersOf, Balance, Proxy
<1> QED BY <1>2, <1>4, <1>5, <1>6 DEF RoutersInv

\* The other steps of a running gateway leave the registries and the tasks alone.
LEMMA ServeStep ==
    ASSUME RoutersInv, stage = "running", stage' \in {"running", "down"},
           UNCHANGED <<building, registries, tasks>>,
           DOMAIN left' \subseteq DOMAIN healthMonitors
    PROVE  RoutersInv'
<1>1. UNCHANGED <<config, todo, waiting, sender, keyed, senders, receivers, healthMonitors,
                  rateMonitors, tasks>>
  BY DEF building, registries
<1>2. Agree'
  BY <1>1 DEF RoutersInv, Agree
<1>3. OwnEntries' /\ OwnSenders'
  BY <1>1 DEF RoutersInv, OwnEntries, OwnSenders, CanDiscover, OneStrategy, HasClients, HasClient,
              Configured, KeysOf, Balance, BalancersOf
<1>4. Progress'
  BY <1>1 DEF RoutersInv, Progress, BalancersOf, Balance, Proxy
<1> QED BY <1>1, <1>2, <1>3, <1>4 DEF RoutersInv

LEMMA MonitorStep ==
    ASSUME RoutersInv,
           \/ HealthTick \/ RoundOver
           \/ \E r \in AllRouters : Send(r)
           \/ \E r \in AllRouters : \E change \in {"none", "remove", "insert"} : Check(r, change)
           \/ \E b \in AllBalancers : Drain(b) \/ Fail(b)
           \/ \E k \in tasks : \E p \in {key.provider : key \in KeysOf(k.to[1])},
                               change \in {"remove", "insert"} : Limit(k, p, change)
    PROVE  RoutersInv'
<1>0. DOMAIN left \subseteq DOMAIN healthMonitors
  BY DEF RoutersInv
<1>1. /\ stage = "running" /\ stage' \in {"running", "down"}
      /\ UNCHANGED <<building, registries, tasks>>
  BY DEF HealthTick, RoundOver, Send, Check, Drain, Fail, Limit
<1>2. DOMAIN left' \subseteq DOMAIN healthMonitors
  BY <1>0 DEF HealthTick, RoundOver, Send, Check, Drain, Fail, Limit, NoEntry
<1> QED BY <1>1, <1>2, ServeStep

\* The registries of a gateway agree about which balancer of a router is fed,
\* from Router::new through every step of the two monitors (app.rs, router/service.rs,
\* balancer/provider.rs, discover/monitor).
THEOREM RoutersInvariant == Spec => []RoutersInv
<1>1. RoutersInv /\ [Next]_vars => RoutersInv'
  <2> SUFFICES ASSUME RoutersInv, [Next]_vars PROVE RoutersInv'
    OBVIOUS
  <2>1. CASE UNCHANGED vars
    BY <2>1 DEF vars, building, registries, monitors, RoutersInv, OwnEntries, Agree, OwnSenders,
                Progress, CanDiscover, OneStrategy, HasClients, HasClient, Configured, KeysOf,
                Balance, BalancersOf, Proxy
  <2>2. CASE Next
    BY <2>2, BuildStep, BalancerStep, RateTickStep, MonitorStep DEF Next
  <2> QED BY <2>1, <2>2
<1> QED BY <1>1, InitRouters, PTL DEF Spec

\* Of the balancers of a running router exactly one is fed by the monitors of the
\* router, which App::new registers balancer by balancer (balancer/provider.rs).
THEOREM OneFed == Spec => []OneBalancerFed
<1>1. RoutersInv => OneBalancerFed
  <2> SUFFICES ASSUME RoutersInv, stage = "running", NEW r \in DOMAIN config.routers,
                      BalancersOf(r) # {}
               PROVE  Cardinality({b \in BalancersOf(r) : Fed(b)}) = 1
    BY DEF OneBalancerFed
  <2>1. Progress /\ waiting = {} /\ todo = {}
    BY DEF RoutersInv, Progress
  <2>2. r \in DOMAIN healthMonitors
    BY <2>1 DEF Progress
  <2> DEFINE h == healthMonitors[r]
  <2>3. h \in BalancersOf(r) /\ h[1] = r
    BY <2>2, Names DEF RoutersInv, OwnEntries
  <2>4. sender[h] = h
    BY <2>1, <2>2 DEF Progress, RoutersInv, OwnSenders
  <2>5. Fed(h)
    <3>1. CASE rateMonitors = healthMonitors /\ receivers = healthMonitors
      BY <3>1, <2>2, <2>3, <2>4 DEF Fed
    <3>2. CASE tasks = {[from |-> healthMonitors[x], to |-> healthMonitors[x]] :
                           x \in DOMAIN healthMonitors}
      <4>1. [from |-> h, to |-> h] \in tasks
        BY <3>2, <2>2
      <4> QED BY <4>1, <2>3, <2>4 DEF Fed
    <3> QED BY <3>1, <3>2 DEF RoutersInv, Agree
  <2>6. \A b \in BalancersOf(r) : Fed(b) => b = h
    BY Names DEF Fed
  <2>7. {b \in BalancersOf(r) : Fed(b)} = {h}
    BY <2>3, <2>5, <2>6
  <2> HIDE DEF h
  <2> QED BY <2>7, FS_Singleton
<1> QED BY <1>1, RoutersInvariant, PTL

-----------------------------------------------------------------------------
\* All the endpoint types of a running router have one strategy: a mixed router
\* fails to build its weighted balancer.
LEMMA BuiltRouter ==
    ASSUME RoutersInv, stage = "running", NEW r \in DOMAIN healthMonitors
    PROVE  /\ r \in DOMAIN config.routers /\ healthMonitors[r] \in BalancersOf(r)
           /\ OneStrategy(healthMonitors[r]) /\ CanDispatch(r)
<1>1. Progress /\ waiting = {} /\ todo = {}
  BY DEF RoutersInv, Progress
<1> DEFINE h == healthMonitors[r]
<1>2. /\ r \in DOMAIN config.routers /\ h \in BalancersOf(r)
      /\ h[1] = r /\ h[2] \in DOMAIN Balance(r)
  BY Names DEF RoutersInv, OwnEntries
<1>3. \A t \in DOMAIN Balance(r) : CanDiscover(<<r, t>>)
  <2> SUFFICES ASSUME NEW t \in DOMAIN Balance(r) PROVE CanDiscover(<<r, t>>)
    OBVIOUS
  <2>1. <<r, t>> \in BalancersOf(r)
    BY DEF BalancersOf
  <2>2. <<r, t>> \in DOMAIN sender
    BY <1>1, <1>2, <2>1 DEF Progress
  <2> QED BY <2>2 DEF RoutersInv, OwnSenders
<1>4. \A t \in DOMAIN Balance(r) : Balance(r)[t].strategy \in {"latency", "weighted"}
  BY <1>2, ConfigShapes DEF RoutersInv, Balance
<1>5. \A t, u \in DOMAIN Balance(r) :
          Balance(r)[t].strategy = "weighted" => Balance(r)[u].strategy = "weighted"
  BY <1>3 DEF CanDiscover, OneStrategy
<1>6. OneStrategy(h)
  BY <1>2, <1>4, <1>5 DEF OneStrategy
<1>7. HasClients(r)
  BY <1>1, <1>2 DEF Progress, RoutersInv, OwnSenders
<1> QED BY <1>2, <1>6, <1>7 DEF CanDispatch, RoutersInv, Agree

\* The monitors of a running gateway find what they look up, build and expect, so
\* none of them ends it while no balancer has failed and every provider of a router
\* is one of its served types too (monitor/health/provider.rs, monitor/rate_limit).
THEOREM MonitorsStayUp == Spec => StaysUp
<1> DEFINE P == \A r \in DOMAIN config.routers : KeysForAllServed(r)
<1>1. ASSUME RoutersInv, [Next]_vars, stage = "running", failed = {}, P
      PROVE  stage' = "running"
  <2>0. CASE UNCHANGED vars
    BY <1>1, <2>0 DEF vars
  <2>1. CASE Validate \/ NewProxies \/ \E r \in AllRouters : NewRouter(r) \/ NewRouterProxy(r)
    BY <1>1, <2>1, BuildStep
  <2>2. CASE \E b \in AllBalancers : NewBalancer(b)
    BY <1>1, <2>2, BalancerStep
  <2>3. CASE RateTick
    BY <1>1, <2>3, RateTickStep
  <2>4. CASE HealthTick \/ RoundOver \/ \E r \in AllRouters : Send(r)
    BY <1>1, <2>4 DEF HealthTick, RoundOver, Send
  <2>5. CASE \E b \in AllBalancers : Drain(b) \/ Fail(b)
    BY <1>1, <2>5 DEF Drain, Fail
  <2>6. ASSUME NEW r \in AllRouters, NEW change \in {"none", "remove", "insert"}, Check(r, change)
        PROVE  stage' = "running"
    <3>1. r \in DOMAIN healthMonitors
      BY <1>1, <2>6 DEF Check, RoutersInv
    <3> QED BY <1>1, <2>6, <3>1, BuiltRouter DEF Check
  <2>7. ASSUME NEW k \in tasks, NEW p \in {key.provider : key \in KeysOf(k.to[1])},
               NEW change \in {"remove", "insert"}, Limit(k, p, change)
        PROVE  stage' = "running"
    <3>1. tasks = {[from |-> healthMonitors[r], to |-> healthMonitors[r]] :
                      r \in DOMAIN healthMonitors}
      BY <1>1 DEF RoutersInv, Agree
    <3>2. PICK r \in DOMAIN healthMonitors : k = [from |-> healthMonitors[r], to |-> healthMonitors[r]]
      BY <3>1
    <3> DEFINE h == healthMonitors[r]
    <3>3. /\ r \in DOMAIN config.routers /\ h \in BalancersOf(r) /\ CanDispatch(r)
          /\ k.from = h /\ k.to = h
      BY <1>1, <3>2, BuiltRouter
    <3>4. h[1] = r /\ h[2] \in DOMAIN Balance(r)
      BY <3>3, Names
    <3>5. h[2] \in Served
      BY <2>7, <3>3 DEF Limit
    <3>6. HasKey(h, p, h[2])
      <4>1. PICK key \in KeysOf(r) : p = key.provider
        BY <3>3, <3>4
      <4>2. [key EXCEPT !.type = h[2]] \in KeysOf(r)
        BY <1>1, <3>3, <3>4, <3>5 DEF KeysForAllServed
      <4>3. key = [provider |-> p, type |-> key.type]
        BY <4>1 DEF KeysOf
      <4>4. [key EXCEPT !.type = h[2]] = [provider |-> p, type |-> h[2]]
        BY <4>3
      <4>5. p \in Balance(r)[h[2]].providers
        <5>1. PICK t \in DOMAIN Balance(r) : \E q \in Balance(r)[t].providers :
                  [provider |-> p, type |-> h[2]] = [provider |-> q, type |-> t]
          BY <4>2, <4>4 DEF KeysOf
        <5> QED BY <5>1
      <4> QED BY <4>5, <3>4 DEF HasKey
    <3> HIDE DEF h
    <3>7. IF change = "remove" THEN HasKey(k.to, p, k.from[2])
                               ELSE CanDispatch(k.to[1]) /\ k.to \notin failed
      BY <1>1, <3>3, <3>4, <3>6
    <3> QED BY <1>1, <2>7, <3>7 DEF Limit
  <2> QED BY <1>1, <2>0, <2>1, <2>2, <2>3, <2>4, <2>5, <2>6, <2>7 DEF Next
<1>2. RoutersInv /\ [Next]_vars => [stage = "running" /\ failed = {} /\ P => stage' = "running"]_stage
  BY <1>1
<1>3. StaysUp <=> [][stage = "running" /\ failed = {} /\ P => stage' = "running"]_stage
  BY DEF StaysUp
<1> HIDE DEF P
<1> QED BY <1>2, <1>3, RoutersInvariant, PTL DEF Spec
=============================================================================
