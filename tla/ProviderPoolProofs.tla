------------------------- MODULE ProviderPoolProofs -------------------------
(***************************************************************************)
(* The safety of the provider pool, for every set of providers and clients *)
(* and every channel capacity, threshold and wait; and, in the second half,*)
(* of the rolling counters its health monitor decides by, for every number *)
(* of tasks, buckets and laps.                                             *)
(***************************************************************************)
EXTENDS ProviderPool, RollingCounter, FiniteSetTheorems, WellFoundedInduction, TLAPS

\* The wait before a restore is a natural number whatever the header said.
LEMMA RestoreWaitNat ==
    \A r \in RetryAfters : RestoreWait(r) \in Nat
  BY PoolConstants DEF RestoreWait, NoRetryAfter

\* The balancer starts with every provider among its initial inserts.
LEMMA InitPool == Init => PoolInv
<1> SUFFICES ASSUME Init PROVE PoolInv
  OBVIOUS
<1>1. TypeOK
  BY PoolConstants DEF Init, TypeOK, AtMostOne, IdleReq, Request, NoTimer
<1>2. WorkerHasRequest /\ SendsMatchTimers
  BY DEF Init, WorkerHasRequest, SendsMatchTimers
<1>3. OneRestorePerLimit
  BY DEF Init, OneRestorePerLimit, RestoreScheduled
<1>4. NoLostProvider
  BY DEF Init, NoLostProvider, Absent, Changes
<1> QED BY <1>1, <1>2, <1>3, <1>4 DEF PoolInv

\* Every action keeps the state well typed and the channels within bounds.
LEMMA TypeStep == PoolInv /\ [Next]_vars => TypeOK'
<1> SUFFICES ASSUME PoolInv, [Next]_vars PROVE TypeOK'
  OBVIOUS
<1> USE PoolConstants DEF PoolInv, TypeOK, AtMostOne
<1> USE DEF counts, health, limits, balance
<1>1. ASSUME NEW p \in Providers,
             ReqLap(p) \/ ErrLap(p) \/ ForeignRequest(p) \/ ForeignError(p)
      PROVE  TypeOK'
  <2>1. CASE ReqLap(p)
    BY <2>1 DEF ReqLap
  <2>2. CASE ErrLap(p)
    BY <2>2 DEF ErrLap
  <2>3. CASE ForeignRequest(p)
    BY <2>3, SMTT(30) DEF ForeignRequest
  <2>4. CASE ForeignError(p)
    BY <2>4, SMTT(30) DEF ForeignError
  <2> QED BY <1>1, <2>1, <2>2, <2>3, <2>4
<1>2. CASE StartRound
  BY <1>2 DEF StartRound
<1>3. CASE HealthSend
  BY <1>3 DEF HealthSend, Change
<1>4. ASSUME NEW p \in Providers, CheckProvider(p) PROVE TypeOK'
  BY <1>4 DEF CheckProvider, Change
<1>5. CASE LimitEvent
  <2>1. Head(rlq) \in Event /\ Tail(rlq) \in Seq(Event) /\ Len(Tail(rlq)) <= RateCap
    BY <1>5 DEF LimitEvent
  <2>2. RestoreWait(Head(rlq).retry) \in Nat
    BY <2>1, RestoreWaitNat DEF Event
  <2>3. rlSend' \subseteq RlSend /\ AtMostOne(rlSend')
    BY <1>5, <2>1, <2>2 DEF LimitEvent, Event, RlSend
  <2> QED BY <1>5, <2>1, <2>3 DEF LimitEvent
<1>6. CASE LimitSendRemove
  BY <1>6 DEF LimitSendRemove, RlSend, Change
<1>7. CASE LimitSendInsert
  <2>1. PICK s \in rlSend : chan' = Append(chan, [op |-> "insert", key |-> s.key])
                           /\ limited' = limited \ {s.key}
    BY <1>7 DEF LimitSendInsert
  <2>2. [op |-> "insert", key |-> s.key] \in Change
    BY DEF RlSend, Change
  <2>3. chan' \in Seq(Change) /\ Len(chan') <= ChanCap
    BY <1>7, <2>1, <2>2 DEF LimitSendInsert
  <2> QED BY <1>7, <2>1, <2>3 DEF LimitSendInsert
<1>8. ASSUME NEW p \in Providers, RestoreDue(p) PROVE TypeOK'
  BY <1>8 DEF RestoreDue, RlSend, NoTimer
<1>9. CASE Tick
  BY <1>9 DEF Tick, NoTimer
<1>10. CASE TakeRequest \/ DiscoverPending
  BY <1>10 DEF TakeRequest, DiscoverPending
<1>11. CASE Discover
  <2>1. CASE initial # {}
    BY <1>11, <2>1 DEF Discover
  <2>2. CASE initial = {}
    <3>0. chan # <<>>
      BY <1>11, <2>2 DEF Discover
    <3>1. Tail(chan) \in Seq(Change) /\ Len(Tail(chan)) <= ChanCap
      BY <3>0
    <3>a. Head(chan) \in Change
      BY <3>0
    <3>2. Head(chan).key \in Providers
      BY <3>a DEF Change
    <3> QED BY <1>11, <2>2, <3>1, <3>2 DEF Discover
  <2> QED BY <2>1, <2>2
<1>12. ASSUME NEW p \in Providers, Pick(p) PROVE TypeOK'
  <2>1. bufq # <<>>
    BY <1>12 DEF Pick, WorkerHasRequest
  <2>2. Head(bufq) \in Clients /\ Tail(bufq) \in Seq(Clients)
    BY <2>1
  <2>3. [st |-> "sent", to |-> p] \in Request
    BY DEF Request
  <2>4. req' \in [Clients -> Request]
    BY <1>12, <2>2, <2>3 DEF Pick
  <2>5. bufq' \in Seq(Clients) /\ worker' \in {"idle", "drain", "pick"}
    BY <1>12, <2>2 DEF Pick
  <2> QED BY <1>12, <2>4, <2>5 DEF Pick
<1>13. ASSUME NEW c \in Clients,
              CountRequest(c) \/ RespondUncounted(c) \/ RespondServerError(c)
                \/ Disconnect(c) \/ Submit(c)
       PROVE  TypeOK'
  <2>0. IdleReq \in Request /\ [st |-> "queued"] \in Request
    BY DEF IdleReq, Request
  <2>1. CASE CountRequest(c)
    <3>1. req[c].to \in Providers
      BY <2>1 DEF CountRequest, Request
    <3>2. [st |-> "await", to |-> req[c].to] \in Request
      BY <3>1 DEF Request
    <3>a. PICK p \in Providers : p = req[c].to
      BY <3>1
    <3>b. reqs[p] < MaxCount /\ reqs' = [reqs EXCEPT ![p] = reqs[p] + 1]
      BY <2>1, <3>a DEF CountRequest
    <3>3. reqs' \in [Providers -> 0..MaxCount]
      BY <3>b
    <3>4. req' \in [Clients -> Request]
      BY <2>1, <3>2 DEF CountRequest
    <3> QED BY <2>1, <3>3, <3>4 DEF CountRequest
  <2>2. CASE RespondUncounted(c) \/ Disconnect(c)
    BY <2>0, <2>2 DEF RespondUncounted, Disconnect
  <2>3. CASE RespondServerError(c)
    <3>1. PICK p \in Providers : p = req[c].to
      BY <2>3 DEF RespondServerError, Request
    <3>2. errs[p] < MaxCount /\ errs' = [errs EXCEPT ![p] = errs[p] + 1]
      BY <2>3, <3>1 DEF RespondServerError
    <3>3. errs' \in [Providers -> 0..MaxCount]
      BY <3>2
    <3>4. req' \in [Clients -> Request]
      BY <2>0, <2>3 DEF RespondServerError
    <3> QED BY <2>3, <3>3, <3>4 DEF RespondServerError
  <2>4. CASE Submit(c)
    BY <2>0, <2>4 DEF Submit
  <2> QED BY <1>13, <2>1, <2>2, <2>3, <2>4
<1>14. ASSUME NEW c \in Clients, NEW s \in BOOLEAN, NEW r \in RetryAfters,
              RespondRateLimited(c, s, r)
       PROVE  TypeOK'
  BY <1>14 DEF RespondRateLimited, Request, IdleReq
<1>15. ASSUME NEW c \in Clients, SignalRateLimit(c) PROVE TypeOK'
  <2>1. [key |-> req[c].to, retry |-> req[c].retry] \in Event
    BY <1>15 DEF SignalRateLimit, Request, Event
  <2>2. rlq' \in Seq(Event) /\ Len(rlq') <= RateCap
    BY <1>15, <2>1 DEF SignalRateLimit
  <2>3. IdleReq \in Request
    BY DEF IdleReq, Request
  <2> QED BY <1>15, <2>2, <2>3 DEF SignalRateLimit
<1>16. CASE UNCHANGED vars
  BY <1>16 DEF vars
<1> QED BY <1>1, <1>2, <1>3, <1>4, <1>5, <1>6, <1>7, <1>8, <1>9, <1>10, <1>11,
           <1>12, <1>13, <1>14, <1>15, <1>16
        DEF Next, Counters, HealthMonitor, RateLimitMonitor, Balancer, Dispatch

-----------------------------------------------------------------------------
\* How a step moves Absent: a change appended to the channel decides for its
\* own key and leaves the others alone.
LEMMA AbsentAppend ==
    ASSUME TypeOK, NEW ch \in Change, chan' = Append(chan, ch),
           UNCHANGED <<pool, initial>>, NEW p \in Providers, Absent(p)'
    PROVE  IF ch.key = p THEN ch.op = "remove" ELSE Absent(p)
<1> DEFINE n == Len(chan)
<1>1. /\ chan \in Seq(Change) /\ n \in Nat /\ Len(chan') = n + 1
      /\ \A i \in 1..n : chan'[i] = chan[i]
      /\ chan'[n + 1] = ch
  BY DEF TypeOK
<1>2. CASE ch.key = p
  <2>1. n + 1 \in Changes(p)' /\ \A j \in Changes(p)' : j <= n + 1
    BY <1>1, <1>2 DEF Changes
  <2>2. Changes(p)' # {} /\ Changes(p)' \subseteq Nat
    BY <1>1, <2>1 DEF Changes
  <2>3. PICK i \in Changes(p)' : chan'[i].op = "remove" /\ \A j \in Changes(p)' : j <= i
    BY <2>2 DEF Absent
  <2>4. i = n + 1
    BY <1>1, <2>1, <2>2, <2>3
  <2> QED BY <1>1, <1>2, <2>3, <2>4
<1>3. CASE ch.key # p
  <2>1. Changes(p)' = Changes(p)
    BY <1>1, <1>3 DEF Changes
  <2>2. \A i \in Changes(p) : chan'[i] = chan[i]
    BY <1>1 DEF Changes
  <2> QED BY <1>3, <2>1, <2>2 DEF Absent
<1> QED BY <1>2, <1>3

\* The balancer applying an initial insert or the head of the channel changes
\* nothing in what the pool will be once everything is applied.
LEMMA AbsentDiscover ==
    ASSUME TypeOK, Discover, NEW p \in Providers, Absent(p)'
    PROVE  Absent(p)
<1>1. CASE initial # {}
  <2>1. chan' = chan /\ (pool \cup initial) = (pool \cup initial)'
    BY <1>1 DEF Discover
  <2> QED BY <2>1 DEF Absent, Changes
<1>2. CASE initial = {}
  <2> DEFINE n == Len(chan)
  <2>1. /\ chan # <<>> /\ chan' = Tail(chan) /\ initial' = {}
        /\ pool' = IF Head(chan).op = "insert" THEN pool \cup {Head(chan).key}
                                               ELSE pool \ {Head(chan).key}
    BY <1>2 DEF Discover
  <2>2. /\ n \in Nat \ {0} /\ Len(chan') = n - 1 /\ Head(chan) = chan[1]
        /\ \A i \in 1..(n - 1) : chan'[i] = chan[i + 1]
    BY <2>1 DEF TypeOK
  <2>a. chan[1] \in Change
    BY <2>2 DEF TypeOK
  <2>h. chan[1].op \in {"insert", "remove"}
    BY <2>a DEF Change
  <2>3. CASE Changes(p)' # {}
    <3>1. PICK i \in Changes(p)' : chan'[i].op = "remove" /\ \A j \in Changes(p)' : j <= i
      BY <2>3 DEF Absent
    <3>2. i + 1 \in Changes(p) /\ chan[i + 1].op = "remove"
      BY <2>2, <3>1 DEF Changes
    <3>3. \A j \in Changes(p) : j <= i + 1
      <4>1. TAKE j \in Changes(p)
      <4>2. j \in 1..n /\ i \in 1..(n - 1)
        BY <2>2 DEF Changes
      <4>3. j = 1 \/ (j - 1) \in Changes(p)'
        BY <2>2, <4>2 DEF Changes
      <4> QED BY <3>1, <4>2, <4>3
    <3> QED BY <3>2, <3>3 DEF Absent
  <2>4. CASE Changes(p)' = {}
    <3>1. \A j \in Changes(p) : j = 1
      <4>1. TAKE j \in Changes(p)
      <4>2. j \in 1..n
        BY DEF Changes
      <4>3. j # 1 => (j - 1) \in Changes(p)'
        BY <2>2, <4>2 DEF Changes
      <4> QED BY <2>4, <4>3
    <3>2. p \notin pool'
      BY <2>4, <2>1 DEF Absent
    <3>3. CASE chan[1].key = p
      <4>1. 1 \in Changes(p)
        BY <2>2, <3>3 DEF Changes
      <4>2. chan[1].op = "remove"
        BY <2>1, <2>2, <2>h, <3>2, <3>3
      <4> QED BY <3>1, <4>1, <4>2 DEF Absent
    <3>4. CASE chan[1].key # p
      <4>1. Changes(p) = {}
        BY <3>1, <3>4 DEF Changes
      <4>2. p \notin pool
        BY <2>1, <2>2, <3>2, <3>4
      <4> QED BY <1>2, <4>1, <4>2 DEF Absent
    <3> QED BY <3>3, <3>4
  <2> QED BY <2>3, <2>4
<1> QED BY <1>1, <1>2

-----------------------------------------------------------------------------
\* The Buffer worker never polls the balancer without a request in hand.
LEMMA WorkerStep == PoolInv /\ [Next]_vars => WorkerHasRequest'
<1> SUFFICES ASSUME PoolInv, [Next]_vars PROVE WorkerHasRequest'
  OBVIOUS
<1> USE DEF PoolInv, WorkerHasRequest, balance
<1>1. CASE Balancer
  BY <1>1 DEF Balancer, TakeRequest, Discover, DiscoverPending, Pick
<1>2. ASSUME NEW c \in Clients, Submit(c) PROVE WorkerHasRequest'
  <2>1. bufq \in Seq(Clients) /\ bufq' = Append(bufq, c)
    BY <1>2 DEF Submit, TypeOK
  <2> QED BY <2>1
<1>3. CASE UNCHANGED balance
  BY <1>3
<1>4. Counters \/ HealthMonitor \/ RateLimitMonitor \/ Tick \/ Dispatch
        => UNCHANGED balance
  BY DEF Counters, HealthMonitor, RateLimitMonitor, Dispatch, Tick,
         ReqLap, ErrLap, ForeignRequest, ForeignError,
         StartRound, HealthSend, CheckProvider,
         LimitEvent, LimitSendRemove, LimitSendInsert, RestoreDue,
         CountRequest, RespondUncounted, RespondServerError,
         RespondRateLimited, SignalRateLimit, Disconnect
<1> QED BY <1>1, <1>2, <1>3, <1>4 DEF Next, vars

\* Steps that leave the rate limit monitor's own state alone
LEMMA LimitsFrame ==
    Counters \/ HealthMonitor \/ Balancer \/ Dispatch \/ (\E c \in Clients : Submit(c))
       \/ UNCHANGED vars
    => UNCHANGED limits
  BY DEF Counters, HealthMonitor, Balancer, Dispatch, Submit, vars,
         ReqLap, ErrLap, ForeignRequest, ForeignError,
         StartRound, HealthSend, CheckProvider,
         TakeRequest, Discover, DiscoverPending, Pick,
         CountRequest, RespondUncounted, RespondServerError,
         RespondRateLimited, SignalRateLimit, Disconnect

\* The rate limit monitor's set, timers and pending send stay in agreement.
LEMMA LimitStep ==
    PoolInv /\ [Next]_vars => SendsMatchTimers' /\ OneRestorePerLimit'
<1> SUFFICES ASSUME PoolInv, [Next]_vars
             PROVE  SendsMatchTimers' /\ OneRestorePerLimit'
  OBVIOUS
<1> USE DEF PoolInv, SendsMatchTimers, OneRestorePerLimit, RestoreScheduled
<1>1. /\ timer \in [Providers -> Nat \cup {NoTimer}] /\ limited \subseteq Providers
      /\ rlSend \subseteq RlSend /\ AtMostOne(rlSend)
  BY DEF TypeOK
<1>2. CASE UNCHANGED limits
  BY <1>2 DEF limits
<1>3. CASE LimitEvent
  BY <1>1, <1>3 DEF LimitEvent
<1>4. CASE LimitSendRemove
  <2>1. PICK s \in rlSend : /\ s.op = "remove"
                            /\ timer' = [timer EXCEPT ![s.key] = s.wait]
                            /\ limited' = limited \cup {s.key}
    BY <1>4 DEF LimitSendRemove
  <2>2. s.key \in Providers /\ s.wait # NoTimer
    BY <1>1 DEF RlSend, NoTimer
  <2>3. \A t \in rlSend : t.op # "insert"
    BY <1>1, <2>1 DEF AtMostOne
  <2>4. rlSend' = {}
    BY <1>4 DEF LimitSendRemove
  <2> QED BY <1>1, <2>1, <2>2, <2>3, <2>4
<1>5. CASE LimitSendInsert
  <2>1. PICK s \in rlSend : s.op = "insert" /\ limited' = limited \ {s.key}
    BY <1>5 DEF LimitSendInsert
  <2>2. rlSend' = {} /\ timer' = timer /\ timer[s.key] = NoTimer
    BY <1>5, <2>1 DEF LimitSendInsert
  <2>3. \A t \in rlSend : t = s
    BY <1>1, <2>1 DEF AtMostOne
  <2> QED BY <1>1, <2>1, <2>2, <2>3
<1>6. ASSUME NEW p \in Providers, RestoreDue(p)
      PROVE  SendsMatchTimers' /\ OneRestorePerLimit'
  <2>1. /\ timer[p] # NoTimer /\ rlSend = {}
        /\ timer' = [timer EXCEPT ![p] = NoTimer] /\ limited' = limited
        /\ rlSend' = {[op |-> "insert", key |-> p, wait |-> 0]}
    BY <1>6 DEF RestoreDue, NoTimer
  <2> QED BY <1>1, <2>1
<1>7. CASE Tick
  <2>1. /\ rlSend' = rlSend /\ limited' = limited
        /\ \A p \in Providers : timer'[p] = NoTimer <=> timer[p] = NoTimer
    BY <1>1, <1>7 DEF Tick, NoTimer
  <2>2. \A s \in rlSend : s.key \in Providers
    BY <1>1 DEF RlSend
  <2> QED BY <2>1, <2>2
<1> QED BY <1>2, <1>3, <1>4, <1>5, <1>6, <1>7, LimitsFrame
        DEF Next, RateLimitMonitor

\* Steps that touch neither the channel nor the balancer's services
LEMMA ChannelFrame ==
    Counters \/ LimitEvent \/ Tick \/ Dispatch \/ (\E c \in Clients : Submit(c))
       \/ StartRound \/ (\E p \in Providers : CheckProvider(p) \/ RestoreDue(p) \/ Pick(p))
       \/ TakeRequest \/ DiscoverPending \/ UNCHANGED vars
    => UNCHANGED <<chan, pool, initial>>
  BY DEF Counters, LimitEvent, Tick, Dispatch, Submit, StartRound, CheckProvider,
         RestoreDue, Pick, TakeRequest, DiscoverPending, vars, balance,
         ReqLap, ErrLap, ForeignRequest, ForeignError,
         CountRequest, RespondUncounted, RespondServerError,
         RespondRateLimited, SignalRateLimit, Disconnect

\* No step loses a provider.  By LimitStep it is enough that somebody still
\* answers for it; the argument then follows the channel.
LEMMA NoLostStep == PoolInv /\ [Next]_vars => NoLostProvider'
<1> DEFINE HmIns(p) == \E ch \in hmSend : ch.op = "insert" /\ ch.key = p
           Held(p) == p \in unhealthy \/ HmIns(p) \/ p \in limited
<1> SUFFICES ASSUME PoolInv, [Next]_vars, NEW p \in Providers, Absent(p)'
             PROVE  Held(p)'
  BY LimitStep DEF NoLostProvider, OneRestorePerLimit
<1>a. Absent(p) => Held(p)
  BY DEF PoolInv, NoLostProvider
<1>t. TypeOK
  BY DEF PoolInv
<1>f. UNCHANGED <<chan, pool, initial>> => Absent(p)
  BY DEF Absent, Changes
<1>1. CASE /\ \/ Counters \/ Dispatch \/ (\E c \in Clients : Submit(c)) \/ StartRound
              \/ (\E q \in Providers : Pick(q)) \/ TakeRequest \/ DiscoverPending
              \/ LimitEvent \/ Tick \/ (\E q \in Providers : RestoreDue(q))
              \/ UNCHANGED vars
  <2>1. UNCHANGED <<unhealthy, hmSend, limited>>
    BY <1>1 DEF Counters, Dispatch, Submit, StartRound, Pick, TakeRequest, DiscoverPending,
         LimitEvent, Tick, RestoreDue, vars, health, limits,
         ReqLap, ErrLap, ForeignRequest, ForeignError,
         CountRequest, RespondUncounted, RespondServerError,
         RespondRateLimited, SignalRateLimit, Disconnect
  <2>2. Absent(p)
    BY <1>1, <1>f, ChannelFrame
  <2> QED BY <1>a, <2>1, <2>2
<1>2. ASSUME NEW q \in Providers, CheckProvider(q) PROVE Held(p)'
  <2>1. Absent(p)
    BY <1>2, <1>f, ChannelFrame
  <2>2. limited' = limited /\ hmSend = {}
    BY <1>2 DEF CheckProvider, limits
  <2>3. \/ unhealthy' = unhealthy
        \/ unhealthy' = unhealthy \ {q} /\ hmSend' = {[op |-> "insert", key |-> q]}
    BY <1>2 DEF CheckProvider
  <2>4. p \in unhealthy \/ p \in limited
    BY <1>a, <2>1, <2>2
  <2>5. CASE unhealthy' = unhealthy
    BY <2>2, <2>4, <2>5
  <2>6. CASE unhealthy' = unhealthy \ {q} /\ hmSend' = {[op |-> "insert", key |-> q]}
    <3>1. \E ch \in hmSend' : ch.op = "insert" /\ ch.key = q
      BY <2>6
    <3>2. p = q => HmIns(p)'
      BY <3>1
    <3> QED BY <2>2, <2>4, <2>6, <3>2
  <2> QED BY <2>3, <2>5, <2>6
<1>3. CASE Discover
  <2>1. Absent(p)
    BY <1>3, <1>t, AbsentDiscover
  <2>2. UNCHANGED <<unhealthy, hmSend, limited>>
    BY <1>3 DEF Discover, health, limits
  <2> QED BY <1>a, <2>1, <2>2
<1>4. CASE HealthSend
  <2>1. PICK ch \in hmSend :
          /\ chan' = Append(chan, ch)
          /\ unhealthy' = IF ch.op = "remove" THEN unhealthy \cup {ch.key} ELSE unhealthy
    BY <1>4 DEF HealthSend
  <2>2. ch \in Change /\ \A d \in hmSend : d = ch
    BY <1>t, <2>1 DEF TypeOK, AtMostOne
  <2>3. UNCHANGED <<pool, initial>> /\ limited' = limited
    BY <1>4 DEF HealthSend, balance, limits
  <2>4. IF ch.key = p THEN ch.op = "remove" ELSE Absent(p)
    BY <1>t, <2>1, <2>2, <2>3, AbsentAppend
  <2> QED BY <1>a, <2>1, <2>2, <2>3, <2>4
<1>5. CASE LimitSendRemove
  <2>1. PICK s \in rlSend : /\ chan' = Append(chan, [op |-> "remove", key |-> s.key])
                            /\ limited' = limited \cup {s.key}
    BY <1>5 DEF LimitSendRemove
  <2>2. [op |-> "remove", key |-> s.key] \in Change
    BY <1>t DEF TypeOK, RlSend, Change
  <2>3. UNCHANGED <<pool, initial, unhealthy, hmSend>>
    BY <1>5 DEF LimitSendRemove, balance, health
  <2>4. s.key = p \/ Absent(p)
    BY <1>t, <2>1, <2>2, <2>3, AbsentAppend
  <2> QED BY <1>a, <2>1, <2>3, <2>4
<1>6. CASE LimitSendInsert
  <2>1. PICK s \in rlSend : /\ chan' = Append(chan, [op |-> "insert", key |-> s.key])
                            /\ limited' = limited \ {s.key}
    BY <1>6 DEF LimitSendInsert
  <2>2. [op |-> "insert", key |-> s.key] \in Change
    BY <1>t DEF TypeOK, RlSend, Change
  <2>3. UNCHANGED <<pool, initial, unhealthy, hmSend>>
    BY <1>6 DEF LimitSendInsert, balance, health
  <2>4. s.key # p /\ Absent(p)
    BY <1>t, <2>1, <2>2, <2>3, AbsentAppend
  <2> QED BY <1>a, <2>1, <2>3, <2>4
<1> QED BY <1>1, <1>2, <1>3, <1>4, <1>5, <1>6
        DEF Next, HealthMonitor, RateLimitMonitor, Balancer

\* PoolInv is inductive.
THEOREM PoolInvariant == Spec => []PoolInv
<1>1. PoolInv /\ [Next]_vars => PoolInv'
  BY TypeStep, WorkerStep, LimitStep, NoLostStep DEF PoolInv
<1> QED BY <1>1, InitPool, PTL DEF Spec

\* The state stays well typed: in particular neither channel ever holds more
\* than its capacity.
THEOREM PoolTypeCorrect == Spec => []TypeOK
  BY PoolInvariant, PTL DEF PoolInv

\* For any number of providers, any capacity and any timing, a provider taken
\* out of the pool by either monitor has a monitor that will bring it back.
THEOREM PoolLosesNoProvider == Spec => []NoLostProvider
  BY PoolInvariant, PTL DEF PoolInv

\* The rate limit monitor's set and its pending restores never disagree.
THEOREM PoolRestoresLimited == Spec => []OneRestorePerLimit
  BY PoolInvariant, PTL DEF PoolInv

-----------------------------------------------------------------------------
(***************************************************************************)
(* Sums.  The sum of a function over a finite set is a fold that takes the *)
(* elements in an order CHOOSE fixes.  A set of numbers that holds 0 and   *)
(* the successor of each of its elements holds them all, since < is well   *)
(* founded; so the table that the fold is defined by exists, and the sum   *)
(* does not depend on the order.                                           *)
(***************************************************************************)

\* A set of natural numbers has a least element.
LEMMA NatLeast ==
    ASSUME NEW T, T \subseteq Nat, T # {}
    PROVE  \E n \in T : \A m \in T : n <= m
<1> DEFINE R == OpToRel(<, Nat)
<1>1. IsWellFoundedOn(R, Nat)
  BY NatLessThanWellFounded
<1>2. \A m, n \in Nat : m < n => <<m, n>> \in R
  BY DEF OpToRel
<1> HIDE DEF R
<1>3. PICK n \in T : \A m \in T : <<m, n>> \notin R
  BY <1>1, WFMin
<1>4. ASSUME NEW m \in T PROVE n <= m
  <2>1. m \in Nat /\ n \in Nat
    OBVIOUS
  <2>2. ~(m < n)
    BY <2>1, <1>2, <1>3
  <2> QED BY <2>1, <2>2
<1> QED BY <1>4

\* Induction, for sets of numbers.
LEMMA Induct ==
    ASSUME NEW T, 0 \in T, \A n \in Nat : n \in T => n + 1 \in T
    PROVE  \A n \in Nat : n \in T
<1> DEFINE B == Nat \ T
<1> SUFFICES ASSUME B # {} PROVE FALSE
  OBVIOUS
<1>1. PICK n \in B : \A m \in B : n <= m
  BY NatLeast
<1>2. n - 1 \in Nat /\ n - 1 \notin B
  BY <1>1
<1>3. n - 1 \in T /\ (n - 1) + 1 = n
  BY <1>2
<1>4. n \in T
  BY <1>2, <1>3
<1> QED BY <1>4

\* The element a sum takes first, and one line of its table.
Any(s) == CHOOSE x \in s : TRUE
Up(f, it, s) == IF s = {} THEN 0 ELSE f[Any(s)] + it[s \ {Any(s)}]
TableOf(f, it, S) == it = [s \in SUBSET S |-> Up(f, it, s)]

LEMMA SumIs ==
    ASSUME NEW f, NEW S
    PROVE  SumFunctionOnSet(f, S) = (CHOOSE it : TableOf(f, it, S))[S]
BY DEF SumFunctionOnSet, FoldFunctionOnSet, MapThenFoldSet, TableOf, Up, Any


\* The subsets of S with at most n elements
Below(S, n) == {s \in SUBSET S : Cardinality(s) <= n}

LEMMA AnyIn == ASSUME NEW s, s # {} PROVE Any(s) \in s
BY DEF Any

LEMMA OneLess ==
    ASSUME NEW S, IsFiniteSet(S), NEW s \in SUBSET S, NEW x \in s
    PROVE  /\ IsFiniteSet(s) /\ Cardinality(s) \in Nat \ {0} /\ s \ {x} \in SUBSET S
           /\ IsFiniteSet(s \ {x}) /\ Cardinality(s \ {x}) = Cardinality(s) - 1
<1>1. IsFiniteSet(s)
  BY FS_Subset
<1>2. Cardinality(s) \in Nat /\ Cardinality(s) # 0
  BY <1>1, FS_CardinalityType, FS_EmptySet
<1> QED BY <1>1, <1>2, FS_RemoveElement

\* Induction over the subsets of a finite set
LEMMA SubsetInduct ==
    ASSUME NEW S, IsFiniteSet(S), NEW T, {} \in T,
           \A s \in SUBSET S : s # {} /\ (\A x \in s : s \ {x} \in T) => s \in T
    PROVE  S \in T /\ \A s \in SUBSET S : s \in T
<1> DEFINE N == {n \in Nat : \A s \in SUBSET S : Cardinality(s) = n => s \in T}
<1>1. 0 \in N
  <2>1. ASSUME NEW s \in SUBSET S, Cardinality(s) = 0 PROVE s = {}
    BY <2>1, FS_Subset, FS_EmptySet
  <2> QED BY <2>1
<1>2. ASSUME NEW n \in Nat, n \in N PROVE n + 1 \in N
  <2>1. ASSUME NEW s \in SUBSET S, Cardinality(s) = n + 1 PROVE s \in T
    <3>1. ASSUME NEW x \in s PROVE s \ {x} \in T
      <4>1. s \ {x} \in SUBSET S /\ Cardinality(s \ {x}) = Cardinality(s) - 1
        BY OneLess
      <4>2. Cardinality(s \ {x}) = n
        BY <4>1, <2>1
      <4> QED BY <1>2, <4>1, <4>2
    <3>2. s # {}
      <4>1. Cardinality(s) # 0
        BY <2>1
      <4> QED BY <4>1, FS_EmptySet
    <3> QED BY <3>1, <3>2
  <2> QED BY <2>1
<1> HIDE DEF N
<1>3. \A n \in Nat : n \in N
  BY <1>1, <1>2, Induct
<1>4. ASSUME NEW s \in SUBSET S PROVE s \in T
  <2>1. Cardinality(s) \in Nat
    BY FS_Subset, FS_CardinalityType
  <2> QED BY <2>1, <1>3 DEF N
<1> QED BY <1>4

LEMMA TableExists ==
    ASSUME NEW f, NEW S, IsFiniteSet(S)
    PROVE  \E it : TableOf(f, it, S)
<1> DEFINE T == {n \in Nat : \E it : it = [s \in Below(S, n) |-> Up(f, it, s)]}
<1>1. 0 \in T
  <2> DEFINE it == [s \in Below(S, 0) |-> 0]
  <2>1. ASSUME NEW s \in Below(S, 0) PROVE Up(f, it, s) = 0
    <3>1. IsFiniteSet(s) /\ Cardinality(s) \in Nat /\ Cardinality(s) <= 0
      BY FS_Subset, FS_CardinalityType DEF Below
    <3> QED BY <3>1, FS_EmptySet DEF Up
  <2>2. it = [s \in Below(S, 0) |-> Up(f, it, s)]
    BY <2>1
  <2> QED BY <2>2
<1>2. ASSUME NEW n \in Nat, n \in T PROVE n + 1 \in T
  <2>1. PICK it : it = [s \in Below(S, n) |-> Up(f, it, s)]
    BY <1>2
  <2> DEFINE jt == [s \in Below(S, n + 1) |-> Up(f, it, s)]
  <2>2. ASSUME NEW s \in Below(S, n + 1) PROVE Up(f, it, s) = Up(f, jt, s)
    <3>1. CASE s = {}
      BY <3>1 DEF Up
    <3>2. CASE s # {}
      <4> DEFINE u == s \ {Any(s)}
      <4>1. u \in Below(S, n) /\ u \in Below(S, n + 1)
        BY <3>2, AnyIn, OneLess DEF Below
      <4>2. it[u] = Up(f, it, u) /\ jt[u] = Up(f, it, u)
        BY <2>1, <4>1
      <4> QED BY <3>2, <4>2 DEF Up
    <3> QED BY <3>1, <3>2
  <2>3. jt = [s \in Below(S, n + 1) |-> Up(f, jt, s)]
    BY <2>2
  <2> HIDE DEF jt
  <2>4. \E kt : kt = [s \in Below(S, n + 1) |-> Up(f, kt, s)]
    BY <2>3
  <2> QED BY <2>4
<1> HIDE DEF T
<1>3. Cardinality(S) \in T
  BY <1>1, <1>2, Induct, FS_CardinalityType
<1>4. ASSUME NEW s \in SUBSET S PROVE Cardinality(s) <= Cardinality(S)
  BY FS_Subset
<1>5. Below(S, Cardinality(S)) = SUBSET S
  BY <1>4 DEF Below
<1> QED BY <1>3, <1>5 DEF T, TableOf

\* Two tables agree where both are defined.
LEMMA TablesAgree ==
    ASSUME NEW f, NEW S, IsFiniteSet(S), NEW R \in SUBSET S, NEW g, NEW h,
           TableOf(f, g, S), TableOf(f, h, R)
    PROVE  \A s \in SUBSET R : g[s] = h[s]
<1> DEFINE T == {s \in SUBSET R : g[s] = h[s]}
<1>1. IsFiniteSet(R)
  BY FS_Subset
<1>2. ASSUME NEW s \in SUBSET R PROVE g[s] = Up(f, g, s) /\ h[s] = Up(f, h, s)
  BY DEF TableOf
<1>3. {} \in T
  BY <1>2 DEF Up
<1>4. ASSUME NEW s \in SUBSET R, s # {}, \A x \in s : s \ {x} \in T PROVE s \in T
  BY <1>2, <1>4, AnyIn DEF Up
<1> HIDE DEF T
<1>5. \A s \in SUBSET R : s \in T
  BY <1>1, <1>3, <1>4, SubsetInduct
<1> QED BY <1>5 DEF T

LEMMA SumEmpty == ASSUME NEW f PROVE SumFunctionOnSet(f, {}) = 0
<1> DEFINE it == CHOOSE it : TableOf(f, it, {})
<1>1. TableOf(f, it, {})
  BY TableExists, FS_EmptySet
<1>2. it[{}] = 0
  <2> HIDE DEF it
  <2> QED BY <1>1 DEF TableOf, Up
<1> QED BY <1>2, SumIs

LEMMA SumStep ==
    ASSUME NEW f, NEW S, IsFiniteSet(S), S # {}
    PROVE  SumFunctionOnSet(f, S) = f[Any(S)] + SumFunctionOnSet(f, S \ {Any(S)})
<1> DEFINE R == S \ {Any(S)}
           g == CHOOSE it : TableOf(f, it, S)
           h == CHOOSE it : TableOf(f, it, R)
<1>1. IsFiniteSet(R) /\ R \in SUBSET S
  BY AnyIn, OneLess
<1>2. TableOf(f, g, S) /\ TableOf(f, h, R)
  BY <1>1, TableExists
<1>3. SumFunctionOnSet(f, S) = g[S] /\ SumFunctionOnSet(f, R) = h[R]
  BY SumIs
<1> HIDE DEF g, h
<1>4. g[S] = f[Any(S)] + g[R]
  BY <1>2 DEF TableOf, Up
<1>5. g[R] = h[R]
  BY <1>1, <1>2, TablesAgree
<1> QED BY <1>3, <1>4, <1>5

LEMMA SumType ==
    ASSUME NEW f, NEW S, IsFiniteSet(S), \A x \in S : f[x] \in Nat
    PROVE  SumFunctionOnSet(f, S) \in Nat
<1> DEFINE T == {s \in SUBSET S : SumFunctionOnSet(f, s) \in Nat}
<1>1. {} \in T
  BY SumEmpty
<1>2. ASSUME NEW s \in SUBSET S, s # {}, \A x \in s : s \ {x} \in T PROVE s \in T
  <2>1. IsFiniteSet(s) /\ Any(s) \in s
    BY <1>2, FS_Subset, AnyIn
  <2>2. SumFunctionOnSet(f, s) = f[Any(s)] + SumFunctionOnSet(f, s \ {Any(s)})
    BY <1>2, <2>1, SumStep
  <2>3. f[Any(s)] \in Nat /\ SumFunctionOnSet(f, s \ {Any(s)}) \in Nat
    BY <1>2, <2>1
  <2> QED BY <2>2, <2>3
<1> HIDE DEF T
<1>3. S \in T
  BY <1>1, <1>2, SubsetInduct
<1> QED BY <1>3 DEF T

\* Any element may be taken first.
LEMMA SumSplit ==
    ASSUME NEW f, NEW S, IsFiniteSet(S), \A y \in S : f[y] \in Nat, NEW x \in S
    PROVE  SumFunctionOnSet(f, S) = f[x] + SumFunctionOnSet(f, S \ {x})
<1> DEFINE F(s) == SumFunctionOnSet(f, s)
           T == {s \in SUBSET S : \A y \in s : F(s) = f[y] + F(s \ {y})}
<1>1. ASSUME NEW s \in SUBSET S PROVE IsFiniteSet(s) /\ F(s) \in Nat
  BY FS_Subset, SumType
<1>2. {} \in T
  OBVIOUS
<1>3. ASSUME NEW s \in SUBSET S, s # {}, \A y \in s : s \ {y} \in T PROVE s \in T
  <2>1. ASSUME NEW y \in s PROVE F(s) = f[y] + F(s \ {y})
    <3> DEFINE z == Any(s)
    <3>1. z \in s /\ F(s) = f[z] + F(s \ {z})
      BY <1>1, <1>3, AnyIn, SumStep
    <3> HIDE DEF z
    <3>2. CASE z = y
      BY <3>1, <3>2
    <3>3. CASE z # y
      <4> DEFINE w == F((s \ {y}) \ {z})
      <4>1. F(s \ {z}) = f[y] + F((s \ {z}) \ {y})
        BY <1>3, <3>1, <3>3
      <4>2. F(s \ {y}) = f[z] + F((s \ {y}) \ {z})
        BY <1>3, <3>1, <3>3
      <4>3. (s \ {z}) \ {y} = (s \ {y}) \ {z} /\ (s \ {y}) \ {z} \in SUBSET S
        OBVIOUS
      <4>4. w \in Nat /\ f[y] \in Nat /\ f[z] \in Nat
        BY <4>3, <1>1, <3>1
      <4>5. F(s \ {z}) = f[y] + w /\ F(s \ {y}) = f[z] + w
        BY <4>1, <4>2, <4>3
      <4> HIDE DEF F, w
      <4> QED BY <3>1, <4>4, <4>5
    <3> QED BY <3>2, <3>3
  <2> HIDE DEF F
  <2> QED BY <2>1
<1> HIDE DEF T
<1>4. S \in T
  BY <1>2, <1>3, SubsetInduct
<1> QED BY <1>4 DEF T

\* Sums compare as their terms do.
LEMMA SumLeq ==
    ASSUME NEW f, NEW g, NEW S, IsFiniteSet(S),
           \A x \in S : f[x] \in Nat /\ g[x] \in Nat /\ f[x] <= g[x]
    PROVE  SumFunctionOnSet(f, S) <= SumFunctionOnSet(g, S)
<1> DEFINE F(s) == SumFunctionOnSet(f, s)
           G(s) == SumFunctionOnSet(g, s)
           T == {s \in SUBSET S : F(s) <= G(s)}
<1>1. ASSUME NEW s \in SUBSET S PROVE IsFiniteSet(s) /\ F(s) \in Nat /\ G(s) \in Nat
  BY FS_Subset, SumType
<1>2. {} \in T
  BY SumEmpty
<1>3. ASSUME NEW s \in SUBSET S, s # {}, \A y \in s : s \ {y} \in T PROVE s \in T
  <2>1. PICK x \in s : TRUE
    BY <1>3
  <2> DEFINE u == s \ {x}
  <2>a. IsFiniteSet(s) /\ (\A y \in s : f[y] \in Nat) /\ (\A y \in s : g[y] \in Nat)
    BY <1>1
  <2>b. F(s) = f[x] + F(u)
    BY <2>a, SumSplit
  <2>2. F(s) = f[x] + F(u) /\ G(s) = g[x] + G(u)
    BY <2>a, <2>b, SumSplit
  <2>3. F(u) <= G(u)
    BY <1>3, <2>1
  <2>4. f[x] \in Nat /\ g[x] \in Nat /\ f[x] <= g[x] /\ F(u) \in Nat /\ G(u) \in Nat
    BY <1>1
  <2>5. F(s) <= G(s)
    <3> HIDE DEF F, G, u
    <3> QED BY <2>2, <2>3, <2>4
  <2> QED BY <2>5
<1> HIDE DEF T
<1>4. S \in T
  BY <1>2, <1>3, SubsetInduct
<1> QED BY <1>4 DEF T

\* Sums with the same terms are the same.
LEMMA SumSame ==
    ASSUME NEW f, NEW g, NEW S, IsFiniteSet(S), \A x \in S : f[x] \in Nat /\ g[x] = f[x]
    PROVE  SumFunctionOnSet(f, S) = SumFunctionOnSet(g, S)
<1>1. SumFunctionOnSet(f, S) \in Nat /\ SumFunctionOnSet(g, S) \in Nat
  BY SumType
<1>2. SumFunctionOnSet(f, S) <= SumFunctionOnSet(g, S)
  BY SumLeq
<1>3. SumFunctionOnSet(g, S) <= SumFunctionOnSet(f, S)
  BY SumLeq
<1> QED BY <1>1, <1>2, <1>3

LEMMA SumZero ==
    ASSUME NEW f, NEW S, IsFiniteSet(S), \A x \in S : f[x] = 0
    PROVE  SumFunctionOnSet(f, S) = 0
<1> DEFINE T == {s \in SUBSET S : SumFunctionOnSet(f, s) = 0}
<1>1. {} \in T
  BY SumEmpty
<1>2. ASSUME NEW s \in SUBSET S, s # {}, \A x \in s : s \ {x} \in T PROVE s \in T
  <2>1. IsFiniteSet(s) /\ Any(s) \in s
    BY <1>2, FS_Subset, AnyIn
  <2>2. SumFunctionOnSet(f, s) = f[Any(s)] + SumFunctionOnSet(f, s \ {Any(s)})
    BY <1>2, <2>1, SumStep
  <2>3. f[Any(s)] = 0 /\ SumFunctionOnSet(f, s \ {Any(s)}) = 0
    BY <1>2, <2>1
  <2> QED BY <2>2, <2>3
<1> HIDE DEF T
<1>3. S \in T
  BY <1>1, <1>2, SubsetInduct
<1> QED BY <1>3 DEF T

\* One term is one more.
LEMMA SumBump ==
    ASSUME NEW f, NEW g, NEW S, IsFiniteSet(S), NEW x \in S,
           \A y \in S : f[y] \in Nat,
           \A y \in S : g[y] = IF y = x THEN f[y] + 1 ELSE f[y]
    PROVE  SumFunctionOnSet(g, S) = SumFunctionOnSet(f, S) + 1
<1>1. \A y \in S : g[y] \in Nat
  OBVIOUS
<1>2. SumFunctionOnSet(f, S) = f[x] + SumFunctionOnSet(f, S \ {x})
  BY SumSplit
<1>3. SumFunctionOnSet(g, S) = g[x] + SumFunctionOnSet(g, S \ {x})
  BY <1>1, SumSplit
<1>4. IsFiniteSet(S \ {x})
  BY FS_RemoveElement
<1>5. SumFunctionOnSet(f, S \ {x}) = SumFunctionOnSet(g, S \ {x})
  BY <1>4, SumSame
<1>6. SumFunctionOnSet(f, S \ {x}) \in Nat /\ f[x] \in Nat /\ g[x] = f[x] + 1
  BY <1>4, SumType
<1> QED BY <1>2, <1>3, <1>5, <1>6

\* A term is at most the sum.
LEMMA SumTerm ==
    ASSUME NEW f, NEW S, IsFiniteSet(S), \A y \in S : f[y] \in Nat, NEW x \in S
    PROVE  f[x] <= SumFunctionOnSet(f, S)
<1>1. IsFiniteSet(S \ {x})
  BY FS_RemoveElement
<1>2. SumFunctionOnSet(f, S \ {x}) \in Nat
  BY <1>1, SumType
<1>3. SumFunctionOnSet(f, S) = f[x] + SumFunctionOnSet(f, S \ {x})
  BY SumSplit
<1> QED BY <1>2, <1>3


-----------------------------------------------------------------------------
(* The rolling counter *)

\* The locals of a call of incr, and of total.
IncrCalls ==
    {IdleInc} \cup [pc : {"load"}, idx : Ring, lap : Laps]
              \cup [pc : {"cas", "store", "add"}, idx : Ring, lap : Laps, last : Laps]
TotalsUnderWay == [pc : {"lap", "count", "done"}, lap : Laps, i : Ring, sum : Nat, from : Nat]
TotalCalls == {IdleRd} \cup TotalsUnderWay

CounterTypes ==
    /\ now \in Times
    /\ counters \in [Ring -> Nat] /\ laps \in [Ring -> Laps]
    /\ inc \in [Incrs -> IncrCalls] /\ rd \in [Readers -> TotalCalls]
    /\ calls \in [Times -> Nat] /\ adds \in [Laps -> Nat]

\* No bucket and no call is of a lap that has not begun.
NotAhead ==
    /\ \A i \in Ring : laps[i] <= Lap(now)
    /\ \A a \in Incrs : inc[a].pc # "idle" => inc[a].lap <= Lap(now)
    /\ \A a \in Readers : rd[a].pc # "idle" => rd[a].lap <= Lap(now)

\* Every call is under way or has added one, and the buckets hold no more than was added.
Running(ic) == {a \in Incrs : ic[a].pc # "idle"}
Accounted ==
    /\ SumFunction(counters) <= SumFunction(adds)
    /\ SumFunction(adds) + Cardinality(Running(inc)) = SumFunction(calls)
    /\ SumFunction(calls) <= MaxAdds

\* The counts of this lap's buckets that no call is about to reset are of this lap.
Resetting(ic, i) == \E a \in Incrs : ic[a].pc = "store" /\ ic[a].idx = i
Settled(n, cs, ls, ic) ==
    [i \in Ring |-> IF ls[i] = Lap(n) /\ ~Resetting(ic, i) THEN cs[i] ELSE 0]
SettledIsNew == SumFunction(Settled(now, counters, laps, inc)) <= adds[Lap(now)]

\* In the first lap no call resets a bucket; what was added is in the buckets; and a
\* total has read at least what was there when it began, counting the buckets
\* it has yet to read, and no more than what is there now in those it has read.
Unread(r) == IF r.pc = "done" THEN {} ELSE r.i..(Buckets - 1)
Reads(r, cs) ==
    /\ r.from <= r.sum + SumFunctionOnSet(cs, Unread(r))
    /\ r.sum <= SumFunctionOnSet(cs, Ring \ Unread(r))
CalledFirst(c) == [t \in Times |-> IF Lap(t) = 0 THEN c[t] ELSE 0]
FirstLap ==
    Lap(now) = 0 =>
        /\ \A a \in Incrs : inc[a].pc \in {"idle", "load", "add"}
        /\ SumFunction(counters) = SumFunction(adds)
        /\ SumFunction(counters) + Cardinality(Running(inc)) = SumFunction(CalledFirst(calls))
        /\ \A a \in Readers : rd[a].pc # "idle" => Reads(rd[a], counters)

CounterInv == CounterTypes /\ NotAhead /\ Accounted /\ SettledIsNew /\ FirstLap

LEMMA Clocks ==
    /\ IsFiniteSet(Ring) /\ IsFiniteSet(Times) /\ IsFiniteSet(Laps) /\ Laps \subseteq Nat
    /\ \A t \in Times : Lap(t) \in Laps /\ Index(t) \in Ring /\ Lap(t) <= Lap(t + 1)
<1>1. IsFiniteSet(Ring) /\ IsFiniteSet(Times)
  BY CounterConstants, FS_Interval DEF Ring, Times
<1>2. ASSUME NEW t \in Times
      PROVE  Lap(t) \in 0..t /\ Index(t) \in Ring /\ Lap(t) <= Lap(t + 1)
  <2>1. t \in Nat /\ Buckets \in Nat \ {0}
    BY CounterConstants DEF Times
  <2>2. t % Buckets \in 0..(Buckets - 1)
    BY <2>1
  <2>3. t \div Buckets \in 0..t
    BY <2>1
  <2>4. t \div Buckets <= (t + 1) \div Buckets
    BY <2>1
  <2> QED BY <2>2, <2>3, <2>4 DEF Lap, Index, Ring
<1>3. Laps \in SUBSET (0..MaxTime)
  BY <1>2, CounterConstants DEF Laps, Times
<1>4. IsFiniteSet(Laps)
  <2>1. IsFiniteSet(0..MaxTime)
    BY CounterConstants, FS_Interval
  <2> QED BY <1>3, <2>1, FS_Subset
<1> QED BY <1>1, <1>2, <1>3, <1>4 DEF Laps, Times

\* What the sums are of the counter's functions.
LEMMA FnSum ==
    ASSUME NEW S, IsFiniteSet(S), NEW f \in [S -> Nat]
    PROVE  SumFunction(f) = SumFunctionOnSet(f, S) /\ SumFunction(f) \in Nat
BY SumType DEF SumFunction

LEMMA FnBump ==
    ASSUME NEW S, IsFiniteSet(S), NEW f \in [S -> Nat], NEW x \in S
    PROVE  SumFunction([f EXCEPT ![x] = @ + 1]) = SumFunction(f) + 1
<1> DEFINE g == [f EXCEPT ![x] = @ + 1]
<1>1. g \in [S -> Nat] /\ \A y \in S : g[y] = IF y = x THEN f[y] + 1 ELSE f[y]
  OBVIOUS
<1> HIDE DEF g
<1>2. SumFunctionOnSet(g, S) = SumFunctionOnSet(f, S) + 1
  BY <1>1, SumBump
<1>3. SumFunction(g) = SumFunction(f) + 1
  BY <1>1, <1>2, FnSum
<1> QED BY <1>3 DEF g

LEMMA FnLeq ==
    ASSUME NEW S, IsFiniteSet(S), NEW f \in [S -> Nat], NEW g \in [S -> Nat],
           \A x \in S : f[x] <= g[x]
    PROVE  SumFunction(f) <= SumFunction(g)
<1>1. SumFunctionOnSet(f, S) <= SumFunctionOnSet(g, S)
  BY SumLeq
<1> QED BY <1>1, FnSum

LEMMA FnZero ==
    ASSUME NEW S, IsFiniteSet(S), NEW f \in [S -> Nat], \A x \in S : f[x] = 0
    PROVE  SumFunction(f) = 0
BY FnSum, SumZero

LEMMA IncrRecords ==
    ASSUME NEW c \in IncrCalls, c.pc # "idle"
    PROVE  c.idx \in Ring /\ c.lap \in Laps
BY DEF IncrCalls, IdleInc

LEMMA TotalRecords ==
    ASSUME NEW r \in TotalCalls, r.pc # "idle"
    PROVE  r \in TotalsUnderWay /\ r.lap \in Laps /\ r.i \in Ring /\ r.sum \in Nat /\ r.from \in Nat
BY DEF TotalCalls, TotalsUnderWay, IdleRd

LEMMA NextBucketIs ==
    ASSUME NEW r \in TotalsUnderWay
    PROVE  LET s == NextBucket(r)
           IN  /\ s \in TotalsUnderWay /\ s.pc # "idle"
               /\ s.lap = r.lap /\ s.sum = r.sum /\ s.from = r.from
               /\ r.i + 1 < Buckets => s.pc = "lap" /\ s.i = r.i + 1
               /\ ~(r.i + 1 < Buckets) => s.pc = "done"
<1>1. Buckets \in Nat /\ r.i \in 0..(Buckets - 1)
  BY CounterConstants DEF TotalsUnderWay, Ring
<1>2. CASE r.i + 1 < Buckets
  <2>1. r.i + 1 \in Ring
    BY <1>1, <1>2 DEF Ring
  <2> QED BY <1>2, <2>1 DEF NextBucket, TotalsUnderWay
<1>3. CASE ~(r.i + 1 < Buckets)
  BY <1>3 DEF NextBucket, TotalsUnderWay
<1> QED BY <1>2, <1>3

\* A step of total that is not its first: what becomes of the locals.
LEMMA TotalSteps ==
    ASSUME CounterTypes, NEW a \in Readers, Total(a), ~TotalBegin(a)
    PROVE  /\ rd[a] \in TotalsUnderWay
           /\ UNCHANGED <<now, counters, laps, inc, calls, adds>>
           /\ \A b \in Readers \ {a} : rd'[b] = rd[b]
           /\ rd' \in [Readers -> TotalCalls]
           /\ rd'[a].pc # "idle" => rd'[a].lap = rd[a].lap
<1>1. rd[a] \in TotalsUnderWay
  BY TotalRecords DEF Total, TotalLap, TotalCount, TotalReturn, CounterTypes
<1>2. UNCHANGED <<now, counters, laps, inc, calls, adds>>
  BY DEF Total, TotalLap, TotalCount, TotalReturn
<1>3. CASE TotalLap(a)
  <2> DEFINE x == IF laps[rd[a].i] = rd[a].lap THEN [rd[a] EXCEPT !.pc = "count"] ELSE NextBucket(rd[a])
  <2>1. x \in TotalsUnderWay /\ x.lap = rd[a].lap
    BY <1>1, NextBucketIs DEF TotalsUnderWay
  <2>2. rd' = [rd EXCEPT ![a] = x]
    BY <1>3 DEF TotalLap
  <2> HIDE DEF x
  <2> QED BY <1>1, <1>2, <2>1, <2>2 DEF CounterTypes, TotalCalls
<1>4. CASE TotalCount(a)
  <2> DEFINE s == [rd[a] EXCEPT !.sum = @ + counters[rd[a].i]]
             x == NextBucket(s)
  <2>1. s \in TotalsUnderWay /\ s.lap = rd[a].lap
    BY <1>1 DEF TotalsUnderWay, CounterTypes
  <2>2. rd' = [rd EXCEPT ![a] = x]
    BY <1>4 DEF TotalCount
  <2> HIDE DEF s
  <2>3. x \in TotalsUnderWay /\ x.lap = rd[a].lap
    BY <2>1, NextBucketIs
  <2> HIDE DEF x
  <2> QED BY <1>1, <1>2, <2>2, <2>3 DEF CounterTypes, TotalCalls
<1>5. CASE TotalReturn(a)
  BY <1>1, <1>2, <1>5 DEF TotalReturn, CounterTypes, TotalCalls, IdleRd
<1> QED BY <1>3, <1>4, <1>5 DEF Total

LEMMA CounterInitInv == CounterInit => CounterInv
<1> SUFFICES ASSUME CounterInit PROVE CounterInv
  OBVIOUS
<1>1. CounterTypes
  <2>1. 0 \in Times
    BY CounterConstants DEF Times
  <2>2. Lap(0) = 0 /\ Lap(0) \in Laps
    BY <2>1, Clocks, CounterConstants DEF Lap
  <2> QED BY <2>1, <2>2 DEF CounterInit, CounterTypes, IncrCalls, TotalCalls
<1>2. Lap(0) = 0
  BY CounterConstants DEF Lap
<1>3. NotAhead
  BY <1>2 DEF CounterInit, NotAhead, IdleInc, IdleRd
<1>4. SumFunction(counters) = 0 /\ SumFunction(adds) = 0 /\ SumFunction(calls) = 0
  <2>1. /\ counters \in [Ring -> Nat] /\ \A i \in Ring : counters[i] = 0
        /\ adds \in [Laps -> Nat] /\ \A l \in Laps : adds[l] = 0
        /\ calls \in [Times -> Nat] /\ \A u \in Times : calls[u] = 0
    BY <1>1 DEF CounterInit, CounterTypes
  <2>2. SumFunction(counters) = 0
    BY <2>1, Clocks, FnZero
  <2>3. SumFunction(adds) = 0
    BY <2>1, Clocks, FnZero
  <2>4. SumFunction(calls) = 0
    BY <2>1, Clocks, FnZero
  <2> QED BY <2>2, <2>3, <2>4
<1>5. Running(inc) = {} /\ Cardinality(Running(inc)) = 0
  BY FS_EmptySet DEF CounterInit, Running, IdleInc
<1>6. SumFunction(CalledFirst(calls)) = 0
  <2>1. CalledFirst(calls) \in [Times -> Nat] /\ \A t \in Times : CalledFirst(calls)[t] = 0
    BY DEF CalledFirst, CounterInit
  <2> QED BY <2>1, Clocks, FnZero
<1>7. SettledIsNew
  <2> DEFINE f == Settled(now, counters, laps, inc)
  <2>1. f \in [Ring -> Nat] /\ \A i \in Ring : f[i] = 0
    BY DEF Settled, CounterInit
  <2>2. SumFunction(f) = 0
    BY <2>1, Clocks, FnZero
  <2> QED BY <2>2, <1>1, Clocks DEF SettledIsNew, CounterInit, CounterTypes
<1>8. Accounted
  BY <1>4, <1>5, CounterConstants DEF Accounted
<1>9. FirstLap
  BY <1>4, <1>5, <1>6 DEF FirstLap, CounterInit, IdleInc, IdleRd
<1> QED BY <1>1, <1>3, <1>7, <1>8, <1>9 DEF CounterInv

LEMMA CounterTypesStep ==
    ASSUME CounterTypes, [CounterNext]_counterVars PROVE CounterTypes'
<1>1. CASE Clock
  BY <1>1, CounterConstants DEF Clock, CounterTypes, Times
<1>2. ASSUME NEW a \in Incrs, IncrBegin(a) PROVE CounterTypes'
  <2>1. Index(now) \in Ring /\ Lap(now) \in Laps
    BY Clocks DEF CounterTypes
  <2>2. inc' \in [Incrs -> IncrCalls] /\ calls' \in [Times -> Nat]
    BY <1>2, <2>1 DEF IncrBegin, CounterTypes, IncrCalls
  <2> QED BY <1>2, <2>2 DEF IncrBegin, CounterTypes
<1>3. ASSUME NEW a \in Incrs, IncrLoad(a) PROVE CounterTypes'
  <2>1. inc[a].idx \in Ring /\ inc[a].lap \in Laps
    BY <1>3, IncrRecords DEF IncrLoad, CounterTypes
  <2>2. laps[inc[a].idx] \in Laps
    BY <2>1 DEF CounterTypes
  <2>3. inc' \in [Incrs -> IncrCalls]
    BY <1>3, <2>1, <2>2 DEF IncrLoad, CounterTypes, IncrCalls
  <2> QED BY <1>3, <2>3 DEF IncrLoad, CounterTypes
<1>4. ASSUME NEW a \in Incrs, IncrCas(a) PROVE CounterTypes'
  <2>1. inc[a] \in [pc : {"cas", "store", "add"}, idx : Ring, lap : Laps, last : Laps]
    BY <1>4 DEF IncrCas, CounterTypes, IncrCalls, IdleInc
  <2>2. inc' \in [Incrs -> IncrCalls] /\ laps' \in [Ring -> Laps]
    BY <1>4, <2>1 DEF IncrCas, CounterTypes, IncrCalls
  <2> QED BY <1>4, <2>2 DEF IncrCas, CounterTypes
<1>5. ASSUME NEW a \in Incrs, IncrStore(a) PROVE CounterTypes'
  <2>1. inc[a] \in [pc : {"cas", "store", "add"}, idx : Ring, lap : Laps, last : Laps]
    BY <1>5 DEF IncrStore, CounterTypes, IncrCalls, IdleInc
  <2>2. inc' \in [Incrs -> IncrCalls] /\ counters' \in [Ring -> Nat]
    BY <1>5, <2>1 DEF IncrStore, CounterTypes, IncrCalls
  <2> QED BY <1>5, <2>2 DEF IncrStore, CounterTypes
<1>6. ASSUME NEW a \in Incrs, IncrAdd(a) PROVE CounterTypes'
  <2>1. inc[a].idx \in Ring /\ Lap(now) \in Laps
    BY <1>6, IncrRecords, Clocks DEF IncrAdd, CounterTypes
  <2>2. inc' \in [Incrs -> IncrCalls] /\ counters' \in [Ring -> Nat] /\ adds' \in [Laps -> Nat]
    BY <1>6, <2>1 DEF IncrAdd, CounterTypes, IncrCalls
  <2> QED BY <1>6, <2>2 DEF IncrAdd, CounterTypes
<1>7. ASSUME NEW a \in Readers, TotalBegin(a) PROVE CounterTypes'
  <2>1. Lap(now) \in Laps /\ 0 \in Ring
    BY Clocks, CounterConstants DEF CounterTypes, Ring
  <2>2. SumFunction(adds) \in Nat
    BY Clocks, FnSum DEF CounterTypes
  <2> QED BY <1>7, <2>1, <2>2 DEF TotalBegin, CounterTypes, TotalCalls, TotalsUnderWay
<1>8. ASSUME NEW a \in Readers, Total(a), ~TotalBegin(a) PROVE CounterTypes'
  BY <1>8, TotalSteps DEF CounterTypes
<1>9. CASE UNCHANGED counterVars
  BY <1>9 DEF counterVars, CounterTypes
<1> QED BY <1>1, <1>2, <1>3, <1>4, <1>5, <1>6, <1>7, <1>8, <1>9 DEF CounterNext, Incr, Total

LEMMA NotAheadStep ==
    ASSUME CounterTypes, NotAhead, [CounterNext]_counterVars PROVE NotAhead'
<1>1. CASE Clock
  <2>1. /\ Lap(now) <= Lap(now') /\ Lap(now) \in Nat /\ Lap(now') \in Nat
        /\ \A i \in Ring : laps[i] \in Nat
    BY <1>1, Clocks, CounterTypesStep DEF Clock, CounterTypes
  <2>2. \A a \in Incrs : inc[a].pc # "idle" => inc[a].lap \in Nat
    BY Clocks, IncrRecords DEF CounterTypes
  <2>3. ASSUME NEW a \in Readers, rd[a].pc # "idle" PROVE rd[a].lap \in Nat
    <3>1. rd[a].lap \in Laps
      BY <2>3, TotalRecords DEF CounterTypes
    <3> QED BY <3>1, Clocks
  <2> QED BY <1>1, <2>1, <2>2, <2>3 DEF Clock, NotAhead
<1>2. ASSUME NEW a \in Incrs, IncrBegin(a) PROVE NotAhead'
  <2>1. Lap(now) \in Nat
    BY Clocks DEF CounterTypes
  <2> QED BY <1>2, <2>1 DEF IncrBegin, NotAhead, CounterTypes
<1>3. ASSUME NEW a \in Incrs, IncrLoad(a) PROVE NotAhead'
  BY <1>3 DEF IncrLoad, NotAhead, CounterTypes
<1>4. ASSUME NEW a \in Incrs, IncrCas(a) PROVE NotAhead'
  <2>1. inc[a] \in [pc : {"cas", "store", "add"}, idx : Ring, lap : Laps, last : Laps]
    BY <1>4 DEF IncrCas, CounterTypes, IncrCalls, IdleInc
  <2> QED BY <1>4, <2>1 DEF IncrCas, NotAhead, CounterTypes
<1>5. ASSUME NEW a \in Incrs, IncrStore(a) PROVE NotAhead'
  <2>1. inc[a] \in [pc : {"cas", "store", "add"}, idx : Ring, lap : Laps, last : Laps]
    BY <1>5 DEF IncrStore, CounterTypes, IncrCalls, IdleInc
  <2> QED BY <1>5, <2>1 DEF IncrStore, NotAhead, CounterTypes
<1>6. ASSUME NEW a \in Incrs, IncrAdd(a) PROVE NotAhead'
  BY <1>6 DEF IncrAdd, NotAhead, CounterTypes, IdleInc
<1>7. ASSUME NEW a \in Readers, TotalBegin(a) PROVE NotAhead'
  <2>1. Lap(now) \in Nat
    BY Clocks DEF CounterTypes
  <2> QED BY <1>7, <2>1 DEF TotalBegin, NotAhead, CounterTypes
<1>8. ASSUME NEW a \in Readers, Total(a), ~TotalBegin(a) PROVE NotAhead'
  <2>1. rd[a].pc # "idle"
    BY <1>8, TotalSteps DEF TotalsUnderWay
  <2> QED BY <1>8, <2>1, TotalSteps DEF NotAhead
<1>9. CASE UNCHANGED counterVars
  BY <1>9 DEF counterVars, NotAhead
<1> QED BY <1>1, <1>2, <1>3, <1>4, <1>5, <1>6, <1>7, <1>8, <1>9 DEF CounterNext, Incr, Total

\* The calls under way, when one begins, goes on, or ends.
LEMMA RunningIs ==
    ASSUME CounterTypes, NEW a \in Incrs
    PROVE  /\ IsFiniteSet(Running(inc)) /\ Cardinality(Running(inc)) \in Nat
           /\ IncrBegin(a) => Cardinality(Running(inc')) = Cardinality(Running(inc)) + 1
           /\ IncrLoad(a) \/ IncrCas(a) \/ IncrStore(a) => Running(inc') = Running(inc)
           /\ IncrAdd(a) => Cardinality(Running(inc')) + 1 = Cardinality(Running(inc))
<1>1. Running(inc) \in SUBSET Incrs
  BY DEF Running
<1>2. IsFiniteSet(Running(inc)) /\ Cardinality(Running(inc)) \in Nat
  BY <1>1, CounterConstants, FS_Subset, FS_CardinalityType
<1>3. ASSUME IncrBegin(a) PROVE Cardinality(Running(inc')) = Cardinality(Running(inc)) + 1
  <2>1. Running(inc') = Running(inc) \cup {a} /\ a \notin Running(inc)
    BY <1>3 DEF IncrBegin, Running, CounterTypes
  <2> QED BY <1>2, <2>1, FS_AddElement
<1>4. ASSUME IncrLoad(a) \/ IncrCas(a) \/ IncrStore(a) PROVE Running(inc') = Running(inc)
  <2>1. inc[a].pc # "idle" /\ inc'[a].pc # "idle" /\ \A b \in Incrs \ {a} : inc'[b] = inc[b]
    BY <1>4 DEF IncrLoad, IncrCas, IncrStore, CounterTypes, IncrCalls, IdleInc
  <2> QED BY <2>1 DEF Running
<1>5. ASSUME IncrAdd(a) PROVE Cardinality(Running(inc')) + 1 = Cardinality(Running(inc))
  <2>1. Running(inc') = Running(inc) \ {a} /\ a \in Running(inc)
    BY <1>5 DEF IncrAdd, Running, CounterTypes, IdleInc
  <2>2. Cardinality(Running(inc')) = Cardinality(Running(inc)) - 1
    BY <1>2, <2>1, FS_RemoveElement
  <2> QED BY <1>2, <2>2
<1> QED BY <1>2, <1>3, <1>4, <1>5

\* The functions the calls change, one more at one place.
LEMMA AddBumps ==
    ASSUME CounterTypes, NEW a \in Incrs
    PROVE  /\ SumFunction(counters) \in Nat /\ SumFunction(adds) \in Nat /\ SumFunction(calls) \in Nat
           /\ IncrBegin(a) => SumFunction(calls') = SumFunction(calls) + 1
           /\ IncrAdd(a) => /\ SumFunction(counters') = SumFunction(counters) + 1
                            /\ SumFunction(adds') = SumFunction(adds) + 1
<1>1. SumFunction(counters) \in Nat
  BY Clocks, FnSum DEF CounterTypes
<1>2. SumFunction(adds) \in Nat
  BY Clocks, FnSum DEF CounterTypes
<1>3. SumFunction(calls) \in Nat
  BY Clocks, FnSum DEF CounterTypes
<1>4. ASSUME IncrBegin(a) PROVE SumFunction(calls') = SumFunction(calls) + 1
  BY <1>4, Clocks, FnBump DEF IncrBegin, CounterTypes
<1>5. ASSUME IncrAdd(a) PROVE SumFunction(counters') = SumFunction(counters) + 1
  <2>1. inc[a].idx \in Ring
    BY <1>5, IncrRecords DEF IncrAdd, CounterTypes
  <2> QED BY <1>5, <2>1, Clocks, FnBump DEF IncrAdd, CounterTypes
<1>6. ASSUME IncrAdd(a) PROVE SumFunction(adds') = SumFunction(adds) + 1
  BY <1>6, Clocks, FnBump DEF IncrAdd, CounterTypes
<1> QED BY <1>1, <1>2, <1>3, <1>4, <1>5, <1>6

LEMMA AccountedStep ==
    ASSUME CounterTypes, Accounted, [CounterNext]_counterVars PROVE Accounted'
<1>1. ASSUME NEW a \in Incrs, IncrBegin(a) PROVE Accounted'
  <2>1. UNCHANGED <<counters, adds>> /\ SumFunction(calls) < MaxAdds
    BY <1>1 DEF IncrBegin
  <2>2. Cardinality(Running(inc')) = Cardinality(Running(inc)) + 1 /\ Cardinality(Running(inc)) \in Nat
    BY <1>1, RunningIs
  <2>3. /\ SumFunction(calls') = SumFunction(calls) + 1
        /\ SumFunction(counters) \in Nat /\ SumFunction(adds) \in Nat /\ SumFunction(calls) \in Nat
    BY <1>1, AddBumps
  <2> QED BY <2>1, <2>2, <2>3, CounterConstants DEF Accounted
<1>2. ASSUME NEW a \in Incrs, IncrLoad(a) \/ IncrCas(a) PROVE Accounted'
  <2>1. Running(inc') = Running(inc)
    BY <1>2, RunningIs
  <2>2. UNCHANGED <<counters, adds, calls>>
    BY <1>2 DEF IncrLoad, IncrCas
  <2> QED BY <2>1, <2>2 DEF Accounted
<1>3. ASSUME NEW a \in Incrs, IncrStore(a) PROVE Accounted'
  <2>1. Running(inc') = Running(inc) /\ UNCHANGED <<adds, calls>>
    BY <1>3, RunningIs DEF IncrStore
  <2>2. counters' \in [Ring -> Nat] /\ \A i \in Ring : counters'[i] <= counters[i]
    BY <1>3, IncrRecords DEF IncrStore, CounterTypes
  <2>3. SumFunction(counters') <= SumFunction(counters)
    BY <2>2, Clocks, FnLeq DEF CounterTypes
  <2>4. SumFunction(counters') \in Nat
    BY <2>2, Clocks, FnSum
  <2>5. SumFunction(counters) \in Nat /\ SumFunction(adds) \in Nat
    BY AddBumps
  <2> QED BY <2>1, <2>3, <2>4, <2>5 DEF Accounted
<1>4. ASSUME NEW a \in Incrs, IncrAdd(a) PROVE Accounted'
  <2>1. UNCHANGED calls
    BY <1>4 DEF IncrAdd
  <2>2. Cardinality(Running(inc')) + 1 = Cardinality(Running(inc)) /\ Cardinality(Running(inc)) \in Nat
    BY <1>4, RunningIs
  <2>3. /\ SumFunction(counters') = SumFunction(counters) + 1
        /\ SumFunction(adds') = SumFunction(adds) + 1
        /\ SumFunction(counters) \in Nat /\ SumFunction(adds) \in Nat /\ SumFunction(calls) \in Nat
    BY <1>4, AddBumps
  <2>4. Cardinality(Running(inc')) \in Int
    <3>1. Running(inc') \in SUBSET Incrs
      BY DEF Running
    <3> QED BY <3>1, CounterConstants, FS_Subset, FS_CardinalityType
  <2> QED BY <2>1, <2>2, <2>3, <2>4 DEF Accounted
<1>5. CASE UNCHANGED <<counters, adds, calls, inc>>
  BY <1>5 DEF Accounted
<1> QED BY <1>1, <1>2, <1>3, <1>4, <1>5
     DEF CounterNext, Incr, Clock, Total, TotalBegin, TotalLap, TotalCount, TotalReturn, counterVars

LEMMA SettledStep ==
    ASSUME CounterTypes, NotAhead, SettledIsNew, [CounterNext]_counterVars PROVE SettledIsNew'
<1> DEFINE f == Settled(now, counters, laps, inc)
           g == Settled(now', counters', laps', inc')
<1>1. f \in [Ring -> Nat] /\ g \in [Ring -> Nat] /\ now \in Times /\ now' \in Times
  BY CounterTypesStep DEF Settled, CounterTypes
<1>2. /\ SumFunction(f) \in Nat /\ SumFunction(g) \in Nat
      /\ adds[Lap(now)] \in Nat /\ adds'[Lap(now')] \in Nat
  <2>1. SumFunction(f) \in Nat
    BY <1>1, Clocks, FnSum
  <2>2. SumFunction(g) \in Nat
    BY <1>1, Clocks, FnSum
  <2> QED BY <2>1, <2>2, Clocks, CounterTypesStep DEF CounterTypes
<1>3. SumFunction(f) <= adds[Lap(now)]
  BY DEF SettledIsNew
<1> SUFFICES SumFunction(g) <= adds'[Lap(now')]
  BY DEF SettledIsNew
<1>4. CASE Lap(now') = Lap(now) /\ adds' = adds /\ \A i \in Ring : g[i] <= f[i]
  <2>1. SumFunction(g) <= SumFunction(f)
    BY <1>1, <1>4, Clocks, FnLeq
  <2> HIDE DEF f, g
  <2> QED BY <1>2, <1>3, <1>4, <2>1
<1>5. CASE Clock
  <2>1. CASE Lap(now') = Lap(now)
    <3>1. \A i \in Ring : g[i] <= f[i]
      BY <1>5, <2>1 DEF Clock, Settled, CounterTypes
    <3> QED BY <1>4, <1>5, <2>1, <3>1 DEF Clock
  <2>2. CASE Lap(now') # Lap(now)
    <3>1. Lap(now) <= Lap(now') /\ Lap(now) \in Nat /\ Lap(now') \in Nat
      BY <1>1, <1>5, Clocks DEF Clock
    <3>2. ASSUME NEW i \in Ring PROVE laps'[i] # Lap(now')
      <4>1. laps[i] <= Lap(now) /\ laps[i] \in Nat /\ laps' = laps
        BY <1>5, Clocks DEF NotAhead, CounterTypes, Clock
      <4> QED BY <2>2, <3>1, <4>1
    <3>3. \A i \in Ring : g[i] = 0
      BY <3>2 DEF Settled
    <3>4. SumFunction(g) = 0
      BY <1>1, <3>3, Clocks, FnZero
    <3> HIDE DEF g
    <3> QED BY <1>2, <3>4
  <2> QED BY <2>1, <2>2
<1>6. ASSUME NEW a \in Incrs, IncrBegin(a) \/ IncrLoad(a) PROVE SumFunction(g) <= adds'[Lap(now')]
  <2>1. /\ UNCHANGED <<now, counters, laps, adds>> /\ inc[a].pc # "store" /\ inc'[a].pc # "store"
        /\ \A b \in Incrs \ {a} : inc'[b] = inc[b]
    BY <1>6 DEF IncrBegin, IncrLoad, CounterTypes
  <2>2. \A i \in Ring : Resetting(inc', i) <=> Resetting(inc, i)
    BY <2>1 DEF Resetting
  <2>3. \A i \in Ring : g[i] <= f[i]
    BY <2>1, <2>2 DEF Settled, CounterTypes
  <2> QED BY <1>4, <2>1, <2>3
<1>7. ASSUME NEW a \in Incrs, IncrCas(a) PROVE SumFunction(g) <= adds'[Lap(now')]
  <2>1. /\ UNCHANGED <<now, counters, adds>> /\ inc[a].pc # "store" /\ inc'[a].idx = inc[a].idx
        /\ \A b \in Incrs \ {a} : inc'[b] = inc[b]
        /\ \A i \in Ring : laps'[i] = laps[i] \/ (i = inc[a].idx /\ inc'[a].pc = "store")
    <3>1. inc[a] \in [pc : {"cas", "store", "add"}, idx : Ring, lap : Laps, last : Laps]
      BY <1>7 DEF IncrCas, CounterTypes, IncrCalls, IdleInc
    <3> QED BY <1>7, <3>1 DEF IncrCas, CounterTypes
  <2>2. ASSUME NEW i \in Ring PROVE g[i] <= f[i]
    <3>1. CASE laps'[i] = laps[i]
      <4>1. Resetting(inc, i) => Resetting(inc', i)
        BY <2>1 DEF Resetting
      <4> QED BY <2>1, <3>1, <4>1 DEF Settled, CounterTypes
    <3>2. CASE i = inc[a].idx /\ inc'[a].pc = "store"
      <4>1. Resetting(inc', i)
        BY <2>1, <3>2 DEF Resetting
      <4> QED BY <4>1, <1>1 DEF Settled
    <3> QED BY <2>1, <3>1, <3>2
  <2> QED BY <1>4, <2>1, <2>2
<1>8. ASSUME NEW a \in Incrs, IncrStore(a) PROVE SumFunction(g) <= adds'[Lap(now')]
  <2>1. /\ UNCHANGED <<now, laps, adds>>
        /\ \A b \in Incrs \ {a} : inc'[b] = inc[b]
        /\ \A i \in Ring : counters'[i] = IF i = inc[a].idx THEN 0 ELSE counters[i]
    BY <1>8 DEF IncrStore, CounterTypes
  <2>2. ASSUME NEW i \in Ring PROVE g[i] <= f[i]
    <3>1. CASE i = inc[a].idx
      BY <1>1, <2>1, <3>1 DEF Settled
    <3>2. CASE i # inc[a].idx
      <4>1. Resetting(inc, i) => Resetting(inc', i)
        BY <2>1, <3>2 DEF Resetting
      <4> QED BY <2>1, <3>2, <4>1 DEF Settled, CounterTypes
    <3> QED BY <3>1, <3>2
  <2> QED BY <1>4, <2>1, <2>2
<1>9. ASSUME NEW a \in Incrs, IncrAdd(a) PROVE SumFunction(g) <= adds'[Lap(now')]
  <2> DEFINE x == inc[a].idx
             h == [f EXCEPT ![x] = @ + 1]
  <2>1. /\ UNCHANGED <<now, laps>> /\ inc[a].pc # "store" /\ x \in Ring /\ Lap(now) \in Laps
        /\ \A b \in Incrs \ {a} : inc'[b] = inc[b]
        /\ \A i \in Ring : counters'[i] = IF i = x THEN counters[i] + 1 ELSE counters[i]
        /\ adds'[Lap(now)] = adds[Lap(now)] + 1
    BY <1>9, IncrRecords, Clocks DEF IncrAdd, CounterTypes
  <2>2. ASSUME NEW i \in Ring PROVE g[i] <= IF i = x THEN f[i] + 1 ELSE f[i]
    <3>1. Resetting(inc, i) => Resetting(inc', i)
      BY <2>1 DEF Resetting
    <3>2. CASE laps[i] = Lap(now) /\ ~Resetting(inc', i)
      BY <2>1, <3>1, <3>2 DEF Settled, CounterTypes
    <3>3. CASE ~(laps[i] = Lap(now) /\ ~Resetting(inc', i))
      <4>1. g[i] = 0
        BY <2>1, <3>3 DEF Settled
      <4>2. f[i] \in Nat
        BY <1>1
      <4> HIDE DEF f, g
      <4> QED BY <4>1, <4>2
    <3> QED BY <3>2, <3>3
  <2> HIDE DEF f, g
  <2>3. h \in [Ring -> Nat] /\ \A i \in Ring : g[i] <= h[i]
    BY <1>1, <2>1, <2>2
  <2>4. SumFunction(h) = SumFunction(f) + 1
    BY <1>1, <2>1, Clocks, FnBump
  <2>5. SumFunction(g) <= SumFunction(h)
    <3> HIDE DEF h
    <3> QED BY <1>1, <2>3, Clocks, FnLeq
  <2> HIDE DEF h
  <2> QED BY <1>2, <1>3, <2>1, <2>4, <2>5
<1>10. CASE UNCHANGED <<now, counters, laps, inc, adds>>
  <2>1. g = f
    BY <1>10
  <2> HIDE DEF f, g
  <2> QED BY <1>3, <1>10, <2>1
<1> HIDE DEF f, g
<1> QED BY <1>5, <1>6, <1>7, <1>8, <1>9, <1>10
     DEF CounterNext, Incr, Total, TotalBegin, TotalLap, TotalCount, TotalReturn, counterVars

\* Where total stands when it has read the bucket it stands at.
LEMMA ReadBucket ==
    ASSUME NEW r \in TotalsUnderWay, r.pc = "count", NEW cs \in [Ring -> Nat], Reads(r, cs)
    PROVE  Reads(NextBucket([r EXCEPT !.sum = @ + cs[r.i]]), cs)
<1> DEFINE s == [r EXCEPT !.sum = @ + cs[r.i]]
           u == NextBucket(s)
           F(X) == SumFunctionOnSet(cs, X)
<1>1. /\ r.i \in Ring /\ r.sum \in Nat /\ r.from \in Nat /\ cs[r.i] \in Nat
      /\ s \in TotalsUnderWay /\ s.i = r.i /\ s.sum = r.sum + cs[r.i] /\ s.from = r.from
  BY DEF TotalsUnderWay
<1>2. Unread(r) \in SUBSET Ring /\ r.i \in Unread(r)
  BY <1>1, CounterConstants DEF Unread, Ring
<1> HIDE DEF s
<1>3. u.sum = r.sum + cs[r.i] /\ u.from = r.from /\ Unread(u) = Unread(r) \ {r.i}
  <2>1. /\ u.sum = s.sum /\ u.from = s.from
        /\ r.i + 1 < Buckets => u.pc = "lap" /\ u.i = r.i + 1
        /\ ~(r.i + 1 < Buckets) => u.pc = "done"
    BY <1>1, NextBucketIs
  <2> HIDE DEF u
  <2>2. Unread(u) = Unread(r) \ {r.i}
    <3>1. CASE r.i + 1 < Buckets
      BY <1>1, <2>1, <3>1, CounterConstants DEF Unread, Ring
    <3>2. CASE ~(r.i + 1 < Buckets)
      BY <1>1, <2>1, <3>2, CounterConstants DEF Unread, Ring
    <3> QED BY <3>1, <3>2
  <2> QED BY <1>1, <2>1, <2>2
<1> HIDE DEF u
<1>4. ASSUME NEW X \in SUBSET Ring PROVE IsFiniteSet(X) /\ F(X) \in Nat
  <2>1. IsFiniteSet(X) /\ \A i \in X : cs[i] \in Nat
    BY Clocks, FS_Subset
  <2> QED BY <2>1, SumType
<1>5. F(Unread(r)) = cs[r.i] + F(Unread(r) \ {r.i})
  <2>1. IsFiniteSet(Unread(r)) /\ \A i \in Unread(r) : cs[i] \in Nat
    BY <1>2, <1>4
  <2> QED BY <1>2, <2>1, SumSplit
<1>6. F(Ring \ Unread(u)) = cs[r.i] + F(Ring \ Unread(r))
  <2> DEFINE Y == Ring \ Unread(u)
  <2>1. r.i \in Y /\ Y \in SUBSET Ring /\ Y \ {r.i} = Ring \ Unread(r)
    BY <1>1, <1>2, <1>3
  <2>2. IsFiniteSet(Y) /\ \A i \in Y : cs[i] \in Nat
    BY <1>4, <2>1
  <2> HIDE DEF Y
  <2>3. F(Y) = cs[r.i] + F(Y \ {r.i})
    BY <2>1, <2>2, SumSplit
  <2> QED BY <2>1, <2>3 DEF Y
<1>7. F(Unread(r)) \in Nat /\ F(Unread(u)) \in Nat /\ F(Ring \ Unread(r)) \in Nat
  BY <1>2, <1>3, <1>4
<1>8. r.from <= r.sum + F(Unread(r)) /\ r.sum <= F(Ring \ Unread(r))
  BY DEF Reads
<1>9. F(Unread(r)) = cs[r.i] + F(Unread(u))
  BY <1>3, <1>5
<1>10. u.from <= u.sum + F(Unread(u)) /\ u.sum <= F(Ring \ Unread(u))
  <2> HIDE DEF F
  <2> QED BY <1>1, <1>3, <1>6, <1>7, <1>8, <1>9
<1> QED BY <1>10 DEF Reads, u, s

\* Counts that only grow leave what a total has read between its bounds.
LEMMA ReadsGrow ==
    ASSUME NEW r \in TotalsUnderWay, NEW cs \in [Ring -> Nat], NEW ds \in [Ring -> Nat],
           \A i \in Ring : cs[i] <= ds[i], Reads(r, cs)
    PROVE  Reads(r, ds)
<1>1. Unread(r) \in SUBSET Ring /\ (Ring \ Unread(r)) \in SUBSET Ring
  BY CounterConstants DEF Unread, Ring, TotalsUnderWay
<1>2. ASSUME NEW X \in SUBSET Ring
      PROVE  /\ SumFunctionOnSet(cs, X) <= SumFunctionOnSet(ds, X)
             /\ SumFunctionOnSet(cs, X) \in Nat /\ SumFunctionOnSet(ds, X) \in Nat
  <2>1. IsFiniteSet(X) /\ \A i \in X : cs[i] \in Nat /\ ds[i] \in Nat /\ cs[i] <= ds[i]
    BY Clocks, FS_Subset
  <2>2. SumFunctionOnSet(cs, X) <= SumFunctionOnSet(ds, X)
    BY <2>1, SumLeq
  <2>3. SumFunctionOnSet(cs, X) \in Nat
    BY <2>1, SumType
  <2>4. SumFunctionOnSet(ds, X) \in Nat
    BY <2>1, SumType
  <2> QED BY <2>2, <2>3, <2>4
<1>3. r.from \in Nat /\ r.sum \in Nat
  BY DEF TotalsUnderWay
<1> DEFINE c1 == SumFunctionOnSet(cs, Unread(r))
           c2 == SumFunctionOnSet(cs, Ring \ Unread(r))
           d1 == SumFunctionOnSet(ds, Unread(r))
           d2 == SumFunctionOnSet(ds, Ring \ Unread(r))
<1>4. c1 <= d1 /\ c2 <= d2 /\ c1 \in Nat /\ c2 \in Nat /\ d1 \in Nat /\ d2 \in Nat
  BY <1>1, <1>2
<1>5. r.from <= r.sum + c1 /\ r.sum <= c2
  BY DEF Reads
<1>6. r.from <= r.sum + d1 /\ r.sum <= d2
  <2> HIDE DEF c1, c2, d1, d2
  <2> QED BY <1>3, <1>4, <1>5
<1> QED BY <1>6 DEF Reads

LEMMA FirstLapStep ==
    ASSUME CounterTypes, NotAhead, FirstLap, [CounterNext]_counterVars PROVE FirstLap'
<1> SUFFICES ASSUME Lap(now') = 0 PROVE FirstLap'
  BY DEF FirstLap
<1>1. Lap(now) = 0
  <2>1. Lap(now) \in Nat
    BY Clocks DEF CounterTypes
  <2>2. now' = now \/ now' = now + 1
    BY DEF CounterNext, Clock, Incr, IncrBegin, IncrLoad, IncrCas, IncrStore, IncrAdd,
           Total, TotalBegin, TotalLap, TotalCount, TotalReturn, counterVars
  <2> QED BY <2>1, <2>2, Clocks DEF CounterTypes
<1>2. /\ \A a \in Incrs : inc[a].pc \in {"idle", "load", "add"}
      /\ SumFunction(counters) = SumFunction(adds)
      /\ SumFunction(counters) + Cardinality(Running(inc)) = SumFunction(CalledFirst(calls))
      /\ \A a \in Readers : rd[a].pc # "idle" => Reads(rd[a], counters)
  BY <1>1 DEF FirstLap
<1>3. /\ \A i \in Ring : laps[i] = 0
      /\ \A a \in Incrs : inc[a].pc # "idle" => inc[a].lap = 0
      /\ \A a \in Readers : rd[a].pc # "idle" => rd[a].lap = 0
  <2>1. \A l \in Laps : l <= 0 => l = 0
    BY Clocks
  <2>2. ASSUME NEW a \in Incrs, inc[a].pc # "idle" PROVE inc[a].lap = 0
    BY <1>1, <2>1, <2>2, IncrRecords DEF NotAhead, CounterTypes
  <2>3. ASSUME NEW a \in Readers, rd[a].pc # "idle" PROVE rd[a].lap = 0
    <3>1. rd[a].lap \in Laps
      BY <2>3, TotalRecords DEF CounterTypes
    <3> QED BY <1>1, <2>1, <2>3, <3>1 DEF NotAhead
  <2> QED BY <1>1, <2>1, <2>2, <2>3 DEF NotAhead, CounterTypes
<1>4. ASSUME NEW a \in Incrs, IncrBegin(a) PROVE FirstLap'
  <2>1. UNCHANGED <<now, counters, adds, rd>>
    BY <1>4 DEF IncrBegin
  <2>2. \A b \in Incrs : inc'[b].pc \in {"idle", "load", "add"}
    BY <1>2, <1>4 DEF IncrBegin, CounterTypes
  <2>3. SumFunction(CalledFirst(calls')) = SumFunction(CalledFirst(calls)) + 1
    <3> DEFINE f == CalledFirst(calls)
    <3>1. f \in [Times -> Nat] /\ CalledFirst(calls') = [f EXCEPT ![now] = @ + 1]
      BY <1>1, <1>4 DEF CalledFirst, IncrBegin, CounterTypes
    <3> HIDE DEF f
    <3>2. SumFunction([f EXCEPT ![now] = @ + 1]) = SumFunction(f) + 1
      <4>1. IsFiniteSet(Times) /\ now \in Times /\ f \in [Times -> Nat]
        BY <3>1, Clocks DEF CounterTypes
      <4> QED BY <4>1, FnBump
    <3> QED BY <3>1, <3>2 DEF f
  <2>4. /\ Cardinality(Running(inc')) = Cardinality(Running(inc)) + 1
        /\ Cardinality(Running(inc)) \in Nat /\ SumFunction(counters) \in Nat
    BY <1>4, RunningIs, AddBumps
  <2>5. SumFunction(counters') + Cardinality(Running(inc')) = SumFunction(CalledFirst(calls'))
    BY <1>2, <2>1, <2>3, <2>4
  <2> QED BY <1>2, <2>1, <2>2, <2>5 DEF FirstLap
<1>5. ASSUME NEW a \in Incrs, IncrLoad(a) PROVE FirstLap'
  <2>1. inc[a].lap = 0 /\ inc[a].idx \in Ring
    BY <1>3, <1>5, IncrRecords DEF IncrLoad, CounterTypes
  <2>2. laps[inc[a].idx] = inc[a].lap
    BY <1>3, <2>1
  <2>3. \A b \in Incrs : inc'[b].pc \in {"idle", "load", "add"}
    BY <1>2, <1>5, <2>2 DEF IncrLoad, CounterTypes
  <2>4. UNCHANGED <<now, counters, adds, rd, calls>> /\ Running(inc') = Running(inc)
    BY <1>5, RunningIs DEF IncrLoad
  <2> QED BY <1>2, <2>3, <2>4 DEF FirstLap
<1>6. ASSUME NEW a \in Incrs, IncrCas(a) \/ IncrStore(a) PROVE FirstLap'
  BY <1>2, <1>6 DEF IncrCas, IncrStore
<1>7. ASSUME NEW a \in Incrs, IncrAdd(a) PROVE FirstLap'
  <2>1. UNCHANGED <<now, rd, calls>>
    BY <1>7 DEF IncrAdd
  <2>2. \A b \in Incrs : inc'[b].pc \in {"idle", "load", "add"}
    BY <1>2, <1>7 DEF IncrAdd, CounterTypes, IdleInc
  <2>3. /\ Cardinality(Running(inc')) + 1 = Cardinality(Running(inc)) /\ Cardinality(Running(inc)) \in Nat
    BY <1>7, RunningIs
  <2>4. Cardinality(Running(inc')) \in Nat
    <3>1. Running(inc') \in SUBSET Incrs
      BY DEF Running
    <3> QED BY <3>1, CounterConstants, FS_Subset, FS_CardinalityType
  <2>5. /\ SumFunction(counters') = SumFunction(counters) + 1 /\ SumFunction(counters) \in Nat
        /\ SumFunction(adds') = SumFunction(adds) + 1
    BY <1>7, AddBumps
  <2>6. /\ SumFunction(counters') = SumFunction(adds')
        /\ SumFunction(counters') + Cardinality(Running(inc')) = SumFunction(CalledFirst(calls'))
    BY <1>2, <2>1, <2>3, <2>4, <2>5
  <2>7. ASSUME NEW b \in Readers, rd[b].pc # "idle" PROVE Reads(rd[b], counters')
    <3>1. rd[b] \in TotalsUnderWay /\ Reads(rd[b], counters)
      BY <1>2, <2>7, TotalRecords DEF CounterTypes
    <3>2. /\ counters \in [Ring -> Nat] /\ counters' \in [Ring -> Nat]
          /\ \A i \in Ring : counters[i] <= counters'[i]
      BY <1>7, CounterTypesStep DEF IncrAdd, CounterTypes
    <3> QED BY <3>1, <3>2, ReadsGrow
  <2> QED BY <2>1, <2>2, <2>6, <2>7 DEF FirstLap
<1>8. ASSUME NEW a \in Readers, UNCHANGED <<now, counters, laps, inc, calls, adds>>,
             \A b \in Readers \ {a} : rd'[b] = rd[b],
             rd'[a].pc # "idle" => Reads(rd'[a], counters)
      PROVE  FirstLap'
  BY <1>2, <1>8 DEF FirstLap
<1>9. ASSUME NEW a \in Readers, TotalBegin(a) PROVE FirstLap'
  <2> DEFINE r == [pc |-> "lap", lap |-> Lap(now), i |-> 0, sum |-> 0, from |-> SumFunction(adds)]
  <2>1. rd' = [rd EXCEPT ![a] = r] /\ UNCHANGED <<now, counters, laps, inc, calls, adds>>
    BY <1>9 DEF TotalBegin
  <2>2. Unread(r) = Ring /\ Ring \ Unread(r) = {} /\ r.sum = 0 /\ r.from = SumFunction(adds)
    BY DEF Unread, Ring
  <2> HIDE DEF r
  <2>3. SumFunctionOnSet(counters, Ring) = SumFunction(adds) /\ SumFunction(adds) \in Nat
    BY <1>2, Clocks, FnSum DEF CounterTypes
  <2>4. Reads(r, counters)
    BY <2>2, <2>3, SumEmpty DEF Reads
  <2>5. rd'[a] = r /\ \A b \in Readers \ {a} : rd'[b] = rd[b]
    BY <2>1 DEF CounterTypes
  <2> QED BY <1>8, <2>1, <2>4, <2>5
<1>10. ASSUME NEW a \in Readers, TotalLap(a) PROVE FirstLap'
  <2>1. rd[a] \in TotalsUnderWay /\ rd[a].pc = "lap" /\ rd[a].lap = 0 /\ Reads(rd[a], counters)
    BY <1>2, <1>3, <1>10, TotalRecords DEF TotalLap, CounterTypes
  <2> DEFINE r == [rd[a] EXCEPT !.pc = "count"]
  <2>2. laps[rd[a].i] = rd[a].lap
    BY <1>3, <2>1 DEF TotalsUnderWay
  <2>3. rd' = [rd EXCEPT ![a] = r] /\ UNCHANGED <<now, counters, laps, inc, calls, adds>>
    BY <1>10, <2>2 DEF TotalLap
  <2>4. Unread(r) = Unread(rd[a]) /\ r.sum = rd[a].sum /\ r.from = rd[a].from
    BY <2>1 DEF Unread, TotalsUnderWay
  <2> HIDE DEF r
  <2>5. Reads(r, counters)
    BY <2>1, <2>4 DEF Reads
  <2>6. rd'[a] = r /\ \A b \in Readers \ {a} : rd'[b] = rd[b]
    BY <2>3 DEF CounterTypes
  <2> QED BY <1>8, <2>3, <2>5, <2>6
<1>11. ASSUME NEW a \in Readers, TotalCount(a) PROVE FirstLap'
  <2>1. rd[a] \in TotalsUnderWay /\ rd[a].pc = "count" /\ Reads(rd[a], counters)
    BY <1>2, <1>11, TotalRecords DEF TotalCount, CounterTypes
  <2> DEFINE r == NextBucket([rd[a] EXCEPT !.sum = @ + counters[rd[a].i]])
  <2>2. rd' = [rd EXCEPT ![a] = r] /\ UNCHANGED <<now, counters, laps, inc, calls, adds>>
    BY <1>11 DEF TotalCount
  <2>3. Reads(r, counters)
    BY <2>1, ReadBucket DEF CounterTypes
  <2> HIDE DEF r
  <2>4. rd'[a] = r /\ \A b \in Readers \ {a} : rd'[b] = rd[b]
    BY <2>2 DEF CounterTypes
  <2> QED BY <1>8, <2>2, <2>3, <2>4
<1>12. ASSUME NEW a \in Readers, TotalReturn(a) PROVE FirstLap'
  BY <1>8, <1>12 DEF TotalReturn, CounterTypes, IdleRd
<1>13. CASE UNCHANGED <<counters, inc, rd, calls, adds>>
  BY <1>2, <1>13 DEF FirstLap
<1> QED BY <1>4, <1>5, <1>6, <1>7, <1>9, <1>10, <1>11, <1>12, <1>13
     DEF CounterNext, Clock, Incr, Total, counterVars

\* The rolling counter's invariant, for any number of callers, buckets and laps.
LEMMA CounterInvariant == CounterSpec => []CounterInv
<1>1. CounterInv /\ [CounterNext]_counterVars => CounterInv'
  BY CounterTypesStep, NotAheadStep, AccountedStep, SettledStep, FirstLapStep DEF CounterInv
<1> QED BY <1>1, CounterInitInv, PTL DEF CounterSpec

\* However the callers of incr and total interleave, the counter's state is typed
\* and no bucket, and no lap, ever counts more than the calls made: the sum of
\* the buckets is at most the additions made, and those at most the calls begun.
THEOREM CounterTypeCorrect == CounterSpec => []CounterTypeOK
<1>1. CounterInv => CounterTypeOK
  <2> SUFFICES ASSUME CounterInv PROVE CounterTypeOK
    OBVIOUS
  <2> USE DEF CounterInv
  <2>1. Cardinality(Running(inc)) \in Nat
    <3>1. Running(inc) \in SUBSET Incrs
      BY DEF Running
    <3> QED BY <3>1, CounterConstants, FS_Subset, FS_CardinalityType
  <2>2. SumFunction(counters) = SumFunctionOnSet(counters, Ring) /\ SumFunction(counters) \in Nat
    BY Clocks, FnSum DEF CounterTypes
  <2>3. SumFunction(adds) = SumFunctionOnSet(adds, Laps) /\ SumFunction(adds) \in Nat
    BY Clocks, FnSum DEF CounterTypes
  <2>4. SumFunction(calls) = SumFunctionOnSet(calls, Times) /\ SumFunction(calls) \in Nat
    BY Clocks, FnSum DEF CounterTypes
  <2>5. SumFunction(counters) <= MaxAdds /\ SumFunction(adds) <= MaxAdds /\ SumFunction(calls) <= MaxAdds
    BY <2>1, <2>2, <2>3, <2>4, CounterConstants DEF Accounted
  <2>6. ASSUME NEW i \in Ring PROVE counters[i] \in 0..MaxAdds
    <3>1. counters[i] <= SumFunctionOnSet(counters, Ring) /\ counters[i] \in Nat
      BY Clocks, SumTerm DEF CounterTypes
    <3> QED BY <2>2, <2>5, <3>1, CounterConstants
  <2>7. ASSUME NEW l \in Laps PROVE adds[l] \in 0..MaxAdds
    <3>1. adds[l] <= SumFunctionOnSet(adds, Laps) /\ adds[l] \in Nat
      BY Clocks, SumTerm DEF CounterTypes
    <3> QED BY <2>3, <2>5, <3>1, CounterConstants
  <2>8. ASSUME NEW t \in Times PROVE calls[t] \in 0..MaxAdds
    <3>1. calls[t] <= SumFunctionOnSet(calls, Times) /\ calls[t] \in Nat
      BY Clocks, SumTerm DEF CounterTypes
    <3> QED BY <2>4, <2>5, <3>1, CounterConstants
  <2>9. \A a \in Incrs : inc[a].pc \in {"idle", "load", "cas", "store", "add"}
    BY DEF CounterTypes, IncrCalls, IdleInc
  <2>10. \A a \in Readers : rd[a].pc \in {"idle", "lap", "count", "done"}
    BY DEF CounterTypes, TotalCalls, TotalsUnderWay, IdleRd
  <2> QED BY <2>6, <2>7, <2>8, <2>9, <2>10 DEF CounterTypeOK, CounterTypes
<1> QED BY <1>1, CounterInvariant, PTL

\* In the first lap no increment is lost and none counted twice, for any number
\* of tasks and buckets: once the calls of incr have returned, the window holds
\* exactly the calls made in it.
THEOREM FirstLapIsExact == CounterSpec => []FirstLapExact
<1>1. CounterInv => FirstLapExact
  <2> SUFFICES ASSUME CounterInv, NoIncrRunning, Lap(now) = 0 PROVE Current = CallsInLap(0)
    BY DEF FirstLapExact
  <2> USE DEF CounterInv
  <2>1. Running(inc) = {} /\ Cardinality(Running(inc)) = 0
    BY FS_EmptySet DEF NoIncrRunning, Running
  <2>2. ASSUME NEW i \in Ring PROVE laps[i] = Lap(now)
    <3>1. laps[i] <= 0 /\ laps[i] \in Nat
      BY Clocks DEF NotAhead, CounterTypes
    <3> QED BY <3>1
  <2>3. [i \in Ring |-> IF laps[i] = Lap(now) THEN counters[i] ELSE 0] = counters
    BY <2>2 DEF CounterTypes
  <2>4. SumFunction(counters) \in Nat
    BY Clocks, FnSum DEF CounterTypes
  <2>5. SumFunction(counters) + Cardinality(Running(inc)) = SumFunction(CalledFirst(calls))
    BY DEF FirstLap
  <2> QED BY <2>1, <2>3, <2>4, <2>5 DEF Current, CallsInLap, CalledFirst
<1> QED BY <1>1, CounterInvariant, PTL

\* In every lap and for any number of tasks and buckets, while no reset is under
\* way the window holds no increment that was not made in this lap, even though
\* a task whose reading of the clock is laps old may set a bucket's lap back.
THEOREM NothingOldIsCounted == CounterSpec => []NoOldCounts
<1>1. CounterInv => NoOldCounts
  <2> SUFFICES ASSUME CounterInv, \A a \in Incrs : inc[a].pc # "store"
               PROVE  Current <= adds[Lap(now)]
    BY DEF NoOldCounts
  <2>1. \A i \in Ring : ~Resetting(inc, i)
    BY DEF Resetting
  <2>2. [i \in Ring |-> IF laps[i] = Lap(now) THEN counters[i] ELSE 0]
          = Settled(now, counters, laps, inc)
    BY <2>1 DEF Settled
  <2> QED BY <2>2 DEF Current, SettledIsNew, CounterInv
<1> QED BY <1>1, CounterInvariant, PTL

\* A total that returns within the first lap counts every increment done when it
\* was called and none that is not done yet, although it reads the buckets one
\* after the other while others add to them.
THEOREM FirstLapTotals == CounterSpec => []FirstLapTotal
<1>1. CounterInv => FirstLapTotal
  <2> SUFFICES ASSUME CounterInv, NEW a \in Readers, rd[a].pc = "done", Lap(now) = 0
               PROVE  rd[a].from <= rd[a].sum /\ rd[a].sum <= SumFunction(adds)
    BY DEF FirstLapTotal
  <2> USE DEF CounterInv
  <2>1. Reads(rd[a], counters) /\ SumFunction(counters) = SumFunction(adds)
    BY DEF FirstLap
  <2>2. rd[a].from \in Nat /\ rd[a].sum \in Nat
    BY TotalRecords DEF CounterTypes
  <2>3. Unread(rd[a]) = {} /\ Ring \ Unread(rd[a]) = Ring
    BY DEF Unread
  <2>4. SumFunctionOnSet(counters, {}) = 0 /\ SumFunctionOnSet(counters, Ring) = SumFunction(counters)
    BY SumEmpty, Clocks, FnSum DEF CounterTypes
  <2> QED BY <2>1, <2>2, <2>3, <2>4 DEF Reads
<1> QED BY <1>1, CounterInvariant, PTL
=============================================================================
