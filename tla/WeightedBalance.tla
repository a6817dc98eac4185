---------------------------- MODULE WeightedBalance ----------------------------
(***************************************************************************)
(* WeightedBalance: a ReadyCache of services, the index chosen in it for   *)
(* the next call, and the stream of discovery changes.                     *)
(*                                                                         *)
(* ReadyCache (tower) keeps the ready services in an indexed order that    *)
(* removals disturb (swap_remove) and the others in a pending set.  One    *)
(* poll_ready is the steps Discover*, Promote*, then Select; the change    *)
(* stream may grow between any two of them.                                *)
(***************************************************************************)
EXTENDS Integers, Sequences, FiniteSets, SequencesExt

CONSTANTS
    Keys,        \* the keys of the discovery, with their weights in Weight
    Weight,      \* HasWeight::weight, as [Keys -> Nat]
    ChanCap      \* changes the stream holds: the initial inserts and the channel

ASSUME BalanceConstants ==
    /\ IsFiniteSet(Keys) /\ Keys # {} /\ Weight \in [Keys -> Nat]
    /\ ChanCap \in Nat /\ ChanCap >= Cardinality(Keys)

VARIABLES
    chan,        \* discovery changes not yet polled
    ready,       \* the ready services, in cache order
    pending,     \* the services being polled for readiness
    index,       \* ready_index, NoIndex when None
    pc,          \* where the caller is: see Pcs
    members,     \* history: keys inserted, not removed since and not failed
    repolled,    \* history: poll_ready was called again after it was Ready
    called       \* history: of the last call: its service's weight, if it was the only one

history == <<members, repolled, called>>
vars == <<chan, ready, pending, index, pc, history>>

NoIndex == 0
Pcs == {"idle", "discover", "promote", "select", "ready", "failed"}
Change == [op : {"insert", "remove"}, key : Keys]
NoCall == [weight |-> 0, alone |-> TRUE, repolled |-> FALSE]

Elems(s) == {s[i] : i \in DOMAIN s}

TypeOK ==
    /\ chan \in Seq(Change) /\ Len(chan) <= ChanCap
    /\ ready \in Seq(Keys)
    /\ pending \subseteq Keys /\ members \subseteq Keys
    /\ index \in 0..Cardinality(Keys)
    /\ pc \in Pcs /\ repolled \in BOOLEAN

\* Discovery starts with one insert for every configured key, in any order.
Init ==
    /\ \E order \in [1..Cardinality(Keys) -> Keys] :
         /\ \A i, j \in DOMAIN order : order[i] = order[j] => i = j
         /\ chan = [i \in DOMAIN order |-> [op |-> "insert", key |-> order[i]]]
    /\ ready = <<>> /\ pending = {}
    /\ index = NoIndex /\ pc = "idle"
    /\ members = {} /\ repolled = FALSE /\ called = NoCall

-----------------------------------------------------------------------------
\* ReadyCache, as the balancer uses it.

\* swap_remove: the last service takes the place of the one removed.
SwapRemove(s, i) ==
    IF i = Len(s) THEN Front(s) ELSE [Front(s) EXCEPT ![i] = Last(s)]

Without(s, k) ==
    IF k \in Elems(s) THEN SwapRemove(s, CHOOSE i \in DOMAIN s : s[i] = k) ELSE s

\* A service that becomes ready joins at the end, or replaces its older self.
Joined(s, k) == IF k \in Elems(s) THEN s ELSE Append(s, k)

-----------------------------------------------------------------------------
\* The environment: the monitors' changes, in any order.
Announce(ch) ==
    /\ Len(chan) < ChanCap
    /\ chan' = Append(chan, ch)
    /\ UNCHANGED <<ready, pending, index, pc, history>>

\* The caller enters poll_ready.  A Service may be polled again before it is
\* called; the Buffer of this gateway does not do it, other callers may.
Poll ==
    /\ pc \in {"idle", "ready"}
    /\ pc' = "discover"
    /\ repolled' = (pc = "ready" \/ repolled)
    /\ UNCHANGED <<chan, ready, pending, index, members, called>>

\* update_pending_from_discover: evict or push
DiscoverChange ==
    /\ pc = "discover" /\ chan # <<>>
    /\ chan' = Tail(chan)
    /\ LET ch == Head(chan) IN
         IF ch.op = "remove"
         THEN /\ ready' = Without(ready, ch.key)
              /\ pending' = pending \ {ch.key}
              /\ members' = members \ {ch.key}
         ELSE /\ pending' = pending \cup {ch.key}
              /\ members' = members \cup {ch.key}
              /\ UNCHANGED ready
    /\ UNCHANGED <<index, pc, repolled, called>>

DiscoverPending ==
    /\ pc = "discover" /\ chan = <<>>
    /\ pc' = "promote"
    /\ UNCHANGED <<chan, ready, pending, index, history>>

\* promote_pending_to_ready: a pending service answers that it is ready ..
Promote(k) ==
    /\ pc = "promote" /\ k \in pending
    /\ pending' = pending \ {k}
    /\ ready' = Joined(ready, k)
    /\ UNCHANGED <<chan, index, pc, history>>

\* .. or fails and is dropped (an older, still ready self stays).
PromoteFails(k) ==
    /\ pc = "promote" /\ k \in pending
    /\ pending' = pending \ {k}
    /\ members' = IF k \in Elems(ready) THEN members ELSE members \ {k}
    /\ UNCHANGED <<chan, ready, index, pc, repolled, called>>

\* The services left pending are not ready.
PromoteDone ==
    /\ pc = "promote"
    /\ pc' = "select"
    /\ UNCHANGED <<chan, ready, pending, index, history>>

\* Mutation of CheckReady: an index kept from an earlier poll is trusted.
CheckReadyBlind ==
    /\ pc = "select" /\ index # NoIndex
    /\ pc' = "ready"
    /\ UNCHANGED <<chan, ready, pending, index, history>>

\* check_ready_index(index) is Ok(true): poll_ready returns Ready.
CheckReady ==
    /\ pc = "select" /\ index \in DOMAIN ready
    /\ pc' = "ready"
    /\ UNCHANGED <<chan, ready, pending, index, history>>

\* Ok(false): the service went back to pending; or the index is out of range.
CheckNotReady ==
    /\ pc = "select" /\ index # NoIndex
    /\ index' = NoIndex
    /\ IF index \in DOMAIN ready
       THEN /\ ready' = SwapRemove(ready, index)
            /\ pending' = pending \cup {ready[index]}
       ELSE UNCHANGED <<ready, pending>>
    /\ UNCHANGED <<chan, pc, history>>

\* Err(Failed): the selected service failed and is dropped.
CheckFailed ==
    /\ pc = "select" /\ index \in DOMAIN ready
    /\ index' = NoIndex
    /\ ready' = SwapRemove(ready, index)
    /\ members' = IF ready[index] \in pending THEN members ELSE members \ {ready[index]}
    /\ UNCHANGED <<chan, pending, pc, repolled, called>>

\* Mutation of ReadyIndex: weights are ignored.
ReadyIndexAny(i) == i \in DOMAIN ready

\* ready_index(): a single service is taken as it is, several are sampled in
\* proportion to their weights, so one of weight zero is never drawn.
ReadyIndex(i) ==
    /\ i \in DOMAIN ready
    /\ Len(ready) = 1 \/ Weight[ready[i]] > 0

\* A service is chosen, and the loop checks it next.
Choose(i) ==
    /\ pc = "select" /\ index = NoIndex
    /\ ReadyIndex(i)
    /\ index' = i
    /\ UNCHANGED <<chan, ready, pending, pc, history>>

\* Nothing is ready: poll_ready returns Pending.
ChooseNone ==
    /\ pc = "select" /\ index = NoIndex /\ ready = <<>>
    /\ pc' = "idle"
    /\ UNCHANGED <<chan, ready, pending, index, history>>

\* Several are ready and none can be drawn: poll_ready returns SampleFailed,
\* after which the Buffer in front of the balancer fails every request.
ChooseFails ==
    /\ pc = "select" /\ index = NoIndex /\ ready # <<>>
    /\ \A i \in DOMAIN ready : ~ReadyIndex(i)
    /\ pc' = "failed"
    /\ UNCHANGED <<chan, ready, pending, index, history>>

\* Mutation of Call: the service is not put back among the pending ones.
CallConsumes ==
    /\ pc = "ready" /\ index # NoIndex
    /\ called' = [weight |-> Weight[ready[index]], alone |-> Len(ready) = 1,
                  repolled |-> repolled]
    /\ repolled' = FALSE
    /\ ready' = SwapRemove(ready, index)
    /\ index' = NoIndex /\ pc' = "idle"
    /\ UNCHANGED <<chan, pending, members>>

\* call: the chosen service is used and has to become ready again.
Call ==
    /\ pc = "ready" /\ index # NoIndex
    /\ called' = [weight |-> Weight[ready[index]], alone |-> Len(ready) = 1,
                  repolled |-> repolled]
    /\ repolled' = FALSE
    /\ ready' = SwapRemove(ready, index)
    /\ pending' = pending \cup {ready[index]}
    /\ index' = NoIndex /\ pc' = "idle"
    /\ UNCHANGED <<chan, members>>

Next ==
    \/ \E ch \in Change : Announce(ch)
    \/ Poll \/ DiscoverChange \/ DiscoverPending
    \/ \E k \in Keys : Promote(k) \/ PromoteFails(k)
    \/ PromoteDone \/ CheckReady \/ CheckNotReady \/ CheckFailed
    \/ \E i \in 1..Cardinality(Keys) : Choose(i)
    \/ ChooseNone \/ ChooseFails \/ Call

Spec == Init /\ [][Next]_vars

-----------------------------------------------------------------------------
\* Properties.

\* When poll_ready has returned Ready, the index that call will take is that
\* of a ready service, whatever was removed since it was chosen: call's
\* "called before ready" and the cache's own range check cannot fire.
IndexIsReady == pc = "ready" => index \in DOMAIN ready

\* The cache neither loses nor invents a service while services move between
\* ready and pending, are replaced, evicted or called: it tracks exactly the
\* members, and the ready order holds each at most once.
MembersTracked ==
    /\ Elems(ready) \cup pending = members
    /\ \A i, j \in DOMAIN ready : ready[i] = ready[j] => i = j

\* A service of weight zero gets a request only when it is the only one ready,
\* if the balancer is called as soon as it is ready.  (Polled again meanwhile,
\* a removal may move it to the chosen index.)
ZeroWeightLast ==
    called.weight = 0 /\ ~called.repolled => called.alone
=============================================================================
