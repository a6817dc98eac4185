------------------------ MODULE WeightedBalanceProofs ------------------------
(***************************************************************************)
(* The weighted balancer's bookkeeping over tower's ReadyCache, for every  *)
(* set of services, all weights and every order of changes.                *)
(***************************************************************************)
EXTENDS WeightedBalance, SequenceTheorems, FiniteSetTheorems, TLAPS

Injective(s) == \A i, j \in DOMAIN s : s[i] = s[j] => i = j

\* An index chosen since the last call, with no poll repeated meanwhile, is that
\* of a service that the weights allow to be called.
ChosenByWeight ==
    ~repolled /\ index # NoIndex =>
        /\ pc \in {"select", "ready"} /\ index \in DOMAIN ready
        /\ Len(ready) = 1 \/ Weight[ready[index]] > 0

CallTypes == called \in [weight : Nat, alone : BOOLEAN, repolled : BOOLEAN]

BalanceInv ==
    /\ TypeOK /\ CallTypes
    /\ MembersTracked /\ IndexIsReady /\ ChosenByWeight /\ ZeroWeightLast

-----------------------------------------------------------------------------
\* Sequences of services.

LEMMA SeqFacts ==
    ASSUME NEW s \in Seq(Keys)
    PROVE  /\ Len(s) \in Nat /\ DOMAIN s = 1..Len(s) /\ s \in [1..Len(s) -> Keys]
           /\ Elems(s) \in SUBSET Keys
           /\ \A i \in DOMAIN s : s[i] \in Keys /\ s[i] \in Elems(s)
  BY LenProperties DEF Elems

LEMMA FrontFacts ==
    ASSUME NEW s \in Seq(Keys), NEW n \in Nat, Len(s) = n + 1
    PROVE  /\ Front(s) \in Seq(Keys) /\ Len(Front(s)) = n /\ DOMAIN Front(s) = 1..n
           /\ \A i \in 1..n : Front(s)[i] = s[i]
           /\ Last(s) = s[n + 1] /\ DOMAIN s = 1..(n + 1)
<1>1. s \in [1..(n + 1) -> Keys] /\ DOMAIN s = 1..(n + 1)
  BY LenProperties
<1>2. /\ Front(s) \in Seq(Keys) /\ Len(Front(s)) = n
      /\ \A i \in 1..n : Front(s)[i] = s[i]
  <2>1. Front(s) = SubSeq(s, 1, n)
    BY DEF Front
  <2>2. \A i \in 1..n : s[i] \in Keys
    BY <1>1
  <2>3. /\ SubSeq(s, 1, n) \in Seq(Keys)
        /\ Len(SubSeq(s, 1, n)) = IF 1 <= n THEN n - 1 + 1 ELSE 0
        /\ \A i \in 1..(n - 1 + 1) : SubSeq(s, 1, n)[i] = s[1 + i - 1]
    BY <2>2, SubSeqProperties
  <2> QED BY <2>1, <2>3
<1>3. DOMAIN Front(s) = 1..n
  BY <1>2, LenProperties
<1> QED BY <1>1, <1>2, <1>3 DEF Last

\* swap_remove takes out the service at i, and leaves every other once.
LEMMA SwapRemoveFacts ==
    ASSUME NEW s \in Seq(Keys), NEW i \in DOMAIN s, Injective(s)
    PROVE  /\ SwapRemove(s, i) \in Seq(Keys) /\ Len(SwapRemove(s, i)) = Len(s) - 1
           /\ Injective(SwapRemove(s, i))
           /\ Elems(SwapRemove(s, i)) = Elems(s) \ {s[i]}
<1>1. PICK n \in Nat : Len(s) = n + 1
  <2>1. Len(s) \in Nat /\ DOMAIN s = 1..Len(s)
    BY SeqFacts
  <2>2. Len(s) - 1 \in Nat /\ Len(s) = (Len(s) - 1) + 1
    BY <2>1
  <2> QED BY <2>2
<1>2. /\ Front(s) \in Seq(Keys) /\ Len(Front(s)) = n /\ DOMAIN Front(s) = 1..n
      /\ \A j \in 1..n : Front(s)[j] = s[j]
      /\ Last(s) = s[n + 1] /\ DOMAIN s = 1..(n + 1)
      /\ \A j \in 1..(n + 1) : s[j] \in Keys
  BY <1>1, FrontFacts, SeqFacts
<1> DEFINE t == SwapRemove(s, i)
<1>3. /\ t \in Seq(Keys) /\ Len(t) = n
      /\ \A j \in 1..n : t[j] = IF j = i THEN s[n + 1] ELSE s[j]
  <2>1. CASE i = n + 1
    <3>1. t = Front(s)
      BY <1>1, <2>1 DEF SwapRemove
    <3> QED BY <1>2, <2>1, <3>1
  <2>2. CASE i \in 1..n
    <3>1. t = [Front(s) EXCEPT ![i] = s[n + 1]]
      BY <1>1, <1>2, <2>2 DEF SwapRemove
    <3>2. s[n + 1] \in Keys
      BY <1>2
    <3> QED BY <1>2, <2>2, <3>1, <3>2, ExceptSeq
  <2> QED BY <1>2, <2>1, <2>2
<1>4. DOMAIN t = 1..n
  BY <1>3, LenProperties
<1> HIDE DEF t
<1>5. Injective(t)
  BY <1>2, <1>3, <1>4 DEF Injective
<1>6. Elems(t) = Elems(s) \ {s[i]}
  <2>1. ASSUME NEW j \in 1..n PROVE t[j] \in Elems(s) /\ t[j] # s[i]
    BY <1>2, <1>3, <2>1 DEF Injective, Elems
  <2>2. ASSUME NEW j \in 1..(n + 1), s[j] # s[i] PROVE s[j] \in Elems(t)
    <3>1. CASE j \in 1..n
      BY <1>3, <1>4, <2>2, <3>1 DEF Elems
    <3>2. CASE j = n + 1
      <4>1. i \in 1..n /\ t[i] = s[n + 1]
        BY <1>2, <1>3, <2>2, <3>2
      <4> QED BY <1>4, <3>2, <4>1 DEF Elems
    <3> QED BY <3>1, <3>2
  <2> QED BY <1>2, <1>4, <2>1, <2>2 DEF Elems
<1> QED BY <1>1, <1>3, <1>5, <1>6 DEF t

LEMMA WithoutFacts ==
    ASSUME NEW s \in Seq(Keys), NEW k, Injective(s)
    PROVE  /\ Without(s, k) \in Seq(Keys) /\ Injective(Without(s, k))
           /\ Elems(Without(s, k)) = Elems(s) \ {k}
<1>1. CASE k \notin Elems(s)
  BY <1>1 DEF Without
<1>2. CASE k \in Elems(s)
  <2>1. PICK i \in DOMAIN s : s[i] = k /\ Without(s, k) = SwapRemove(s, i)
    BY <1>2 DEF Without, Elems
  <2> QED BY <2>1, SwapRemoveFacts
<1> QED BY <1>1, <1>2

LEMMA JoinedFacts ==
    ASSUME NEW s \in Seq(Keys), NEW k \in Keys, Injective(s)
    PROVE  /\ Joined(s, k) \in Seq(Keys) /\ Injective(Joined(s, k))
           /\ Elems(Joined(s, k)) = Elems(s) \cup {k}
<1>1. CASE k \in Elems(s)
  BY <1>1 DEF Joined
<1>2. CASE k \notin Elems(s)
  <2> DEFINE t == Append(s, k)
             n == Len(s)
  <2>1. /\ n \in Nat /\ DOMAIN s = 1..n /\ t \in Seq(Keys) /\ DOMAIN t = 1..(n + 1)
        /\ t[n + 1] = k /\ \A i \in 1..n : t[i] = s[i]
    BY AppendProperties, LenProperties
  <2> HIDE DEF t, n
  <2>2. Injective(t)
    BY <1>2, <2>1 DEF Injective, Elems
  <2>3. Elems(t) = Elems(s) \cup {k}
    <3>1. \A i \in 1..(n + 1) : i = n + 1 \/ i \in 1..n
      BY <2>1
    <3>2. n + 1 \in 1..(n + 1) /\ \A i \in 1..n : i \in 1..(n + 1)
      BY <2>1
    <3> QED BY <2>1, <3>1, <3>2 DEF Elems
  <2> QED BY <1>2, <2>1, <2>2, <2>3 DEF Joined, t
<1> QED BY <1>1, <1>2

-----------------------------------------------------------------------------
LEMMA NumberOfKeys == Cardinality(Keys) \in Nat \ {0}
  BY BalanceConstants, FS_CardinalityType, FS_EmptySet

LEMMA InitBalance == Init => BalanceInv
<1> SUFFICES ASSUME Init PROVE BalanceInv
  OBVIOUS
<1>1. ready \in Seq(Keys) /\ DOMAIN ready = {}
  BY EmptySeq DEF Init
<1>2. chan \in Seq(Change) /\ Len(chan) <= ChanCap
  <2>1. PICK order \in [1..Cardinality(Keys) -> Keys] :
             chan = [i \in DOMAIN order |-> [op |-> "insert", key |-> order[i]]]
    BY DEF Init
  <2>2. chan \in [1..Cardinality(Keys) -> Change]
    BY <2>1 DEF Change
  <2>3. chan \in Seq(Change)
    BY <2>2, NumberOfKeys, SeqDef
  <2>4. Len(chan) \in Nat /\ 1..Len(chan) = 1..Cardinality(Keys)
    BY <2>2, <2>3, LenProperties
  <2>5. Len(chan) = Cardinality(Keys)
    BY <2>4, NumberOfKeys
  <2> QED BY <2>3, <2>5, BalanceConstants
<1>3. TypeOK /\ CallTypes
  <2>1. repolled \in BOOLEAN
    BY Zenon DEF Init
  <2>2. CallTypes
    BY DEF Init, CallTypes, NoCall
  <2> QED BY <1>1, <1>2, <2>1, <2>2, NumberOfKeys DEF Init, TypeOK, Pcs, NoIndex
<1>4. MembersTracked
  BY <1>1 DEF Init, MembersTracked, Elems
<1> QED BY <1>3, <1>4 DEF Init, BalanceInv, IndexIsReady, ChosenByWeight, ZeroWeightLast, NoCall

\* The steps of the environment, and those that only move the caller
LEMMA MovingStep ==
    ASSUME BalanceInv,
           \/ \E ch \in Change : Announce(ch)
           \/ Poll \/ DiscoverPending \/ PromoteDone \/ CheckReady \/ ChooseNone \/ ChooseFails
           \/ \E i \in 1..Cardinality(Keys) : Choose(i)
    PROVE  BalanceInv'
<1>1. UNCHANGED <<ready, pending, members, called>>
  BY DEF Announce, Poll, DiscoverPending, PromoteDone, CheckReady, ChooseNone, ChooseFails,
         Choose, history
<1>2. chan' \in Seq(Change) /\ Len(chan') <= ChanCap
  <2>1. CASE \E ch \in Change : Announce(ch)
    <3>1. PICK ch \in Change : Announce(ch)
      BY <2>1
    <3>2. chan \in Seq(Change) /\ Len(chan) \in Nat /\ Len(chan) < ChanCap
      BY <3>1, LenProperties DEF Announce, BalanceInv, TypeOK
    <3>3. chan' \in Seq(Change) /\ Len(chan') = Len(chan) + 1
      BY <3>1, <3>2, AppendProperties DEF Announce
    <3> QED BY <3>2, <3>3, BalanceConstants
  <2>2. CASE chan' = chan
    BY <2>2 DEF BalanceInv, TypeOK
  <2> QED BY <2>1, <2>2 DEF Poll, DiscoverPending, PromoteDone, CheckReady, ChooseNone,
                            ChooseFails, Choose
<1>3. index' \in 0..Cardinality(Keys) /\ pc' \in Pcs
  BY NumberOfKeys DEF Announce, Poll, DiscoverPending, PromoteDone, CheckReady, ChooseNone,
         ChooseFails, Choose, BalanceInv, TypeOK, Pcs
<1>4. repolled' \in BOOLEAN
  <2>1. CASE repolled' = repolled
    BY <2>1 DEF BalanceInv, TypeOK
  <2>2. CASE Poll
    BY <2>2, Zenon DEF Poll
  <2> QED BY <2>1, <2>2 DEF Announce, DiscoverPending, PromoteDone, CheckReady, ChooseNone,
                            ChooseFails, Choose, history
<1>5. TypeOK' /\ CallTypes' /\ MembersTracked' /\ ZeroWeightLast'
  <2>1. TypeOK'
    BY <1>1, <1>2, <1>3, <1>4 DEF BalanceInv, TypeOK
  <2> QED BY <1>1, <2>1 DEF BalanceInv, CallTypes, MembersTracked, ZeroWeightLast
<1>6. IndexIsReady'
  BY <1>1 DEF Announce, Poll, DiscoverPending, PromoteDone, CheckReady, ChooseNone,
         ChooseFails, Choose, BalanceInv, IndexIsReady
<1>7. ChosenByWeight'
  <2>1. CASE Poll
    BY <1>1, <2>1 DEF Poll, BalanceInv, ChosenByWeight
  <2>2. CASE \E i \in 1..Cardinality(Keys) : Choose(i)
    BY <1>1, <2>2 DEF Choose, ReadyIndex, ChosenByWeight
  <2>3. CASE \E ch \in Change : Announce(ch)
    BY <1>1, <2>3 DEF Announce, history, BalanceInv, ChosenByWeight
  <2>4. CASE DiscoverPending \/ PromoteDone \/ CheckReady \/ ChooseNone \/ ChooseFails
    BY <1>1, <2>4 DEF DiscoverPending, PromoteDone, CheckReady, ChooseNone, ChooseFails,
          history, BalanceInv, ChosenByWeight
  <2> QED BY <2>1, <2>2, <2>3, <2>4
<1> QED BY <1>5, <1>6, <1>7 DEF BalanceInv

\* The steps that change the cache
LEMMA CacheStep ==
    ASSUME BalanceInv,
           \/ DiscoverChange \/ CheckNotReady \/ CheckFailed \/ Call
           \/ \E k \in Keys : Promote(k) \/ PromoteFails(k)
    PROVE  BalanceInv'
<1>0. /\ ready \in Seq(Keys) /\ Injective(ready) /\ Elems(ready) \cup pending = members
      /\ pending \subseteq Keys /\ chan \in Seq(Change) /\ Len(chan) <= ChanCap
      /\ Elems(ready) \subseteq Keys
      /\ \A i \in DOMAIN ready : ready[i] \in Keys /\ ready[i] \in Elems(ready)
  BY SeqFacts DEF BalanceInv, MembersTracked, TypeOK, Injective
<1> DEFINE Tracked == /\ ready' \in Seq(Keys) /\ Injective(ready')
                      /\ Elems(ready') \cup pending' = members' /\ pending' \subseteq Keys
<1>a. ASSUME Tracked PROVE MembersTracked' /\ members' \subseteq Keys /\ ready' \in Seq(Keys)
  <2>1. Elems(ready') \subseteq Keys
    BY <1>a, SeqFacts
  <2> QED BY <1>a, <2>1 DEF MembersTracked, Injective, Elems
<1>1. CASE DiscoverChange
  <2>1. /\ chan # <<>> /\ chan' = Tail(chan) /\ UNCHANGED <<index, pc, repolled, called>>
        /\ pc = "discover"
    BY <1>1 DEF DiscoverChange
  <2>2. /\ Head(chan) \in Change /\ chan' \in Seq(Change) /\ Len(chan) \in Nat
        /\ Len(chan') = Len(chan) - 1
    BY <1>0, <2>1, HeadTailProperties, LenProperties
  <2>3. Tracked
    <3>1. CASE Head(chan).op = "remove"
      BY <1>0, <1>1, <3>1, WithoutFacts DEF DiscoverChange
    <3>2. CASE Head(chan).op # "remove"
      BY <1>0, <1>1, <2>2, <3>2 DEF DiscoverChange, Change
    <3> QED BY <3>1, <3>2
  <2>4. Len(chan') <= ChanCap
    BY <1>0, <2>2, BalanceConstants
  <2>5. TypeOK' /\ MembersTracked'
    BY <1>a, <2>1, <2>2, <2>3, <2>4 DEF BalanceInv, TypeOK
  <2>6. CallTypes' /\ IndexIsReady' /\ ChosenByWeight' /\ ZeroWeightLast'
    BY <2>1 DEF BalanceInv, CallTypes, IndexIsReady, ChosenByWeight, ZeroWeightLast
  <2> QED BY <2>5, <2>6 DEF BalanceInv
<1>2. ASSUME NEW k \in Keys, Promote(k) \/ PromoteFails(k) PROVE BalanceInv'
  <2>1. UNCHANGED <<chan, index, pc, repolled, called>> /\ pc = "promote"
    BY <1>2 DEF Promote, PromoteFails, history
  <2>2. Tracked
    <3>1. CASE Promote(k)
      <4>1. /\ ready' = Joined(ready, k) /\ pending' = pending \ {k} /\ k \in pending
            /\ members' = members
        BY <3>1 DEF Promote, history
      <4>2. /\ ready' \in Seq(Keys) /\ Injective(ready')
            /\ Elems(ready') = Elems(ready) \cup {k}
        BY <1>0, <4>1, JoinedFacts
      <4>3. (Elems(ready) \cup {k}) \cup (pending \ {k}) = members
        BY <1>0, <4>1
      <4> QED BY <1>0, <4>1, <4>2, <4>3
    <3>2. CASE PromoteFails(k)
      <4>1. /\ ready' = ready /\ pending' = pending \ {k}
            /\ members' = IF k \in Elems(ready) THEN members ELSE members \ {k}
        BY <3>2 DEF PromoteFails
      <4>2. Elems(ready) \cup (pending \ {k}) = members'
        BY <1>0, <4>1
      <4> QED BY <1>0, <4>1, <4>2
    <3> QED BY <1>2, <3>1, <3>2
  <2>3. TypeOK' /\ MembersTracked'
    BY <1>a, <2>1, <2>2 DEF BalanceInv, TypeOK
  <2>4. CallTypes' /\ IndexIsReady' /\ ChosenByWeight' /\ ZeroWeightLast'
    BY <2>1 DEF BalanceInv, CallTypes, IndexIsReady, ChosenByWeight, ZeroWeightLast
  <2> QED BY <2>3, <2>4 DEF BalanceInv
<1>3. CASE CheckNotReady \/ CheckFailed
  <2>1. /\ UNCHANGED <<chan, pc, repolled, called>> /\ pc = "select" /\ index' = NoIndex
    BY <1>3 DEF CheckNotReady, CheckFailed, history
  <2>2. Tracked
    <3>1. CASE index \in DOMAIN ready
      <4>1. /\ SwapRemove(ready, index) \in Seq(Keys) /\ Injective(SwapRemove(ready, index))
            /\ Elems(SwapRemove(ready, index)) = Elems(ready) \ {ready[index]}
        BY <1>0, <3>1, SwapRemoveFacts
      <4> QED BY <1>0, <1>3, <3>1, <4>1 DEF CheckNotReady, CheckFailed, history
    <3>2. CASE index \notin DOMAIN ready
      BY <1>0, <1>3, <3>2 DEF CheckNotReady, CheckFailed, history
    <3> QED BY <3>1, <3>2
  <2>3. TypeOK' /\ MembersTracked'
    BY <1>a, <2>1, <2>2, NumberOfKeys DEF BalanceInv, TypeOK, NoIndex
  <2>4. CallTypes' /\ IndexIsReady' /\ ChosenByWeight' /\ ZeroWeightLast'
    BY <2>1 DEF BalanceInv, CallTypes, IndexIsReady, ChosenByWeight, ZeroWeightLast
  <2> QED BY <2>3, <2>4 DEF BalanceInv
<1>4. CASE Call
  <2>1. /\ index \in DOMAIN ready /\ ready[index] \in Keys /\ index # NoIndex
        /\ Weight[ready[index]] \in Nat
    BY <1>0, <1>4, BalanceConstants DEF Call, BalanceInv, IndexIsReady
  <2>2. Tracked
    <3>1. /\ SwapRemove(ready, index) \in Seq(Keys) /\ Injective(SwapRemove(ready, index))
          /\ Elems(SwapRemove(ready, index)) = Elems(ready) \ {ready[index]}
      BY <1>0, <2>1, SwapRemoveFacts
    <3> QED BY <1>0, <1>4, <2>1, <3>1 DEF Call
  <2>3. repolled' \in BOOLEAN
    BY <1>4, Zenon DEF Call
  <2>4. TypeOK' /\ MembersTracked'
    BY <1>a, <1>4, <2>2, <2>3, NumberOfKeys DEF BalanceInv, TypeOK, NoIndex, Pcs, Call
  <2>5. CallTypes'
    BY <1>4, <2>1 DEF BalanceInv, TypeOK, CallTypes, Call
  <2>6. ZeroWeightLast'
    <3>1. repolled \/ Len(ready) = 1 \/ Weight[ready[index]] > 0
      BY <2>1 DEF BalanceInv, ChosenByWeight
    <3>2. called' = [weight |-> Weight[ready[index]], alone |-> Len(ready) = 1,
                     repolled |-> repolled]
      BY <1>4 DEF Call
    <3>3. CASE repolled
      <4>1. called'.repolled
        BY <3>2, <3>3
      <4> QED BY <4>1 DEF ZeroWeightLast
    <3>4. CASE Len(ready) = 1
      <4>1. called'.alone
        BY <3>2, <3>4
      <4> QED BY <4>1 DEF ZeroWeightLast
    <3>5. CASE Weight[ready[index]] > 0
      BY <2>1, <3>2, <3>5 DEF ZeroWeightLast
    <3> QED BY <3>1, <3>3, <3>4, <3>5
  <2>7. IndexIsReady' /\ ChosenByWeight'
    BY <1>4 DEF Call, IndexIsReady, ChosenByWeight
  <2> QED BY <2>4, <2>5, <2>6, <2>7 DEF BalanceInv
<1> QED BY <1>1, <1>2, <1>3, <1>4

\* The inductive invariant of the balancer
THEOREM BalanceInvariant == Spec => []BalanceInv
<1>1. BalanceInv /\ [Next]_vars => BalanceInv'
  <2> SUFFICES ASSUME BalanceInv, [Next]_vars PROVE BalanceInv'
    OBVIOUS
  <2>1. CASE UNCHANGED vars
    BY <2>1 DEF vars, history, BalanceInv, TypeOK, CallTypes, MembersTracked, IndexIsReady,
                ChosenByWeight, ZeroWeightLast, Elems
  <2>2. CASE Next
    BY <2>2, MovingStep, CacheStep DEF Next
  <2> QED BY <2>1, <2>2
<1> QED BY InitBalance, <1>1, PTL DEF Spec

\* Whatever is inserted, removed, replaced, failed or called, in any order, the
\* cache holds exactly the members, each once among the ready ones.
THEOREM BalancerTracksMembers == Spec => []MembersTracked
  BY BalanceInvariant, PTL DEF BalanceInv

\* call never finds its index out of range of the ready services.
THEOREM CallFindsItsService == Spec => []IndexIsReady
  BY BalanceInvariant, PTL DEF BalanceInv

\* A service of weight zero is called only if it is the only one ready, unless
\* the caller repeats poll_ready.
THEOREM ZeroWeightIsLast == Spec => []ZeroWeightLast
  BY BalanceInvariant, PTL DEF BalanceInv
=============================================================================
