-------------------------- MODULE RequestPathProofs --------------------------
(***************************************************************************)
(* No request reaches a provider past the layers of its path, no Buffer    *)
(* gives out more permits than it has room for, and a request's message    *)
(* is in one Buffer, once, while the request waits in one: for every       *)
(* number of requests and stacks, every Buffer size and every set of       *)
(* enabled layers.                                                         *)
(***************************************************************************)
EXTENDS RequestPath, FiniteSetTheorems, SequenceTheorems, TLAPS

\* A request that is somewhere is a record with a place and a destination.
LEMMA PlaceOf ==
    ASSUME PathTypes, NEW r \in Reqs, NEW P, "idle" \notin P, At(r, P)
    PROVE  req[r] \in [st : Places, to : Dests]
  BY DEF PathTypes, At, Idle

LEMMA InitPath == Init => PathInv
<1> SUFFICES ASSUME Init PROVE PathInv
  OBVIOUS
<1>1. PathTypes
  BY DEF Init, PathTypes, Idle, NoReq
<1>2. LayersPassed /\ ChargedBeforeProvider
  BY DEF Init, LayersPassed, ChargedBeforeProvider, At, Idle
<1> QED BY <1>1, <1>2 DEF PathInv

-----------------------------------------------------------------------------
\* The two invariants, said of one request's record and of what it has passed
Record == {Idle} \cup [st : Places, to : Dests]
Layers == {"auth", "globalLimit", "routerLimit"}
Fine(rec, pas) ==
    /\ rec.st = "limit" => layers \cap {"auth"} \subseteq pas
    /\ rec.st \in {"cache", "gbuf", "scache", "slimit", "dlimit", "unified"}
          => layers \ {"routerLimit"} \subseteq pas
    /\ rec.st \in {"sbuf", "dcache"} => layers \subseteq pas
    /\ rec.st = "provider"
          => layers \ (IF rec.to = "proxy" THEN {"routerLimit"} ELSE {}) \subseteq pas

LEMMA FineBefore ==
    ASSUME PathInv, NEW r \in Reqs
    PROVE  Fine(req[r], passed[r])
  BY DEF PathInv, LayersPassed, ChargedBeforeProvider, Required, At, Fine

\* A step that moves one request to a place it may be at keeps the invariants.
LEMMA OneMoves ==
    ASSUME PathInv, layers' = layers, NEW r \in Reqs,
           NEW rec \in Record, NEW pas \in SUBSET Layers, Fine(rec, pas),
           req' = [req EXCEPT ![r] = rec], passed' = [passed EXCEPT ![r] = pas]
    PROVE  /\ req' \in [Reqs -> Record] /\ passed' \in [Reqs -> SUBSET Layers]
           /\ LayersPassed' /\ ChargedBeforeProvider'
<1>1. req \in [Reqs -> Record] /\ passed \in [Reqs -> SUBSET Layers]
  BY DEF PathInv, PathTypes, Record, Layers
<1>2. \A q \in Reqs : Fine(req'[q], passed'[q])
  <2>1. TAKE q \in Reqs
  <2>2. CASE q = r
    BY <1>1, <2>2
  <2>3. CASE q # r
    BY <1>1, <2>3, FineBefore
  <2> QED BY <2>2, <2>3
<1>3. LayersPassed'
  BY <1>2 DEF LayersPassed, At, Fine
<1>4. ChargedBeforeProvider'
  BY <1>2 DEF ChargedBeforeProvider, Required, At, Fine
<1>5. req' \in [Reqs -> Record] /\ passed' \in [Reqs -> SUBSET Layers]
  BY <1>1
<1> QED BY <1>3, <1>4, <1>5

\* The answer to a request, and a move without passing a layer
LEMMA AnswerKeeps ==
    ASSUME PathInv, layers' = layers, NEW r \in Reqs, Answer(r)
    PROVE  /\ req' \in [Reqs -> Record] /\ passed' \in [Reqs -> SUBSET Layers]
           /\ LayersPassed' /\ ChargedBeforeProvider'
<1>1. Idle \in Record /\ Fine(Idle, {})
  BY DEF Record, Fine, Idle
<1> QED BY <1>1, OneMoves DEF Answer, Layers

LEMMA GoesKeeps ==
    ASSUME PathInv, layers' = layers, NEW r \in Reqs, NEW p \in Places, NEW d \in Dests,
           Goes(r, p, d), passed' = passed, Fine([st |-> p, to |-> d], passed[r])
    PROVE  /\ req' \in [Reqs -> Record] /\ passed' \in [Reqs -> SUBSET Layers]
           /\ LayersPassed' /\ ChargedBeforeProvider'
<1>1. passed \in [Reqs -> SUBSET Layers]
  BY DEF PathInv, PathTypes, Layers
<1>2. passed' = [passed EXCEPT ![r] = passed[r]]
  BY <1>1
<1>3. [st |-> p, to |-> d] \in Record
  BY DEF Record
<1> QED BY <1>1, <1>2, <1>3, OneMoves DEF Goes

\* A request moves on, having passed the layers in pas.
LEMMA MoveKeeps ==
    ASSUME PathInv, layers' = layers, NEW r \in Reqs, At(r, Places), NEW p \in Places,
           NEW pas \in SUBSET Layers, Move(r, p), passed' = [passed EXCEPT ![r] = pas],
           Fine([st |-> p, to |-> req[r].to], pas)
    PROVE  /\ req' \in [Reqs -> Record] /\ passed' \in [Reqs -> SUBSET Layers]
           /\ LayersPassed' /\ ChargedBeforeProvider'
<1>1. req[r] \in [st : Places, to : Dests]
  BY PlaceOf DEF PathInv, Places
<1>a. [req[r] EXCEPT !.st = p] = [st |-> p, to |-> req[r].to]
  BY <1>1
<1>2. req' = [req EXCEPT ![r] = [st |-> p, to |-> req[r].to]]
  BY <1>a DEF Move
<1>3. [st |-> p, to |-> req[r].to] \in Record
  BY <1>1 DEF Record
<1> QED BY <1>2, <1>3, OneMoves

LEMMA LimitMoveKeeps ==
    ASSUME PathInv, layers' = layers, NEW r \in Reqs, At(r, Places), NEW p \in Places,
           NEW layer \in Layers, LimitPasses(r, layer), Move(r, p),
           Fine([st |-> p, to |-> req[r].to], passed[r] \cup (layers \cap {layer}))
    PROVE  /\ req' \in [Reqs -> Record] /\ passed' \in [Reqs -> SUBSET Layers]
           /\ LayersPassed' /\ ChargedBeforeProvider'
<1> DEFINE pas == passed[r] \cup (layers \cap {layer})
<1>1. passed \in [Reqs -> SUBSET Layers]
  BY DEF PathInv, PathTypes, Layers
<1>2. passed' = [passed EXCEPT ![r] = pas]
  <2>1. CASE layer \in layers
    <3>1. layers \cap {layer} = {layer}
      BY <2>1
    <3> QED BY <2>1, <3>1 DEF LimitPasses, Pass
  <2>2. CASE layer \notin layers
    <3>1. pas = passed[r]
      BY <2>2
    <3> QED BY <1>1, <2>2, <3>1 DEF LimitPasses
  <2> QED BY <2>1, <2>2
<1>3. pas \in SUBSET Layers
  BY <1>1
<1> HIDE DEF pas
<1>4. Fine([st |-> p, to |-> req[r].to], pas)
  BY DEF pas
<1> QED BY <1>2, <1>3, <1>4, MoveKeeps

-----------------------------------------------------------------------------
\* The types of everything but the requests
Rest ==
    /\ layers \in LayerSets
    /\ gq \in Seq(Reqs) /\ gcur \in Reqs \cup {NoReq}
    /\ reserved \subseteq Stacks /\ up \subseteq Stacks /\ closed \subseteq Stacks
    /\ bq \in [Stacks -> Seq(Reqs)] /\ cur \in [Stacks -> Reqs \cup {NoReq}]

LEMMA Parts ==
    /\ PathTypes <=> /\ Rest /\ req \in [Reqs -> Record]
                     /\ passed \in [Reqs -> SUBSET Layers]
    /\ PathTypes' <=> /\ Rest' /\ req' \in [Reqs -> Record]
                      /\ passed' \in [Reqs -> SUBSET Layers]
  BY DEF PathTypes, Rest, Record, Layers

\* The steps of a request's own task, by what they do to it
LEMMA ClientStep ==
    ASSUME PathInv, NEW r \in Reqs, Enter(r) \/ Advance(r) \/ Leave(r) \/ Arrive(r)
    PROVE  PathInv'
<1> USE DEF global, stacks
<1> DEFINE Kept == /\ req' \in [Reqs -> Record] /\ passed' \in [Reqs -> SUBSET Layers]
                   /\ LayersPassed' /\ ChargedBeforeProvider'
<1>0. Rest /\ passed \in [Reqs -> SUBSET Layers] /\ Fine(req[r], passed[r])
  BY Parts, FineBefore DEF PathInv
<1> SUFFICES Rest' /\ Kept
  BY Parts DEF PathInv
<1>p. passed[r] \in SUBSET Layers /\ passed = [passed EXCEPT ![r] = passed[r]]
  BY <1>0
<1> HIDE DEF Kept
<1>a. ASSUME Answer(r), layers' = layers PROVE Kept
  BY <1>a, AnswerKeeps DEF Kept
<1>u. ASSUME UNCHANGED <<layers, gq, gcur, reserved, bq, cur, up, closed>> PROVE Rest'
  BY <1>0, <1>u DEF Rest
<1>1. CASE Arrive(r)
  <2>1. Fine([st |-> "wait", to |-> Anywhere], passed[r])
    BY DEF Fine
  <2>2. "wait" \in Places /\ Anywhere \in Dests
    BY DEF Places, Dests
  <2>3. Kept
    BY <1>1, <2>1, <2>2, GoesKeeps DEF Arrive, Kept
  <2> QED BY <1>1, <1>u, <2>3 DEF Arrive
<1>2. CASE Enter(r)
  <2>1. CASE Answer(r)
    BY <1>2, <2>1, <1>a, <1>u DEF Enter
  <2>2. CASE Move(r, "auth") /\ UNCHANGED passed
    <3>1. Fine([st |-> "auth", to |-> req[r].to], passed[r])
      BY DEF Fine
    <3>2. At(r, Places) /\ "auth" \in Places
      BY <1>2 DEF Enter, At, Places
    <3>3. Kept
      BY <1>2, <1>p, <2>2, <3>1, <3>2, MoveKeeps DEF Enter, Kept
    <3> QED BY <1>2, <1>u, <3>3 DEF Enter
  <2> QED BY <1>2, <2>1, <2>2 DEF Enter
<1>3. CASE Leave(r)
  <2>1. CASE Answer(r)
    BY <1>3, <2>1, <1>a, <1>u DEF Leave
  <2>2. CASE Goes(r, "gone", Anywhere) /\ UNCHANGED passed
    <3>1. Fine([st |-> "gone", to |-> Anywhere], passed[r])
      BY DEF Fine
    <3>2. "gone" \in Places /\ Anywhere \in Dests
      BY DEF Places, Dests
    <3>3. Kept
      BY <1>3, <2>2, <3>1, <3>2, GoesKeeps DEF Leave, Kept
    <3> QED BY <1>3, <1>u, <3>3 DEF Leave
  <2> QED BY <1>3, <2>1, <2>2 DEF Leave
<1>4. CASE \/ AuthorizeFails(r) \/ Reject(r) \/ CacheAnswers(r) \/ ProviderAnswers(r)
  BY <1>4, <1>a, <1>u DEF AuthorizeFails, Reject, CacheAnswers, ProviderAnswers
<1>5. CASE Authorize(r)
  <2> DEFINE pas == passed[r] \cup (layers \cap {"auth"})
  <2>1. passed' = [passed EXCEPT ![r] = pas]
    <3>1. CASE "auth" \in layers
      <4>1. layers \cap {"auth"} = {"auth"}
        BY <3>1
      <4> QED BY <1>5, <3>1, <4>1 DEF Authorize, Pass
    <3>2. CASE "auth" \notin layers
      <4>1. pas = passed[r]
        BY <3>2
      <4> QED BY <1>5, <1>p, <3>2, <4>1 DEF Authorize
    <3> QED BY <3>1, <3>2
  <2>2. pas \in SUBSET Layers
    BY <1>p DEF Layers
  <2>3. Fine([st |-> "limit", to |-> req[r].to], pas)
    BY DEF Fine
  <2>4. At(r, Places) /\ "limit" \in Places
    BY <1>5 DEF Authorize, At, Places
  <2> HIDE DEF pas
  <2>5. Kept
    BY <1>5, <2>1, <2>2, <2>3, <2>4, MoveKeeps DEF Authorize, Kept
  <2> QED BY <1>5, <1>u, <2>5 DEF Authorize
<1>6. CASE GlobalLimit(r)
  <2>1. layers \cap {"auth"} \subseteq passed[r] /\ layers \subseteq Layers
    BY <1>0, <1>6, PathConstants DEF GlobalLimit, At, Fine, Rest, Layers
  <2>2. Fine([st |-> "cache", to |-> req[r].to], passed[r] \cup (layers \cap {"globalLimit"}))
    BY <2>1 DEF Fine, Layers
  <2>3. At(r, Places) /\ "cache" \in Places /\ "globalLimit" \in Layers
    BY <1>6 DEF GlobalLimit, At, Places, Layers
  <2>4. Kept
    BY <1>6, <2>2, <2>3, LimitMoveKeeps DEF GlobalLimit, Kept
  <2> QED BY <1>6, <1>u, <2>4 DEF GlobalLimit
<1>7. CASE GlobalMiss(r)
  <2>1. Fine([st |-> "gbuf", to |-> req[r].to], passed[r])
    BY <1>0, <1>7 DEF GlobalMiss, At, Fine
  <2>2. At(r, Places) /\ "gbuf" \in Places
    BY <1>7 DEF GlobalMiss, At, Places
  <2>3. Kept
    BY <1>7, <1>p, <2>1, <2>2, MoveKeeps DEF GlobalMiss, Kept
  <2>4. Rest'
    BY <1>0, <1>7 DEF GlobalMiss, Rest
  <2> QED BY <2>3, <2>4
<1>8. CASE StackMiss(r)
  <2>1. Fine([st |-> "slimit", to |-> req[r].to], passed[r])
    BY <1>0, <1>8 DEF StackMiss, At, Fine
  <2>2. At(r, Places) /\ "slimit" \in Places
    BY <1>8 DEF StackMiss, At, Places
  <2>3. Kept
    BY <1>8, <1>p, <2>1, <2>2, MoveKeeps DEF StackMiss, Kept
  <2> QED BY <1>8, <1>u, <2>3 DEF StackMiss
<1>9. ASSUME At(r, {"slimit", "dlimit"}), layers' = layers, NEW p \in {"sbuf", "dcache"},
             LimitPasses(r, "routerLimit"), Move(r, p)
      PROVE  Kept
  <2>1. layers \ {"routerLimit"} \subseteq passed[r]
    BY <1>0, <1>9 DEF At, Fine
  <2>2. Fine([st |-> p, to |-> req[r].to], passed[r] \cup (layers \cap {"routerLimit"}))
    BY <1>9, <2>1 DEF Fine
  <2>3. At(r, Places) /\ p \in Places /\ "routerLimit" \in Layers
    BY <1>9 DEF At, Places, Layers
  <2> QED BY <1>9, <2>2, <2>3, LimitMoveKeeps DEF Kept
<1>10. CASE StackSend(r)
  <2>1. CASE req[r].to \in closed
    BY <1>10, <2>1, <1>a, <1>u DEF StackSend
  <2>2. CASE req[r].to \notin closed
    <3>1. Kept
      BY <1>9, <1>10, <2>2 DEF StackSend, At
    <3>a. bq' = [bq EXCEPT ![req[r].to] = Append(bq[req[r].to], r)]
      BY <1>10, <2>2 DEF StackSend
    <3>b. bq \in [Stacks -> Seq(Reqs)]
      BY <1>0 DEF Rest
    <3>2. bq' \in [Stacks -> Seq(Reqs)]
      <4>1. CASE req[r].to \in Stacks
        <5>1. Append(bq[req[r].to], r) \in Seq(Reqs)
          BY <3>b, <4>1
        <5> QED BY <3>a, <3>b, <5>1
      <4>2. CASE req[r].to \notin Stacks
        BY <3>a, <3>b, <4>2
      <4> QED BY <4>1, <4>2
    <3>3. Rest'
      BY <1>0, <1>10, <3>2 DEF StackSend, Rest
    <3> QED BY <3>1, <3>3
  <2> QED BY <2>1, <2>2
<1>11. CASE DirectLimit(r)
  <2>1. Kept
    BY <1>9, <1>11 DEF DirectLimit, At
  <2> QED BY <1>11, <1>u, <2>1 DEF DirectLimit
<1>12. CASE DirectMiss(r)
  <2>1. Fine([st |-> "provider", to |-> req[r].to], passed[r])
    BY <1>0, <1>12 DEF DirectMiss, At, Fine
  <2>2. At(r, Places) /\ "provider" \in Places
    BY <1>12 DEF DirectMiss, At, Places
  <2>3. Kept
    BY <1>12, <1>p, <2>1, <2>2, MoveKeeps DEF DirectMiss, Kept
  <2> QED BY <1>12, <1>u, <2>3 DEF DirectMiss
<1>13. CASE UnifiedApi(r)
  <2>1. CASE Answer(r)
    BY <1>13, <2>1, <1>a, <1>u DEF UnifiedApi
  <2>2. CASE Goes(r, "provider", "proxy") /\ UNCHANGED passed
    <3>1. Fine([st |-> "provider", to |-> "proxy"], passed[r])
      BY <1>0, <1>13 DEF UnifiedApi, At, Fine
    <3>2. "provider" \in Places /\ "proxy" \in Dests
      BY DEF Places, Dests
    <3>3. Kept
      BY <1>13, <2>2, <3>1, <3>2, GoesKeeps DEF UnifiedApi, Kept
    <3> QED BY <1>13, <1>u, <3>3 DEF UnifiedApi
  <2> QED BY <1>13, <2>1, <2>2 DEF UnifiedApi
<1> QED BY <1>1, <1>2, <1>3, <1>4, <1>5, <1>6, <1>7, <1>8, <1>10, <1>11, <1>12, <1>13
        DEF Advance

\* The steps of the global Buffer's worker and of the meta router
LEMMA GlobalStep ==
    ASSUME PathInv, GlobalWorker
    PROVE  PathInv'
<1> USE DEF stacks
<1> DEFINE Kept == /\ req' \in [Reqs -> Record] /\ passed' \in [Reqs -> SUBSET Layers]
                   /\ LayersPassed' /\ ChargedBeforeProvider'
<1>0. Rest /\ req \in [Reqs -> Record] /\ passed \in [Reqs -> SUBSET Layers]
  BY Parts DEF PathInv
<1> SUFFICES Rest' /\ Kept
  BY Parts DEF PathInv
<1>k. ASSUME UNCHANGED <<layers, req, passed>> PROVE Kept
  BY <1>0, <1>k DEF PathInv, LayersPassed, ChargedBeforeProvider, Required, At
<1> HIDE DEF Kept
<1>1. CASE TakeGlobal
  <2>1. Head(gq) \in Reqs /\ Tail(gq) \in Seq(Reqs)
    BY <1>0, <1>1 DEF TakeGlobal, Rest
  <2>2. Rest'
    BY <1>0, <1>1, <2>1 DEF TakeGlobal, Rest
  <2> QED BY <1>1, <1>k, <2>2 DEF TakeGlobal
<1>2. CASE DropGlobal
  <2>1. gcur \in Reqs
    BY <1>0, <1>2 DEF DropGlobal, Rest
  <2>2. Kept
    BY <1>2, <2>1, AnswerKeeps DEF DropGlobal, Kept
  <2>3. Rest'
    BY <1>0, <1>2 DEF DropGlobal, Rest
  <2> QED BY <2>2, <2>3
<1>3. ASSUME NEW s \in Stacks, PollStack(s) PROVE Rest' /\ Kept
  <2>1. Rest'
    BY <1>0, <1>3 DEF PollStack, Rest, global
  <2> QED BY <1>3, <1>k, <2>1 DEF PollStack
<1>4. CASE MetaCall
  <2>1. gcur \in Reqs /\ req[gcur].st = "gbuf" /\ layers' = layers
    BY <1>0, <1>4 DEF MetaCall, Rest, At
  <2>2. layers \ {"routerLimit"} \subseteq passed[gcur]
    BY <2>1, FineBefore DEF Fine
  <2>3. Rest'
    BY <1>0, <1>4 DEF MetaCall, Rest
  <2>g. ASSUME NEW p \in {"scache", "dlimit", "unified", "provider"}, NEW d \in Dests,
               p = "provider" => d = "proxy", Goes(gcur, p, d), UNCHANGED passed
        PROVE  Kept
    <3>1. Fine([st |-> p, to |-> d], passed[gcur])
      BY <2>2, <2>g DEF Fine
    <3>2. p \in Places
      BY DEF Places
    <3> QED BY <2>1, <2>g, <3>1, <3>2, GoesKeeps DEF Kept
  <2>4. CASE \E s \in Stacks : Goes(gcur, "scache", s) /\ UNCHANGED passed
    BY <2>4, <2>g, <2>3 DEF Dests
  <2>5. CASE Goes(gcur, "dlimit", "direct") /\ UNCHANGED passed
    BY <2>5, <2>g, <2>3 DEF Dests
  <2>6. CASE \E p \in {"unified", "provider"} : Goes(gcur, p, "proxy") /\ UNCHANGED passed
    BY <2>6, <2>g, <2>3 DEF Dests
  <2>7. CASE Answer(gcur)
    BY <2>1, <2>3, <2>7, AnswerKeeps DEF Kept
  <2> QED BY <1>4, <2>4, <2>5, <2>6, <2>7 DEF MetaCall
<1> QED BY <1>1, <1>2, <1>3, <1>4 DEF GlobalWorker

\* The steps of a stack: its worker, its balancer's failure, its pool
LEMMA StackStep ==
    ASSUME PathInv, NEW s \in Stacks,
           StackWorker(s) \/ BalancerFails(s) \/ Up(s) \/ Down(s)
    PROVE  PathInv'
<1> USE DEF global
<1> DEFINE Kept == /\ req' \in [Reqs -> Record] /\ passed' \in [Reqs -> SUBSET Layers]
                   /\ LayersPassed' /\ ChargedBeforeProvider'
<1>0. Rest /\ req \in [Reqs -> Record] /\ passed \in [Reqs -> SUBSET Layers]
  BY Parts DEF PathInv
<1> SUFFICES Rest' /\ Kept
  BY Parts DEF PathInv
<1>k. ASSUME UNCHANGED <<layers, req, passed>> PROVE Kept
  BY <1>0, <1>k DEF PathInv, LayersPassed, ChargedBeforeProvider, Required, At
<1>1. CASE Up(s) \/ Down(s)
  <2>1. Rest'
    BY <1>0, <1>1 DEF Up, Down, Rest, stacks
  <2> QED BY <1>1, <1>k, <2>1 DEF Up, Down
<1>2. CASE TakeStack(s)
  <2>1. bq[s] \in Seq(Reqs) /\ bq[s] # <<>>
    BY <1>0, <1>2 DEF TakeStack, Rest
  <2>2. Head(bq[s]) \in Reqs /\ Tail(bq[s]) \in Seq(Reqs)
    BY <2>1
  <2>3. Rest'
    BY <1>0, <1>2, <2>2 DEF TakeStack, Rest
  <2> QED BY <1>2, <1>k, <2>3 DEF TakeStack
<1>3. CASE DropStack(s)
  <2>1. cur[s] \in Reqs
    BY <1>0, <1>3 DEF DropStack, Rest
  <2>2. Kept
    BY <1>3, <2>1, AnswerKeeps DEF DropStack
  <2>3. Rest'
    BY <1>0, <1>3 DEF DropStack, Rest
  <2> QED BY <2>2, <2>3
<1>4. CASE CallBalancer(s)
  <2> DEFINE r == cur[s]
  <2>1. r \in Reqs /\ req[r].st = "sbuf"
    BY <1>0, <1>4 DEF CallBalancer, Rest, At
  <2> HIDE DEF r
  <2>2. layers \subseteq passed[r]
    BY <2>1, FineBefore DEF Fine
  <2>3. Fine([st |-> "provider", to |-> req[r].to], passed[r])
    BY <2>2 DEF Fine
  <2>4. At(r, Places) /\ "provider" \in Places
    BY <2>1 DEF At, Places
  <2>5. passed[r] \in SUBSET Layers /\ passed = [passed EXCEPT ![r] = passed[r]]
    BY <1>0, <2>1
  <2>6. Kept
    BY <1>4, <2>1, <2>3, <2>4, <2>5, MoveKeeps DEF CallBalancer, r
  <2>7. Rest'
    BY <1>0, <1>4 DEF CallBalancer, Rest
  <2> QED BY <2>6, <2>7
<1>5. CASE BalancerFails(s)
  <2>1. PICK F : /\ req' = [r \in Reqs |-> IF r \in F THEN Idle ELSE req[r]]
                 /\ passed' = [r \in Reqs |-> IF r \in F THEN {} ELSE passed[r]]
    BY <1>5 DEF BalancerFails
  <2>2. req' \in [Reqs -> Record] /\ passed' \in [Reqs -> SUBSET Layers]
    BY <1>0, <2>1 DEF Record
  <2>3. \A r \in Reqs : Fine(req'[r], passed'[r])
    BY <2>1, FineBefore DEF Fine, Idle
  <2>4. layers' = layers
    BY <1>5 DEF BalancerFails
  <2>5. LayersPassed' /\ ChargedBeforeProvider'
    BY <2>3, <2>4 DEF LayersPassed, ChargedBeforeProvider, Required, At, Fine
  <2>6. bq' \in [Stacks -> Seq(Reqs)] /\ cur' \in [Stacks -> Reqs \cup {NoReq}]
    BY <1>0, <1>5 DEF BalancerFails, Rest
  <2>7. Rest'
    BY <1>0, <1>5, <2>6 DEF BalancerFails, Rest
  <2> QED BY <2>2, <2>5, <2>7
<1> QED BY <1>1, <1>2, <1>3, <1>4, <1>5 DEF StackWorker

\* The inductive invariant of the request path, for every configuration
THEOREM PathInvariant == Spec => []PathInv
<1>1. PathInv /\ [Next]_vars => PathInv'
  <2> SUFFICES ASSUME PathInv, [Next]_vars PROVE PathInv'
    OBVIOUS
  <2>1. CASE UNCHANGED vars
    BY <2>1 DEF vars, global, stacks, PathInv, PathTypes, LayersPassed,
                ChargedBeforeProvider, Required, At
  <2> QED BY <2>1, ClientStep, GlobalStep, StackStep DEF Next
<1> QED BY InitPath, <1>1, PTL DEF Spec

\* However a request goes - four paths, caches and limiters in different orders,
\* two Buffers that may close under it - it is authenticated and charged to the
\* limiters of its path before it reaches a provider.
THEOREM NoUnchargedRequest == Spec => []ChargedBeforeProvider
<1>1. PathInv => ChargedBeforeProvider
  BY DEF PathInv
<1> QED BY PathInvariant, <1>1, PTL

-----------------------------------------------------------------------------
(* The Buffers' permits.                                                   *)

Gate == {"auth", "limit", "cache"}
StackGate == {"scache", "slimit"}
Entering == {r \in Reqs : At(r, Gate)}
Bound(s) == Holders(StackGate, s)
PermitKept(s) == IF s \in reserved THEN 1 ELSE 0

\* How many there are when one joins or leaves
LEMMA OneMoreOrLess ==
    ASSUME NEW S, IsFiniteSet(S), NEW x, NEW T
    PROVE  /\ Cardinality(S) \in Nat
           /\ T \subseteq S => Cardinality(T) \in Nat /\ Cardinality(T) <= Cardinality(S)
           /\ T \subseteq S \cup {x} =>
                 Cardinality(T) \in Nat /\ Cardinality(T) <= Cardinality(S) + 1
           /\ x \in S /\ T \subseteq S \ {x} =>
                 Cardinality(T) \in Nat /\ Cardinality(T) <= Cardinality(S) - 1
<1>1. Cardinality(S) \in Nat
  BY FS_CardinalityType
<1>2. ASSUME NEW U, IsFiniteSet(U), T \subseteq U
      PROVE  Cardinality(T) \in Nat /\ Cardinality(T) <= Cardinality(U)
  BY <1>2, FS_Subset, FS_CardinalityType
<1>3. ASSUME T \subseteq S \cup {x}
      PROVE  Cardinality(T) \in Nat /\ Cardinality(T) <= Cardinality(S) + 1
  <2>1. /\ IsFiniteSet(S \cup {x}) /\ Cardinality(S \cup {x}) <= Cardinality(S) + 1
        /\ Cardinality(S \cup {x}) \in Nat
    BY <1>1, FS_AddElement
  <2> QED BY <1>1, <1>3, <2>1, <1>2
<1>4. ASSUME x \in S, T \subseteq S \ {x}
      PROVE  Cardinality(T) \in Nat /\ Cardinality(T) <= Cardinality(S) - 1
  <2>1. IsFiniteSet(S \ {x}) /\ Cardinality(S \ {x}) = Cardinality(S) - 1
    BY <1>4, FS_RemoveElement
  <2> QED BY <1>1, <1>4, <2>1, <1>2
<1> QED BY <1>1, <1>2, <1>3, <1>4

LEMMA HowMany ==
    ASSUME NEW S \in SUBSET Reqs
    PROVE  IsFiniteSet(S) /\ Cardinality(S) \in Nat
  BY PathConstants, FS_Subset, FS_CardinalityType

\* The permits in use, as numbers, before a step and after it
LEMMA PermitsOf ==
    ASSUME PathTypes
    PROVE  /\ IsFiniteSet(Entering) /\ Cardinality(Entering) \in Nat
           /\ Len(gq) \in Nat
           /\ GlobalUsed = Len(gq) + Cardinality(Entering)
           /\ \A s \in Stacks :
                 /\ IsFiniteSet(Bound(s)) /\ Cardinality(Bound(s)) \in Nat
                 /\ Len(bq[s]) \in Nat /\ PermitKept(s) \in {0, 1}
                 /\ StackUsed(s) = Len(bq[s]) + Cardinality(Bound(s)) + PermitKept(s)
<1>2. Entering \in SUBSET Reqs /\ \A s \in Stacks : Bound(s) \in SUBSET Reqs
  BY DEF Entering, Bound, Holders
<1>3. Len(gq) \in Nat /\ \A s \in Stacks : Len(bq[s]) \in Nat
  BY LenProperties DEF PathTypes
<1>4. GlobalUsed = Len(gq) + Cardinality(Entering)
  BY DEF GlobalUsed, Entering, Gate
<1>5. \A s \in Stacks : StackUsed(s) = Len(bq[s]) + Cardinality(Bound(s)) + PermitKept(s)
  BY DEF StackUsed, Bound, StackGate, PermitKept
<1>6. \A s \in Stacks : PermitKept(s) \in {0, 1}
  BY DEF PermitKept
<1> QED BY <1>2, <1>3, <1>4, <1>5, <1>6, HowMany

LEMMA PermitsAfter ==
    ASSUME PathTypes'
    PROVE  /\ Cardinality(Entering') \in Nat /\ Len(gq') \in Nat
           /\ GlobalUsed' = Len(gq') + Cardinality(Entering')
           /\ \A s \in Stacks :
                 /\ Cardinality(Bound(s)') \in Nat
                 /\ Len(bq'[s]) \in Nat /\ PermitKept(s)' \in {0, 1}
                 /\ StackUsed(s)' = Len(bq'[s]) + Cardinality(Bound(s)') + PermitKept(s)'
<1>2. Entering' \in SUBSET Reqs /\ \A s \in Stacks : Bound(s)' \in SUBSET Reqs
  BY DEF Entering, Bound, Holders
<1>3. Len(gq') \in Nat /\ \A s \in Stacks : Len(bq'[s]) \in Nat
  BY LenProperties DEF PathTypes
<1>4. GlobalUsed' = Len(gq') + Cardinality(Entering')
  BY DEF GlobalUsed, Entering, Gate
<1>5. \A s \in Stacks : StackUsed(s)' = Len(bq'[s]) + Cardinality(Bound(s)') + PermitKept(s)'
  BY DEF StackUsed, Bound, StackGate, PermitKept
<1>6. \A s \in Stacks : PermitKept(s)' \in {0, 1}
  BY DEF PermitKept
<1> QED BY <1>2, <1>3, <1>4, <1>5, <1>6, HowMany

\* Who holds a permit when one request moves
LEMMA WhoEnters ==
    ASSUME PathTypes, NEW r \in Reqs, NEW rec, req' = [req EXCEPT ![r] = rec]
    PROVE  /\ Entering' \subseteq Entering \cup {r}
           /\ rec.st \notin Gate \/ At(r, Gate) => Entering' \subseteq Entering
           /\ rec.st \notin Gate => Entering' \subseteq Entering \ {r}
<1>1. \A q \in Reqs : req'[q] = IF q = r THEN rec ELSE req[q]
  BY DEF PathTypes
<1>2. Entering' = {q \in Reqs : req'[q].st \in Gate}
  BY DEF Entering, At
<1> QED BY <1>1, <1>2 DEF Entering, At

LEMMA WhoIsBound ==
    ASSUME PathTypes, NEW r \in Reqs, NEW rec, req' = [req EXCEPT ![r] = rec],
           NEW s \in Stacks
    PROVE  /\ Bound(s)' \subseteq Bound(s) \cup {r}
           /\ rec.st \notin StackGate \/ rec.to # s \/ r \in Bound(s)
                 => Bound(s)' \subseteq Bound(s)
           /\ rec.st \notin StackGate => Bound(s)' \subseteq Bound(s) \ {r}
<1>1. \A q \in Reqs : req'[q] = IF q = r THEN rec ELSE req[q]
  BY DEF PathTypes
<1>2. Bound(s)' = {q \in Reqs : req'[q].st \in StackGate /\ req'[q].to = s}
  BY DEF Bound, Holders, At
<1> QED BY <1>1, <1>2 DEF Bound, Holders, At

\* A step that takes no permit keeps within the capacities.
LEMMA NoMorePermits ==
    ASSUME PathTypes, PathTypes', WithinCapacity
    PROVE  /\ Entering' \subseteq Entering /\ Len(gq') <= Len(gq) => GlobalUsed' <= GlobalCap
           /\ \A s \in Stacks :
                 /\ Bound(s)' \subseteq Bound(s) /\ Len(bq'[s]) <= Len(bq[s])
                 /\ s \in reserved' => s \in reserved
                 => StackUsed(s)' <= StackCap
<1>1. ASSUME Entering' \subseteq Entering, Len(gq') <= Len(gq) PROVE GlobalUsed' <= GlobalCap
  <2>1. Cardinality(Entering') <= Cardinality(Entering)
    BY <1>1, PermitsOf, OneMoreOrLess
  <2> QED BY <1>1, <2>1, PermitsOf, PermitsAfter, PathConstants DEF WithinCapacity
<1>2. ASSUME NEW s \in Stacks, Bound(s)' \subseteq Bound(s), Len(bq'[s]) <= Len(bq[s]),
             s \in reserved' => s \in reserved
      PROVE  StackUsed(s)' <= StackCap
  <2>1. Cardinality(Bound(s)') <= Cardinality(Bound(s))
    BY <1>2, PermitsOf, OneMoreOrLess
  <2>2. PermitKept(s)' <= PermitKept(s)
    BY <1>2 DEF PermitKept
  <2>3. StackUsed(s) <= StackCap
    BY DEF WithinCapacity
  <2>4. /\ Cardinality(Bound(s)) \in Nat /\ Len(bq[s]) \in Nat /\ PermitKept(s) \in {0, 1}
        /\ StackUsed(s) = Len(bq[s]) + Cardinality(Bound(s)) + PermitKept(s)
    BY PermitsOf
  <2>5. /\ Cardinality(Bound(s)') \in Nat /\ Len(bq'[s]) \in Nat /\ PermitKept(s)' \in {0, 1}
        /\ StackUsed(s)' = Len(bq'[s]) + Cardinality(Bound(s)') + PermitKept(s)'
    BY PermitsAfter
  <2> QED BY <1>2, <2>1, <2>2, <2>3, <2>4, <2>5, PathConstants
<1> QED BY <1>1, <1>2

\* What a client's task does to the permits: nothing, unless it enters the global
\* Buffer's layers, or turns a permit into a message.
LEMMA ClientPermits ==
    ASSUME PathTypes, PathTypes', WithinCapacity, NEW r \in Reqs,
           Enter(r) \/ Advance(r) \/ Leave(r) \/ Arrive(r)
    PROVE  WithinCapacity'
<1> USE DEF global, stacks
<1>0. /\ req \in [Reqs -> Record] /\ Len(gq) \in Nat
      /\ \A s \in Stacks : bq[s] \in Seq(Reqs) /\ Len(bq[s]) \in Nat
  BY LenProperties DEF PathTypes, Record
<1>a. ASSUME Answer(r) PROVE req' = [req EXCEPT ![r] = Idle]
  BY <1>a DEF Answer
<1>m. ASSUME NEW p, Move(r, p), At(r, Places)
      PROVE  req' = [req EXCEPT ![r] = [st |-> p, to |-> req[r].to]]
  <2>1. req[r] \in [st : Places, to : Dests]
    BY <1>m, PlaceOf DEF Places
  <2>2. [req[r] EXCEPT !.st = p] = [st |-> p, to |-> req[r].to]
    BY <2>1
  <2> QED BY <1>m, <2>2 DEF Move
<1>q. ASSUME NEW rec, req' = [req EXCEPT ![r] = rec],
             rec.st \notin Gate \/ At(r, Gate),
             rec.st \in StackGate => At(r, StackGate) /\ rec.to = req[r].to,
             UNCHANGED <<gq, bq, reserved>>
      PROVE  WithinCapacity'
  <2>1. Entering' \subseteq Entering
    BY <1>q, WhoEnters
  <2>2. ASSUME NEW s \in Stacks PROVE Bound(s)' \subseteq Bound(s)
    <3>1. rec.st \notin StackGate \/ rec.to # s \/ r \in Bound(s)
      BY <1>q DEF Bound, Holders
    <3> QED BY <1>q, <3>1, WhoIsBound
  <2> QED BY <1>0, <1>q, <2>1, <2>2, NoMorePermits DEF WithinCapacity
<1>b. ASSUME Answer(r), UNCHANGED <<gq, bq, reserved>> PROVE WithinCapacity'
  BY <1>a, <1>b, <1>q DEF Idle, Gate, StackGate
<1>1. CASE Arrive(r)
  BY <1>1, <1>q DEF Arrive, Goes, Gate, StackGate
<1>2. CASE Enter(r)
  <2>1. CASE Answer(r)
    BY <1>2, <2>1, <1>b DEF Enter
  <2>2. CASE Move(r, "auth")
    <3>1. req' = [req EXCEPT ![r] = [st |-> "auth", to |-> req[r].to]]
      BY <1>2, <2>2, <1>m DEF Enter, At, Places
    <3>2. Entering' \subseteq Entering \cup {r}
      BY <3>1, WhoEnters
    <3>b. ASSUME NEW s \in Stacks PROVE Bound(s)' \subseteq Bound(s)
      <4> DEFINE rec == [st |-> "auth", to |-> req[r].to]
      <4>1. rec.st \notin StackGate /\ req' = [req EXCEPT ![r] = rec]
        BY <3>1 DEF StackGate
      <4> HIDE DEF rec
      <4> QED BY <4>1, WhoIsBound
    <3>3. Cardinality(Entering') <= Cardinality(Entering) + 1
      BY <3>2, PermitsOf, OneMoreOrLess
    <3>4. gq' = gq /\ bq' = bq /\ reserved' = reserved /\ GlobalUsed < GlobalCap
      BY <1>2 DEF Enter
    <3>5. GlobalUsed' <= GlobalCap
      BY <3>3, <3>4, PermitsOf, PermitsAfter, PathConstants
    <3>6. \A s \in Stacks : StackUsed(s)' <= StackCap
      BY <1>0, <3>b, <3>4, NoMorePermits
    <3> QED BY <3>5, <3>6 DEF WithinCapacity
  <2> QED BY <1>2, <2>1, <2>2 DEF Enter
<1>3. CASE Leave(r)
  <2>1. CASE Answer(r)
    BY <1>3, <2>1, <1>b DEF Leave
  <2>2. CASE Goes(r, "gone", Anywhere)
    BY <1>3, <2>2, <1>q DEF Leave, Goes, Gate, StackGate
  <2> QED BY <1>3, <2>1, <2>2 DEF Leave
<1>4. CASE \/ AuthorizeFails(r) \/ Reject(r) \/ CacheAnswers(r) \/ ProviderAnswers(r)
  BY <1>4, <1>b DEF AuthorizeFails, Reject, CacheAnswers, ProviderAnswers
<1>5. CASE \/ Authorize(r) \/ GlobalLimit(r) \/ StackMiss(r) \/ DirectLimit(r) \/ DirectMiss(r)
  <2>1. PICK p \in {"limit", "cache", "slimit", "dcache", "provider"} :
           /\ Move(r, p) /\ At(r, Places)
           /\ p \in {"limit", "cache"} => At(r, Gate)
           /\ p = "slimit" => At(r, StackGate)
    BY <1>5 DEF Authorize, GlobalLimit, StackMiss, DirectLimit, DirectMiss, At, Places,
                Gate, StackGate
  <2> DEFINE rec == [st |-> p, to |-> req[r].to]
  <2>2. req' = [req EXCEPT ![r] = rec]
    BY <2>1, <1>m
  <2>3. UNCHANGED <<gq, bq, reserved>>
    BY <1>5 DEF Authorize, GlobalLimit, StackMiss, DirectLimit, DirectMiss
  <2>4. rec.st = p /\ rec.to = req[r].to
    OBVIOUS
  <2> HIDE DEF rec
  <2>5. /\ rec.st \notin Gate \/ At(r, Gate)
        /\ rec.st \in StackGate => At(r, StackGate) /\ rec.to = req[r].to
    BY <2>1, <2>4 DEF Gate, StackGate
  <2> QED BY <2>2, <2>3, <2>5, <1>q
<1>6. CASE UnifiedApi(r)
  <2>1. CASE Answer(r)
    BY <1>6, <2>1, <1>b DEF UnifiedApi
  <2>2. CASE Goes(r, "provider", "proxy")
    BY <1>6, <2>2, <1>q DEF UnifiedApi, Goes, Gate, StackGate
  <2> QED BY <1>6, <2>1, <2>2 DEF UnifiedApi
<1>7. CASE GlobalMiss(r)
  <2>1. req' = [req EXCEPT ![r] = [st |-> "gbuf", to |-> req[r].to]]
    BY <1>7, <1>m DEF GlobalMiss, At, Places
  <2>a. [st |-> "gbuf", to |-> req[r].to].st \notin Gate
    BY DEF Gate
  <2>2. Entering' \subseteq Entering \ {r}
    BY <2>1, <2>a, WhoEnters
  <2>b. ASSUME NEW s \in Stacks PROVE Bound(s)' \subseteq Bound(s)
    <3> DEFINE rec == [st |-> "gbuf", to |-> req[r].to]
    <3>1. rec.st \notin StackGate /\ req' = [req EXCEPT ![r] = rec]
      BY <2>1 DEF StackGate
    <3> HIDE DEF rec
    <3> QED BY <3>1, WhoIsBound
  <2>3. r \in Entering
    BY <1>7 DEF GlobalMiss, Entering, At, Gate
  <2>4. Cardinality(Entering') <= Cardinality(Entering) - 1
    BY <2>2, <2>3, PermitsOf, OneMoreOrLess
  <2>5. Len(gq') = Len(gq) + 1
    BY <1>7, AppendProperties DEF GlobalMiss, PathTypes
  <2>6. GlobalUsed' <= GlobalCap
    BY <2>4, <2>5, PermitsOf, PermitsAfter, PathConstants DEF WithinCapacity
  <2>7. bq' = bq /\ reserved' = reserved
    BY <1>7 DEF GlobalMiss
  <2>8. \A s \in Stacks : StackUsed(s)' <= StackCap
    BY <1>0, <2>b, <2>7, NoMorePermits
  <2> QED BY <2>6, <2>8 DEF WithinCapacity
<1>8. CASE StackSend(r)
  <2> DEFINE d == req[r].to
  <2>1. CASE d \in closed
    BY <1>8, <2>1, <1>b DEF StackSend
  <2>2. CASE d \notin closed
    <3>1. req' = [req EXCEPT ![r] = [st |-> "sbuf", to |-> d]]
      BY <1>8, <2>2, <1>m DEF StackSend, At, Places
    <3>a. [st |-> "sbuf", to |-> d].st \notin Gate
      BY DEF Gate
    <3>2. Entering' \subseteq Entering
      BY <3>1, <3>a, WhoEnters
    <3>b. ASSUME NEW s \in Stacks PROVE Bound(s)' \subseteq Bound(s) \ {r}
      <4> DEFINE rec == [st |-> "sbuf", to |-> d]
      <4>1. rec.st \notin StackGate /\ req' = [req EXCEPT ![r] = rec]
        BY <3>1 DEF StackGate
      <4> HIDE DEF rec
      <4> QED BY <4>1, WhoIsBound
    <3>3. /\ bq' = [bq EXCEPT ![d] = Append(bq[d], r)] /\ gq' = gq /\ reserved' = reserved
          /\ req[r].st = "slimit"
      BY <1>8, <2>2 DEF StackSend, At
    <3>4. GlobalUsed' <= GlobalCap
      BY <1>0, <3>2, <3>3, NoMorePermits
    <3>5. ASSUME NEW s \in Stacks PROVE StackUsed(s)' <= StackCap
      <4>1. CASE s # d
        <5>1. bq'[s] = bq[s]
          BY <3>3, <4>1 DEF PathTypes
        <5>2. Bound(s)' \subseteq Bound(s)
          BY <3>b
        <5>3. Len(bq'[s]) <= Len(bq[s])
          BY <1>0, <5>1
        <5>4. s \in reserved' => s \in reserved
          BY <3>3
        <5> QED BY <5>2, <5>3, <5>4, NoMorePermits
      <4>2. CASE s = d
        <5>1. bq'[s] = Append(bq[s], r)
          BY <3>3, <4>2 DEF PathTypes
        <5>2. Len(bq'[s]) = Len(bq[s]) + 1
          BY <1>0, <5>1, AppendProperties
        <5>3. r \in Bound(s)
          BY <3>3, <4>2 DEF Bound, Holders, At, StackGate
        <5>4. Cardinality(Bound(s)') <= Cardinality(Bound(s)) - 1
          BY <3>b, <5>3, PermitsOf, OneMoreOrLess
        <5>5. PermitKept(s)' = PermitKept(s) /\ StackUsed(s) <= StackCap
          BY <3>3 DEF PermitKept, WithinCapacity
        <5>6. /\ Cardinality(Bound(s)) \in Nat /\ Len(bq[s]) \in Nat /\ PermitKept(s) \in {0, 1}
              /\ StackUsed(s) = Len(bq[s]) + Cardinality(Bound(s)) + PermitKept(s)
          BY PermitsOf
        <5>7. /\ Cardinality(Bound(s)') \in Nat /\ Len(bq'[s]) \in Nat
              /\ StackUsed(s)' = Len(bq'[s]) + Cardinality(Bound(s)') + PermitKept(s)'
          BY PermitsAfter
        <5> QED BY <5>2, <5>4, <5>5, <5>6, <5>7, PathConstants
      <4> QED BY <4>1, <4>2
    <3> QED BY <3>4, <3>5 DEF WithinCapacity
  <2> QED BY <2>1, <2>2
<1> QED BY <1>1, <1>2, <1>3, <1>4, <1>5, <1>6, <1>7, <1>8 DEF Advance

\* What the global Buffer's worker does: a message taken frees its permit, the
\* meta router's permit of a stack goes to the request it sends there.
LEMMA GlobalPermits ==
    ASSUME PathTypes, PathTypes', WithinCapacity, GlobalWorker
    PROVE  WithinCapacity'
<1> USE DEF global, stacks
<1>0. /\ req \in [Reqs -> Record] /\ Len(gq) \in Nat
      /\ \A s \in Stacks : bq[s] \in Seq(Reqs) /\ Len(bq[s]) \in Nat
  BY LenProperties DEF PathTypes, Record
<1>k. ASSUME req' = req
      PROVE  Entering' \subseteq Entering /\ \A s \in Stacks : Bound(s)' \subseteq Bound(s)
  BY <1>k DEF Entering, Bound, Holders, At
<1>q. ASSUME gcur \in Reqs, NEW rec, req' = [req EXCEPT ![gcur] = rec],
             rec.st \notin Gate \cup StackGate, UNCHANGED <<gq, bq, reserved>>
      PROVE  WithinCapacity'
  <2>1. Entering' \subseteq Entering
    BY <1>q, WhoEnters
  <2>2. ASSUME NEW s \in Stacks PROVE Bound(s)' \subseteq Bound(s)
    BY <1>q, WhoIsBound
  <2> QED BY <1>0, <1>q, <2>1, <2>2, NoMorePermits DEF WithinCapacity
<1>1. CASE TakeGlobal
  <2>1. gq \in Seq(Reqs) /\ gq # <<>> /\ gq' = Tail(gq)
    BY <1>1 DEF TakeGlobal, PathTypes
  <2>2. Len(gq') <= Len(gq)
    BY <1>0, <2>1, HeadTailProperties
  <2>3. req' = req /\ bq' = bq /\ reserved' = reserved
    BY <1>1 DEF TakeGlobal
  <2> QED BY <1>0, <1>k, <2>2, <2>3, NoMorePermits DEF WithinCapacity
<1>2. CASE DropGlobal
  <2>1. gcur \in Reqs
    BY <1>2 DEF DropGlobal, PathTypes
  <2> QED BY <1>2, <1>q, <2>1 DEF DropGlobal, Answer, Idle, Gate, StackGate
<1>3. CASE MetaCall
  <2>1. gcur \in Reqs /\ UNCHANGED <<gq, bq>>
    BY <1>3 DEF MetaCall, PathTypes
  <2>2. CASE Answer(gcur) /\ UNCHANGED reserved
    BY <1>q, <2>1, <2>2 DEF Answer, Idle, Gate, StackGate
  <2>3. CASE Goes(gcur, "dlimit", "direct") /\ UNCHANGED <<passed, reserved>>
    BY <1>q, <2>1, <2>3 DEF Goes, Gate, StackGate
  <2>4. ASSUME NEW p \in {"unified", "provider"}, Goes(gcur, p, "proxy"),
               UNCHANGED <<passed, reserved>>
        PROVE  WithinCapacity'
    BY <1>q, <2>1, <2>4 DEF Goes, Gate, StackGate
  <2>5. ASSUME NEW d \in Stacks, Goes(gcur, "scache", d), reserved' = reserved \ {d}
        PROVE  WithinCapacity'
    <3> DEFINE rec == [st |-> "scache", to |-> d]
    <3>1. req' = [req EXCEPT ![gcur] = rec] /\ rec.st \notin Gate /\ rec.to = d
      BY <2>5 DEF Goes, Gate
    <3> HIDE DEF rec
    <3>2. Entering' \subseteq Entering
      BY <2>1, <3>1, WhoEnters
    <3>3. GlobalUsed' <= GlobalCap
      BY <1>0, <2>1, <3>2, NoMorePermits
    <3>4. ASSUME NEW s \in Stacks PROVE StackUsed(s)' <= StackCap
      <4>1. CASE s # d
        <5>1. Bound(s)' \subseteq Bound(s)
          BY <2>1, <3>1, <4>1, WhoIsBound
        <5>2. Len(bq'[s]) <= Len(bq[s])
          BY <1>0, <2>1
        <5>3. s \in reserved' => s \in reserved
          BY <2>5
        <5> QED BY <5>1, <5>2, <5>3, NoMorePermits
      <4>2. CASE s = d
        <5>1. Bound(s)' \subseteq Bound(s) \cup {gcur}
          BY <2>1, <3>1, WhoIsBound
        <5>2. Cardinality(Bound(s)') <= Cardinality(Bound(s)) + 1
          BY <5>1, PermitsOf, OneMoreOrLess
        <5>3. s \in reserved /\ s \notin reserved'
          BY <1>3, <2>5, <4>2 DEF MetaCall, MetaReady
        <5>4. PermitKept(s) = 1 /\ PermitKept(s)' = 0
          BY <5>3 DEF PermitKept
        <5>5. /\ Cardinality(Bound(s)) \in Nat /\ Len(bq[s]) \in Nat
              /\ StackUsed(s) = Len(bq[s]) + Cardinality(Bound(s)) + PermitKept(s)
          BY PermitsOf
        <5>6. /\ Cardinality(Bound(s)') \in Nat
              /\ StackUsed(s)' = Len(bq'[s]) + Cardinality(Bound(s)') + PermitKept(s)'
          BY PermitsAfter
        <5>7. bq'[s] = bq[s] /\ StackUsed(s) <= StackCap
          BY <2>1 DEF WithinCapacity
        <5> QED BY <5>2, <5>4, <5>5, <5>6, <5>7, PathConstants
      <4> QED BY <4>1, <4>2
    <3> QED BY <3>3, <3>4 DEF WithinCapacity
  <2> QED BY <1>3, <2>2, <2>3, <2>4, <2>5 DEF MetaCall
<1>4. ASSUME NEW d \in Stacks, PollStack(d) PROVE WithinCapacity'
  <2>1. /\ req' = req /\ gq' = gq /\ bq' = bq /\ reserved' = reserved \cup {d}
        /\ d \notin reserved /\ StackUsed(d) < StackCap
    BY <1>4 DEF PollStack
  <2>2. GlobalUsed' <= GlobalCap
    BY <1>0, <1>k, <2>1, NoMorePermits
  <2>3. ASSUME NEW s \in Stacks PROVE StackUsed(s)' <= StackCap
    <3>0. Bound(s)' \subseteq Bound(s)
      BY <1>k, <2>1
    <3>1. CASE s # d
      <4>1. Len(bq'[s]) <= Len(bq[s])
        BY <1>0, <2>1
      <4>2. s \in reserved' => s \in reserved
        BY <2>1, <3>1
      <4> QED BY <3>0, <4>1, <4>2, NoMorePermits
    <3>2. CASE s = d
      <4>1. Cardinality(Bound(s)') <= Cardinality(Bound(s))
        BY <3>0, PermitsOf, OneMoreOrLess
      <4>2. s \notin reserved /\ bq'[s] = bq[s] /\ StackUsed(s) < StackCap
        BY <2>1, <3>2
      <4>3. PermitKept(s) = 0
        BY <4>2 DEF PermitKept
      <4>4. /\ Cardinality(Bound(s)) \in Nat /\ Len(bq[s]) \in Nat
            /\ StackUsed(s) = Len(bq[s]) + Cardinality(Bound(s)) + PermitKept(s)
        BY PermitsOf
      <4>5. /\ Cardinality(Bound(s)') \in Nat /\ PermitKept(s)' \in {0, 1}
            /\ StackUsed(s)' = Len(bq'[s]) + Cardinality(Bound(s)') + PermitKept(s)'
        BY PermitsAfter
      <4> QED BY <4>1, <4>2, <4>3, <4>4, <4>5, PathConstants
    <3> QED BY <3>1, <3>2
  <2> QED BY <2>2, <2>3 DEF WithinCapacity
<1> QED BY <1>1, <1>2, <1>3, <1>4 DEF GlobalWorker

\* The workers of the stacks only free permits.
LEMMA StackPermits ==
    ASSUME PathTypes, PathTypes', WithinCapacity, NEW d \in Stacks,
           StackWorker(d) \/ BalancerFails(d) \/ Up(d) \/ Down(d)
    PROVE  WithinCapacity'
<1> USE DEF global, stacks
<1>0. /\ req \in [Reqs -> Record] /\ Len(gq) \in Nat /\ bq \in [Stacks -> Seq(Reqs)]
      /\ \A s \in Stacks : bq[s] \in Seq(Reqs) /\ Len(bq[s]) \in Nat
  BY LenProperties DEF PathTypes, Record
<1>1. gq' = gq /\ reserved' = reserved
  BY DEF StackWorker, TakeStack, DropStack, CallBalancer, BalancerFails, Up, Down
<1>2. ASSUME NEW s \in Stacks PROVE Len(bq'[s]) <= Len(bq[s])
  <2>1. CASE bq' = bq
    BY <1>0, <2>1
  <2>2. CASE bq[d] # <<>> /\ bq' = [bq EXCEPT ![d] = Tail(bq[d])]
    <3>1. Len(Tail(bq[d])) <= Len(bq[d])
      BY <1>0, <2>2, HeadTailProperties
    <3> QED BY <1>0, <2>2, <3>1
  <2>3. CASE bq' = [bq EXCEPT ![d] = <<>>]
    BY <1>0, <2>3
  <2> QED BY <2>1, <2>2, <2>3
        DEF StackWorker, TakeStack, DropStack, CallBalancer, BalancerFails, Up, Down
<1>3. \A q \in Reqs : \/ req'[q] = req[q]
                      \/ req'[q].st \notin Gate \cup StackGate
  <2>1. CASE req' = req
    BY <2>1
  <2>2. CASE DropStack(d)
    <3>1. req' = [req EXCEPT ![cur[d]] = Idle]
      BY <2>2 DEF DropStack, Answer
    <3> QED BY <1>0, <3>1 DEF Idle, Gate, StackGate
  <2>3. CASE CallBalancer(d)
    <3>1. cur[d] \in Reqs /\ At(cur[d], Places)
      BY <2>3 DEF CallBalancer, PathTypes, At, Places
    <3>2. req[cur[d]] \in [st : Places, to : Dests]
      BY <3>1, PlaceOf DEF Places
    <3>3. [req[cur[d]] EXCEPT !.st = "provider"].st = "provider"
      BY <3>2
    <3>4. req' = [req EXCEPT ![cur[d]] = [req[cur[d]] EXCEPT !.st = "provider"]]
      BY <2>3 DEF CallBalancer, Move
    <3> QED BY <1>0, <3>1, <3>3, <3>4 DEF Gate, StackGate
  <2>4. CASE BalancerFails(d)
    <3>1. PICK F : req' = [r \in Reqs |-> IF r \in F THEN Idle ELSE req[r]]
      BY <2>4 DEF BalancerFails
    <3> QED BY <3>1 DEF Idle, Gate, StackGate
  <2> QED BY <2>1, <2>2, <2>3, <2>4 DEF StackWorker, TakeStack, Up, Down
<1>4. Entering' \subseteq Entering
  BY <1>3 DEF Entering, At
<1>5. ASSUME NEW s \in Stacks PROVE Bound(s)' \subseteq Bound(s)
  BY <1>3 DEF Bound, Holders, At
<1>6. GlobalUsed' <= GlobalCap
  BY <1>0, <1>1, <1>4, NoMorePermits
<1>7. ASSUME NEW s \in Stacks PROVE StackUsed(s)' <= StackCap
  <2>1. s \in reserved' => s \in reserved
    BY <1>1
  <2> QED BY <1>2, <1>5, <2>1, NoMorePermits
<1> QED BY <1>6, <1>7 DEF WithinCapacity

\* No Buffer ever has more messages, requests on their way to it and permits given
\* to the meta router than BUFFER_SIZE, whatever the number of requests and stacks.
THEOREM PermitsWithinCapacity == Spec => []WithinCapacity
<1>1. Init => TypeOK
  <2> SUFFICES ASSUME Init PROVE TypeOK
    OBVIOUS
  <2>1. PathTypes
    BY InitPath DEF PathInv
  <2>2. Entering = {} /\ gq = <<>>
    BY DEF Init, Entering, At, Idle, Gate
  <2>3. GlobalUsed = 0
    BY <2>1, <2>2, PermitsOf, FS_EmptySet
  <2>4. ASSUME NEW s \in Stacks PROVE StackUsed(s) = 0
    <3>1. Bound(s) = {} /\ bq[s] = <<>> /\ PermitKept(s) = 0
      BY DEF Init, Bound, Holders, At, Idle, StackGate, PermitKept
    <3> QED BY <2>1, <3>1, PermitsOf, FS_EmptySet
  <2> QED BY <2>1, <2>3, <2>4, PathConstants DEF TypeOK, WithinCapacity
<1>2. TypeOK /\ PathTypes' /\ [Next]_vars => TypeOK'
  <2> SUFFICES ASSUME PathTypes, WithinCapacity, PathTypes', [Next]_vars
               PROVE  WithinCapacity'
    BY DEF TypeOK
  <2>1. CASE UNCHANGED vars
    BY <2>1 DEF vars, global, stacks, WithinCapacity, GlobalUsed, StackUsed, Holders, At
  <2> QED BY <2>1, ClientPermits, GlobalPermits, StackPermits DEF Next
<1>3. PathInv => PathTypes
  BY DEF PathInv
<1>4. TypeOK => WithinCapacity
  BY DEF TypeOK
<1> QED BY <1>1, <1>2, <1>3, <1>4, PathInvariant, PTL DEF Spec

-----------------------------------------------------------------------------
(* The Buffers' messages.                                                  *)

\* A Buffer with the queue q whose worker holds c has the message of r, and has
\* no message twice.
Has(q, c, r) == c = r \/ \E i \in DOMAIN q : q[i] = r
Once(q, c) == /\ \A i, j \in DOMAIN q : q[i] = q[j] => i = j
              /\ \A i \in DOMAIN q : q[i] # c

InGlobal(r) == Has(gq, gcur, r)
InStack(s, r) == Has(bq[s], cur[s], r)
Buffered == {"gbuf", "sbuf", "gone"}

\* Where the message of a request is, by the request's place
Home(r) ==
    /\ InGlobal(r) => At(r, {"gbuf", "gone"}) /\ \A s \in Stacks : ~InStack(s, r)
    /\ \A s \in Stacks : InStack(s, r) =>
          At(r, {"sbuf", "gone"}) /\ \A d \in Stacks : InStack(d, r) => d = s
    /\ At(r, Buffered) => InGlobal(r) \/ \E s \in Stacks : InStack(s, r)
    /\ At(r, StackGate) => req[r].to \in Stacks

\* The inductive invariant of the messages
MessageInv ==
    /\ Once(gq, gcur) /\ \A s \in Stacks : Once(bq[s], cur[s])
    /\ \A r \in Reqs : Home(r)

LEMMA BufferSend ==
    ASSUME NEW q \in Seq(Reqs), NEW c, NEW r \in Reqs
    PROVE  /\ \A x : Has(Append(q, r), c, x) <=> Has(q, c, x) \/ x = r
           /\ Once(q, c) /\ ~Has(q, c, r) => Once(Append(q, r), c)
<1>1. /\ Len(q) \in Nat /\ DOMAIN q = 1..Len(q)
      /\ DOMAIN Append(q, r) = 1..(Len(q) + 1)
      /\ \A i \in 1..Len(q) : Append(q, r)[i] = q[i]
      /\ Append(q, r)[Len(q) + 1] = r
  BY AppendProperties, LenProperties
<1> DEFINE n == Len(q)
           w == Append(q, r)
<1>2. n \in Nat /\ DOMAIN q = 1..n /\ DOMAIN w = 1..(n + 1) /\ w[n + 1] = r
      /\ \A i \in 1..n : w[i] = q[i]
  BY <1>1
<1> HIDE DEF n, w
<1>3. ASSUME NEW i \in DOMAIN w
      PROVE  (i \in DOMAIN q /\ w[i] = q[i]) \/ (i = n + 1 /\ w[i] = r)
  <2>1. i \in 1..n \/ i = n + 1
    BY <1>2
  <2> QED BY <1>2, <2>1
<1>4. \A i \in DOMAIN q : i \in DOMAIN w /\ w[i] = q[i]
  BY <1>2
<1>5. n + 1 \in DOMAIN w
  BY <1>2
<1>6. \A x : Has(w, c, x) <=> Has(q, c, x) \/ x = r
  BY <1>2, <1>3, <1>4, <1>5 DEF Has
<1>7. Once(q, c) /\ ~Has(q, c, r) => Once(w, c)
  BY <1>3 DEF Once, Has
<1> QED BY <1>6, <1>7 DEF w

LEMMA BufferTake ==
    ASSUME NEW q \in Seq(Reqs), q # <<>>
    PROVE  /\ \A x \in Reqs : Has(Tail(q), Head(q), x) <=> Has(q, NoReq, x)
           /\ Once(q, NoReq) => Once(Tail(q), Head(q))
<1> DEFINE n == Len(q)
           h == Head(q)
           w == Tail(q)
<1>1. /\ n \in Nat \ {0} /\ DOMAIN q = 1..n /\ h = q[1] /\ DOMAIN w = 1..(n - 1)
      /\ \A i \in 1..(n - 1) : w[i] = q[i + 1]
  BY HeadTailProperties, LenProperties, EmptySeq
<1> HIDE DEF n, h, w
<1>2. \A i \in DOMAIN w : i + 1 \in DOMAIN q /\ w[i] = q[i + 1] /\ i + 1 # 1
  BY <1>1
<1>3. ASSUME NEW i \in DOMAIN q, i # 1 PROVE i - 1 \in DOMAIN w /\ w[i - 1] = q[i]
  <2>1. i - 1 \in 1..(n - 1) /\ (i - 1) + 1 = i
    BY <1>1, <1>3
  <2> QED BY <1>1, <2>1
<1>4. 1 \in DOMAIN q /\ \A i \in DOMAIN w : i \in Nat
  BY <1>1
<1>5. ASSUME NEW x \in Reqs PROVE Has(w, h, x) <=> Has(q, NoReq, x)
  <2>1. x # NoReq
    BY PathConstants
  <2>2. ASSUME Has(w, h, x) PROVE Has(q, NoReq, x)
    BY <1>1, <1>2, <1>4, <2>2 DEF Has
  <2>3. ASSUME Has(q, NoReq, x) PROVE Has(w, h, x)
    BY <1>1, <1>3, <2>1, <2>3 DEF Has
  <2> QED BY <2>2, <2>3
<1>6. Once(q, NoReq) => Once(w, h)
  <2> SUFFICES ASSUME Once(q, NoReq) PROVE Once(w, h)
    OBVIOUS
  <2>1. \A i, j \in DOMAIN w : w[i] = w[j] => i = j
    <3> TAKE i, j \in DOMAIN w
    <3>1. w[i] = w[j] => i + 1 = j + 1
      BY <1>2 DEF Once
    <3> QED BY <3>1, <1>4
  <2>2. \A i \in DOMAIN w : w[i] # h
    BY <1>1, <1>2, <1>4 DEF Once
  <2> QED BY <2>1, <2>2 DEF Once
<1> QED BY <1>5, <1>6 DEF h, w

LEMMA BufferFree ==
    ASSUME NEW q \in Seq(Reqs), NEW c \in Reqs, Once(q, c)
    PROVE  /\ Has(q, c, c)
           /\ \A x \in Reqs : Has(q, NoReq, x) <=> Has(q, c, x) /\ x # c
           /\ Once(q, NoReq)
<1>1. \A i \in DOMAIN q : q[i] \in Reqs
  BY LenProperties
<1> QED BY <1>1, PathConstants DEF Has, Once

LEMMA BufferEmpty ==
    Once(<<>>, NoReq) /\ \A x \in Reqs : ~Has(<<>>, NoReq, x)
<1>1. DOMAIN <<>> = {}
  OBVIOUS
<1> QED BY <1>1, PathConstants DEF Has, Once

\* A request whose message and place a step leaves alone
LEMMA SameHome ==
    ASSUME NEW r \in Reqs, Home(r), req'[r] = req[r],
           Has(gq', gcur', r) <=> InGlobal(r),
           \A s \in Stacks : Has(bq'[s], cur'[s], r) <=> InStack(s, r)
    PROVE  Home(r)'
  BY DEF Home, InGlobal, InStack, At

\* A step that changes no Buffer: requests outside the Buffers move outside, the
\* client of one inside may leave.
LEMMA MovesOutside ==
    ASSUME MessageInv, PathTypes, UNCHANGED <<gq, gcur, bq, cur>>, NEW r \in Reqs, NEW rec,
           req' = [req EXCEPT ![r] = rec],
           \/ ~At(r, Buffered) /\ rec.st \notin Buffered
           \/ At(r, {"gbuf", "sbuf"}) /\ rec.st = "gone",
           rec.st \in StackGate => rec.to \in Stacks
    PROVE  MessageInv'
<1>1. ASSUME NEW q \in Reqs PROVE Home(q)'
  <2>0. Home(q)
    BY DEF MessageInv
  <2>1. CASE q # r
    <3>1. req'[q] = req[q]
      BY <2>1 DEF PathTypes
    <3> QED BY <2>0, <3>1, SameHome DEF InGlobal, InStack
  <2>2. CASE q = r
    <3>1. req'[q] = rec
      BY <2>2 DEF PathTypes
    <3>2. CASE ~At(r, Buffered) /\ rec.st \notin Buffered
      <4>1. ~InGlobal(q) /\ \A s \in Stacks : ~InStack(s, q)
        BY <2>0, <2>2, <3>2 DEF Home, At, Buffered
      <4> QED BY <3>1, <3>2, <4>1 DEF Home, InGlobal, InStack, At, Buffered
    <3>3. CASE At(r, {"gbuf", "sbuf"}) /\ rec.st = "gone"
      <4>1. InGlobal(q) \/ \E s \in Stacks : InStack(s, q)
        BY <2>0, <2>2, <3>3 DEF Home, At, Buffered
      <4> QED BY <2>0, <3>1, <3>3, <4>1
              DEF Home, InGlobal, InStack, At, Buffered, StackGate
    <3> QED BY <3>2, <3>3
  <2> QED BY <2>1, <2>2
<1> QED BY <1>1 DEF MessageInv

\* The steps of a request's task
LEMMA ClientMessages ==
    ASSUME MessageInv, PathTypes, NEW r \in Reqs,
           Enter(r) \/ Advance(r) \/ Leave(r) \/ Arrive(r)
    PROVE  MessageInv'
<1> USE DEF global, stacks
<1>0. /\ req \in [Reqs -> Record] /\ gq \in Seq(Reqs) /\ Home(r)
      /\ bq \in [Stacks -> Seq(Reqs)]
  BY DEF PathTypes, Record, MessageInv
<1>m. ASSUME NEW p, Move(r, p), At(r, Places)
      PROVE  req' = [req EXCEPT ![r] = [st |-> p, to |-> req[r].to]]
  <2>1. req[r] \in [st : Places, to : Dests]
    BY <1>m, PlaceOf DEF Places
  <2>2. [req[r] EXCEPT !.st = p] = [st |-> p, to |-> req[r].to]
    BY <2>1
  <2> QED BY <1>m, <2>2 DEF Move
<1>b. ASSUME Answer(r), UNCHANGED <<gq, gcur, bq, cur>>, ~At(r, Buffered) PROVE MessageInv'
  <2>1. req' = [req EXCEPT ![r] = Idle] /\ Idle.st \notin Buffered \cup StackGate
    BY <1>b DEF Answer, Idle, Buffered, StackGate
  <2> QED BY <1>b, <2>1, MovesOutside
<1>q. ASSUME NEW p \in Places \ Buffered, NEW d, req' = [req EXCEPT ![r] = [st |-> p, to |-> d]],
             UNCHANGED <<gq, gcur, bq, cur>>, ~At(r, Buffered),
             p \in StackGate => d \in Stacks
      PROVE  MessageInv'
  <2> DEFINE rec == [st |-> p, to |-> d]
  <2>1. rec.st = p /\ rec.to = d /\ req' = [req EXCEPT ![r] = rec]
    BY <1>q
  <2> HIDE DEF rec
  <2> QED BY <1>q, <2>1, MovesOutside
<1>1. CASE Arrive(r)
  <2>1. "wait" \in Places \ Buffered /\ "wait" \notin StackGate /\ ~At(r, Buffered)
    BY <1>1 DEF Arrive, At, Idle, Places, Buffered, StackGate
  <2> QED BY <1>1, <1>q, <2>1 DEF Arrive, Goes
<1>2. CASE Enter(r)
  <2>0. ~At(r, Buffered) /\ At(r, Places)
    BY <1>2 DEF Enter, At, Buffered, Places
  <2>1. CASE Answer(r)
    BY <1>2, <2>0, <2>1, <1>b DEF Enter
  <2>2. CASE Move(r, "auth")
    <3>1. "auth" \in Places \ Buffered /\ "auth" \notin StackGate
      BY DEF Places, Buffered, StackGate
    <3>2. req' = [req EXCEPT ![r] = [st |-> "auth", to |-> req[r].to]]
      BY <2>0, <2>2, <1>m
    <3> QED BY <1>2, <1>q, <2>0, <3>1, <3>2 DEF Enter
  <2> QED BY <1>2, <2>1, <2>2 DEF Enter
<1>3. CASE Leave(r)
  <2>1. CASE At(r, {"gbuf", "sbuf"})
    <3> DEFINE rec == [st |-> "gone", to |-> Anywhere]
    <3>1. rec.st = "gone" /\ rec.st \notin StackGate /\ req' = [req EXCEPT ![r] = rec]
      BY <1>3, <2>1 DEF Leave, Goes, StackGate
    <3>2. UNCHANGED <<gq, gcur, bq, cur>>
      BY <1>3 DEF Leave
    <3> HIDE DEF rec
    <3> QED BY <2>1, <3>1, <3>2, MovesOutside
  <2>2. CASE ~At(r, {"gbuf", "sbuf"})
    <3>1. ~At(r, Buffered)
      BY <1>3, <2>2 DEF Leave, At, Buffered
    <3> QED BY <1>3, <2>2, <3>1, <1>b DEF Leave
  <2> QED BY <2>1, <2>2
<1>4. CASE \/ AuthorizeFails(r) \/ Reject(r) \/ CacheAnswers(r) \/ ProviderAnswers(r)
  <2>1. ~At(r, Buffered)
    BY <1>4 DEF AuthorizeFails, Reject, CacheAnswers, ProviderAnswers, At, Buffered
  <2> QED BY <1>4, <2>1, <1>b DEF AuthorizeFails, Reject, CacheAnswers, ProviderAnswers
<1>5. CASE \/ Authorize(r) \/ GlobalLimit(r) \/ StackMiss(r) \/ DirectLimit(r) \/ DirectMiss(r)
  <2>1. PICK p \in {"limit", "cache", "slimit", "dcache", "provider"} :
           /\ Move(r, p) /\ At(r, Places) /\ ~At(r, Buffered)
           /\ p = "slimit" => At(r, StackGate)
    BY <1>5 DEF Authorize, GlobalLimit, StackMiss, DirectLimit, DirectMiss, At, Places,
                StackGate, Buffered
  <2>2. req' = [req EXCEPT ![r] = [st |-> p, to |-> req[r].to]]
    BY <2>1, <1>m
  <2>3. UNCHANGED <<gq, gcur, bq, cur>>
    BY <1>5 DEF Authorize, GlobalLimit, StackMiss, DirectLimit, DirectMiss
  <2>4. p \in Places \ Buffered /\ (p \in StackGate => p = "slimit")
    BY <2>1 DEF Places, Buffered, StackGate
  <2>5. p \in StackGate => req[r].to \in Stacks
    BY <1>0, <2>1, <2>4 DEF Home
  <2> QED BY <2>1, <2>2, <2>3, <2>4, <2>5, <1>q
<1>6. CASE UnifiedApi(r)
  <2>0. ~At(r, Buffered)
    BY <1>6 DEF UnifiedApi, At, Buffered
  <2>1. CASE Answer(r)
    BY <1>6, <2>0, <2>1, <1>b DEF UnifiedApi
  <2>2. CASE Goes(r, "provider", "proxy")
    <3>1. "provider" \in Places \ Buffered /\ "provider" \notin StackGate
      BY DEF Places, Buffered, StackGate
    <3> QED BY <1>6, <2>0, <2>2, <3>1, <1>q DEF UnifiedApi, Goes
  <2> QED BY <1>6, <2>1, <2>2 DEF UnifiedApi
<1>n. ASSUME At(r, {"cache", "slimit"})
      PROVE  ~InGlobal(r) /\ \A s \in Stacks : ~InStack(s, r)
  BY <1>0, <1>n DEF Home, At
<1>7. CASE GlobalMiss(r)
  <2>1. req' = [req EXCEPT ![r] = [st |-> "gbuf", to |-> req[r].to]]
    BY <1>7, <1>m DEF GlobalMiss, At, Places
  <2>2. gq' = Append(gq, r) /\ UNCHANGED <<gcur, bq, cur>> /\ At(r, {"cache", "slimit"})
    BY <1>7 DEF GlobalMiss, At
  <2>3. /\ \A x : Has(gq', gcur', x) <=> Has(gq, gcur, x) \/ x = r
        /\ Once(gq', gcur')
    BY <1>0, <1>n, <2>2, BufferSend DEF MessageInv, InGlobal
  <2>4. ASSUME NEW x \in Reqs PROVE Home(x)'
    <3>0. Home(x)
      BY DEF MessageInv
    <3>1. CASE x # r
      <4>1. req'[x] = req[x]
        BY <1>0, <2>1, <3>1
      <4> QED BY <2>2, <2>3, <3>0, <3>1, <4>1, SameHome DEF InGlobal, InStack
    <3>2. CASE x = r
      <4>1. req'[x].st = "gbuf"
        BY <1>0, <2>1, <3>2
      <4> QED BY <1>n, <2>2, <2>3, <3>2, <4>1 DEF Home, InGlobal, InStack, At, StackGate
    <3> QED BY <3>1, <3>2
  <2> QED BY <2>2, <2>3, <2>4 DEF MessageInv
<1>8. CASE StackSend(r)
  <2> DEFINE d == req[r].to
  <2>0. d \in Stacks /\ At(r, {"cache", "slimit"}) /\ ~At(r, Buffered)
    BY <1>0, <1>8 DEF StackSend, Home, At, StackGate, Buffered
  <2>1. CASE d \in closed
    BY <1>8, <2>0, <2>1, <1>b DEF StackSend
  <2>2. CASE d \notin closed
    <3>1. req' = [req EXCEPT ![r] = [st |-> "sbuf", to |-> d]]
      BY <1>8, <2>2, <1>m DEF StackSend, At, Places
    <3>2. bq' = [bq EXCEPT ![d] = Append(bq[d], r)] /\ UNCHANGED <<gq, gcur, cur>>
      BY <1>8, <2>2 DEF StackSend
    <3>3. /\ bq'[d] = Append(bq[d], r) /\ cur'[d] = cur[d]
          /\ \A s \in Stacks : s # d => bq'[s] = bq[s] /\ cur'[s] = cur[s]
      BY <1>0, <2>0, <3>2
    <3>a. req'[r] = [st |-> "sbuf", to |-> d]
      BY <1>0, <3>1
    <3>b. \A x \in Reqs : x # r => req'[x] = req[x]
      BY <1>0, <3>1
    <3> HIDE DEF d
    <3>4. /\ \A x : Has(bq'[d], cur'[d], x) <=> Has(bq[d], cur[d], x) \/ x = r
          /\ Once(bq'[d], cur'[d])
      <4>1. bq[d] \in Seq(Reqs) /\ Once(bq[d], cur[d]) /\ ~Has(bq[d], cur[d], r)
        BY <1>0, <1>n, <2>0 DEF MessageInv, InStack
      <4> QED BY <3>3, <4>1, BufferSend
    <3>5. ASSUME NEW x \in Reqs PROVE Home(x)'
      <4>0. Home(x)
        BY DEF MessageInv
      <4>1. CASE x # r
        <5>1. \A s \in Stacks : Has(bq'[s], cur'[s], x) <=> InStack(s, x)
          BY <3>3, <3>4, <4>1 DEF InStack
        <5> QED BY <3>2, <3>b, <4>0, <4>1, <5>1, SameHome DEF InGlobal
      <4>2. CASE x = r
        <5>1. req'[x].st = "sbuf"
          BY <3>a, <4>2
        <5>2. ~Has(gq', gcur', x) /\ \A s \in Stacks : Has(bq'[s], cur'[s], x) <=> s = d
          BY <1>n, <2>0, <3>2, <3>3, <3>4, <4>2 DEF InGlobal, InStack
        <5> QED BY <2>0, <5>1, <5>2 DEF Home, InGlobal, InStack, At, StackGate
      <4> QED BY <4>1, <4>2
    <3>6. \A s \in Stacks : Once(bq'[s], cur'[s])
      BY <3>3, <3>4 DEF MessageInv
    <3> QED BY <3>2, <3>5, <3>6 DEF MessageInv
  <2> QED BY <2>1, <2>2
<1> QED BY <1>1, <1>2, <1>3, <1>4, <1>5, <1>6, <1>7, <1>8 DEF Advance

\* The steps of the global Buffer's worker and of the meta router
LEMMA GlobalMessages ==
    ASSUME MessageInv, PathTypes, GlobalWorker
    PROVE  MessageInv'
<1> USE DEF global, stacks
<1>0. req \in [Reqs -> Record] /\ gq \in Seq(Reqs) /\ gcur \in Reqs \cup {NoReq}
  BY DEF PathTypes, Record
<1>1. CASE TakeGlobal
  <2>1. /\ gq # <<>> /\ gcur = NoReq /\ gcur' = Head(gq) /\ gq' = Tail(gq)
        /\ UNCHANGED <<req, bq, cur>>
    BY <1>1 DEF TakeGlobal
  <2>2. /\ \A x \in Reqs : Has(gq', gcur', x) <=> Has(gq, gcur, x)
        /\ Once(gq', gcur')
    BY <1>0, <2>1, BufferTake DEF MessageInv
  <2>3. ASSUME NEW x \in Reqs PROVE Home(x)'
    BY <2>1, <2>2, SameHome DEF MessageInv, InGlobal, InStack
  <2> QED BY <2>1, <2>2, <2>3 DEF MessageInv
<1>f. ASSUME gcur \in Reqs, gcur' = NoReq, UNCHANGED <<gq, bq, cur>>, NEW rec,
             req' = [req EXCEPT ![gcur] = rec], rec.st \notin Buffered,
             rec.st \in StackGate => rec.to \in Stacks
      PROVE  MessageInv'
  <2>1. /\ InGlobal(gcur) /\ Once(gq', gcur')
        /\ \A x \in Reqs : Has(gq', gcur', x) <=> InGlobal(x) /\ x # gcur
    BY <1>0, <1>f, BufferFree DEF MessageInv, InGlobal
  <2>2. ASSUME NEW x \in Reqs PROVE Home(x)'
    <3>0. Home(x)
      BY DEF MessageInv
    <3>1. CASE x # gcur
      <4>1. req'[x] = req[x]
        BY <1>0, <1>f, <3>1
      <4> QED BY <1>f, <2>1, <3>0, <3>1, <4>1, SameHome DEF InStack
    <3>2. CASE x = gcur
      <4>1. req'[x] = rec
        BY <1>0, <1>f, <3>2
      <4>2. ~Has(gq', gcur', x) /\ \A s \in Stacks : ~Has(bq'[s], cur'[s], x)
        BY <1>f, <2>1, <3>0, <3>2 DEF Home, InStack
      <4> QED BY <1>f, <4>1, <4>2 DEF Home, InGlobal, InStack, At
    <3> QED BY <3>1, <3>2
  <2> QED BY <1>f, <2>1, <2>2 DEF MessageInv
<1>a. ASSUME gcur \in Reqs, Answer(gcur), gcur' = NoReq, UNCHANGED <<gq, bq, cur>>
      PROVE  MessageInv'
  <2>1. Idle.st \notin Buffered \cup StackGate
    BY DEF Idle, Buffered, StackGate
  <2> QED BY <1>a, <1>f, <2>1 DEF Answer
<1>2. CASE DropGlobal
  BY <1>0, <1>2, <1>a DEF DropGlobal
<1>3. CASE MetaCall
  <2>1. gcur \in Reqs /\ gcur' = NoReq /\ UNCHANGED <<gq, bq, cur>>
    BY <1>0, <1>3 DEF MetaCall
  <2>2. CASE Answer(gcur)
    BY <1>a, <2>1, <2>2
  <2>3. ASSUME NEW p \in {"scache", "dlimit", "unified", "provider"}, NEW d,
               Goes(gcur, p, d), p = "scache" => d \in Stacks
        PROVE  MessageInv'
    <3> DEFINE rec == [st |-> p, to |-> d]
    <3>1. /\ req' = [req EXCEPT ![gcur] = rec] /\ rec.st \notin Buffered
          /\ rec.st \in StackGate => rec.to \in Stacks
      BY <2>3 DEF Goes, Buffered, StackGate
    <3> HIDE DEF rec
    <3> QED BY <1>f, <2>1, <3>1
  <2> QED BY <1>3, <2>2, <2>3 DEF MetaCall
<1>4. ASSUME NEW s \in Stacks, PollStack(s) PROVE MessageInv'
  <2>1. UNCHANGED <<req, gq, gcur, bq, cur>>
    BY <1>4 DEF PollStack
  <2>2. ASSUME NEW x \in Reqs PROVE Home(x)'
    BY <2>1, SameHome DEF MessageInv, InGlobal, InStack
  <2> QED BY <2>1, <2>2 DEF MessageInv
<1> QED BY <1>1, <1>2, <1>3, <1>4 DEF GlobalWorker

\* The steps of a stack's worker
LEMMA StackMessages ==
    ASSUME MessageInv, PathTypes, NEW d \in Stacks,
           StackWorker(d) \/ BalancerFails(d) \/ Up(d) \/ Down(d)
    PROVE  MessageInv'
<1> USE DEF global, stacks
<1>0. /\ req \in [Reqs -> Record] /\ bq \in [Stacks -> Seq(Reqs)]
      /\ cur \in [Stacks -> Reqs \cup {NoReq}]
      /\ Once(bq[d], cur[d]) /\ bq[d] \in Seq(Reqs)
  BY DEF PathTypes, Record, MessageInv
<1>1. CASE Up(d) \/ Down(d)
  <2>1. UNCHANGED <<req, gq, gcur, bq, cur>>
    BY <1>1 DEF Up, Down
  <2>2. ASSUME NEW x \in Reqs PROVE Home(x)'
    BY <2>1, SameHome DEF MessageInv, InGlobal, InStack
  <2> QED BY <2>1, <2>2 DEF MessageInv
<1>2. CASE TakeStack(d)
  <2>1. /\ bq[d] # <<>> /\ cur[d] = NoReq /\ UNCHANGED <<req, gq, gcur>>
        /\ cur'[d] = Head(bq[d]) /\ bq'[d] = Tail(bq[d])
        /\ \A s \in Stacks : s # d => bq'[s] = bq[s] /\ cur'[s] = cur[s]
    BY <1>0, <1>2 DEF TakeStack
  <2>2. /\ \A x \in Reqs : Has(bq'[d], cur'[d], x) <=> Has(bq[d], cur[d], x)
        /\ Once(bq'[d], cur'[d])
    BY <1>0, <2>1, BufferTake
  <2>3. ASSUME NEW x \in Reqs PROVE Home(x)'
    <3>1. \A s \in Stacks : Has(bq'[s], cur'[s], x) <=> InStack(s, x)
      BY <2>1, <2>2 DEF InStack
    <3> QED BY <2>1, <3>1, SameHome DEF MessageInv, InGlobal
  <2>4. \A s \in Stacks : Once(bq'[s], cur'[s])
    BY <2>1, <2>2 DEF MessageInv
  <2> QED BY <2>1, <2>3, <2>4 DEF MessageInv
<1>f. ASSUME NEW F, UNCHANGED <<gq, gcur>>, Once(bq'[d], cur'[d]),
             \A s \in Stacks : s # d => bq'[s] = bq[s] /\ cur'[s] = cur[s],
             \A x \in Reqs : x \in F => InStack(d, x) /\ req'[x].st \notin Buffered \cup StackGate,
             \A x \in Reqs : x \notin F => req'[x] = req[x],
             \A x \in Reqs : Has(bq'[d], cur'[d], x) <=> InStack(d, x) /\ x \notin F
      PROVE  MessageInv'
  <2>1. ASSUME NEW x \in Reqs PROVE Home(x)'
    <3>0. Home(x)
      BY DEF MessageInv
    <3>1. CASE x \notin F
      <4>1. \A s \in Stacks : Has(bq'[s], cur'[s], x) <=> InStack(s, x)
        BY <1>f, <3>1 DEF InStack
      <4> QED BY <1>f, <3>0, <3>1, <4>1, SameHome DEF InGlobal
    <3>2. CASE x \in F
      <4>1. ~InGlobal(x) /\ \A s \in Stacks : InStack(s, x) => s = d
        BY <1>f, <3>0, <3>2 DEF Home
      <4>2. ~Has(gq', gcur', x) /\ \A s \in Stacks : ~Has(bq'[s], cur'[s], x)
        BY <1>f, <3>2, <4>1 DEF InGlobal, InStack
      <4> QED BY <1>f, <3>2, <4>2 DEF Home, InGlobal, InStack, At
    <3> QED BY <3>1, <3>2
  <2>2. \A s \in Stacks : Once(bq'[s], cur'[s])
    BY <1>f DEF MessageInv
  <2> QED BY <1>f, <2>1, <2>2 DEF MessageInv
<1>3. CASE DropStack(d) \/ CallBalancer(d)
  <2> DEFINE r == cur[d]
  <2>1. /\ r \in Reqs /\ UNCHANGED <<gq, gcur>>
        /\ cur'[d] = NoReq /\ bq'[d] = bq[d]
        /\ \A s \in Stacks : s # d => bq'[s] = bq[s] /\ cur'[s] = cur[s]
    BY <1>0, <1>3 DEF DropStack, CallBalancer
  <2>2. req'[r].st \notin Buffered \cup StackGate
        /\ \A x \in Reqs : x # r => req'[x] = req[x]
    <3>1. CASE DropStack(d)
      BY <1>0, <2>1, <3>1 DEF DropStack, Answer, Idle, Buffered, StackGate
    <3>2. CASE CallBalancer(d)
      <4>1. req[r] \in [st : Places, to : Dests]
        BY <2>1, <3>2, PlaceOf DEF CallBalancer, At, Places
      <4>2. req' = [req EXCEPT ![r] = [req[r] EXCEPT !.st = "provider"]]
        BY <3>2 DEF CallBalancer, Move
      <4> QED BY <1>0, <2>1, <4>1, <4>2 DEF Buffered, StackGate
    <3> QED BY <1>3, <3>1, <3>2
  <2>3. /\ InStack(d, r) /\ Once(bq'[d], cur'[d])
        /\ \A x \in Reqs : Has(bq'[d], cur'[d], x) <=> InStack(d, x) /\ x # r
    BY <1>0, <2>1, BufferFree DEF InStack
  <2> HIDE DEF r
  <2>4. \A x \in Reqs : x \in {r} => InStack(d, x) /\ req'[x].st \notin Buffered \cup StackGate
    BY <2>2, <2>3
  <2>5. \A x \in Reqs : x \notin {r} => req'[x] = req[x]
    BY <2>2
  <2>6. \A x \in Reqs : Has(bq'[d], cur'[d], x) <=> InStack(d, x) /\ x \notin {r}
    BY <2>3
  <2> QED BY <2>1, <2>3, <2>4, <2>5, <2>6, <1>f
<1>4. CASE BalancerFails(d)
  <2> DEFINE F == {cur[d]} \cup {bq[d][i] : i \in DOMAIN bq[d]}
  <2>1. /\ UNCHANGED <<gq, gcur>> /\ cur'[d] = NoReq /\ bq'[d] = <<>>
        /\ \A s \in Stacks : s # d => bq'[s] = bq[s] /\ cur'[s] = cur[s]
    BY <1>0, <1>4 DEF BalancerFails
  <2>2. req' = [r \in Reqs |-> IF r \in F THEN Idle ELSE req[r]]
    BY <1>4 DEF BalancerFails
  <2>3. \A x \in Reqs : x \in F <=> InStack(d, x)
    BY DEF InStack, Has
  <2> HIDE DEF F
  <2>4. \A x \in Reqs : x \in F => InStack(d, x) /\ req'[x].st \notin Buffered \cup StackGate
    BY <2>2, <2>3 DEF Idle, Buffered, StackGate
  <2>5. \A x \in Reqs : x \notin F => req'[x] = req[x]
    BY <2>2
  <2>6. /\ Once(bq'[d], cur'[d])
        /\ \A x \in Reqs : Has(bq'[d], cur'[d], x) <=> InStack(d, x) /\ x \notin F
    BY <2>1, <2>3, BufferEmpty
  <2> QED BY <2>1, <2>4, <2>5, <2>6, <1>f
<1> QED BY <1>1, <1>2, <1>3, <1>4 DEF StackWorker

\* A message in one place of one Buffer is one copy, in none it is none.
LEMMA OneCopy ==
    ASSUME MessageInv, PathTypes, NEW r \in Reqs
    PROVE  Copies(r) = (IF At(r, Buffered) THEN 1 ELSE 0)
<1> DEFINE A == {i \in DOMAIN gq : gq[i] = r}
           B == IF gcur = r THEN 1 ELSE 0
           C == {x \in Queued : bq[x[1]][x[2]] = r}
           D == {s \in Stacks : cur[s] = r}
<1>0. Home(r) /\ Once(gq, gcur) /\ \A s \in Stacks : Once(bq[s], cur[s])
  BY DEF MessageInv
<1>1. Copies(r) = Cardinality(A) + B + Cardinality(C) + Cardinality(D)
  BY DEF Copies
<1>2. Cardinality({}) = 0 /\ \A x : Cardinality({x}) = 1
  BY FS_EmptySet, FS_Singleton
<1>3. \A x : x \in C <=> \E s \in Stacks : \E i \in DOMAIN bq[s] : x = <<s, i>> /\ bq[s][i] = r
  BY DEF Queued
<1>g. ~InGlobal(r) => A = {} /\ B = 0
  BY DEF InGlobal, Has
<1>s. (\A s \in Stacks : ~InStack(s, r)) => C = {} /\ D = {}
  <2> SUFFICES ASSUME \A s \in Stacks : ~InStack(s, r) PROVE C = {} /\ D = {}
    OBVIOUS
  <2>1. D = {}
    BY DEF InStack, Has
  <2> HIDE DEF C
  <2>2. \A x : x \notin C
    BY <1>3 DEF InStack, Has
  <2> QED BY <2>1, <2>2
<1>4. CASE InGlobal(r)
  <2>1. C = {} /\ D = {} /\ At(r, Buffered)
    BY <1>0, <1>4, <1>s DEF Home, At, Buffered
  <2>2. CASE gcur = r
    <3>1. A = {} /\ B = 1
      BY <1>0, <2>2 DEF Once
    <3> HIDE DEF A, B, C, D
    <3>2. Cardinality(A) = 0 /\ B = 1 /\ Cardinality(C) = 0 /\ Cardinality(D) = 0
      BY <1>2, <2>1, <3>1
    <3>3. Copies(r) = 1
      BY <1>1, <3>2
    <3> QED BY <2>1, <3>3
  <2>3. CASE gcur # r
    <3>1. PICK i \in DOMAIN gq : gq[i] = r
      BY <1>4, <2>3 DEF InGlobal, Has
    <3>2. A = {i} /\ B = 0
      BY <1>0, <2>3, <3>1 DEF Once
    <3> HIDE DEF A, B, C, D
    <3>3. Cardinality(A) = 1 /\ B = 0 /\ Cardinality(C) = 0 /\ Cardinality(D) = 0
      BY <1>2, <2>1, <3>2
    <3>4. Copies(r) = 1
      BY <1>1, <3>3
    <3> QED BY <2>1, <3>4
  <2> QED BY <2>2, <2>3
<1>5. ASSUME NEW s \in Stacks, InStack(s, r) PROVE Copies(r) = (IF At(r, Buffered) THEN 1 ELSE 0)
  <2>1. /\ ~InGlobal(r) /\ At(r, Buffered) /\ Once(bq[s], cur[s])
        /\ \A d \in Stacks : InStack(d, r) => d = s
    BY <1>0, <1>5 DEF Home, At, Buffered
  <2>2. A = {} /\ B = 0
    BY <1>g, <2>1
  <2> HIDE DEF C
  <2>3. CASE cur[s] = r
    <3>1. D = {s}
      BY <2>1, <2>3 DEF InStack, Has
    <3>2. \A x : x \notin C
      BY <1>3, <2>1, <2>3 DEF InStack, Has, Once
    <3>3. C = {}
      BY <3>2
    <3> HIDE DEF A, B, C, D
    <3>6. Cardinality(A) = 0 /\ B = 0 /\ Cardinality(C) = 0 /\ Cardinality(D) = 1
      BY <1>2, <2>2, <3>1, <3>3
    <3>7. Copies(r) = 1
      BY <1>1, <3>6
    <3> QED BY <2>1, <3>7
  <2>4. CASE cur[s] # r
    <3>1. PICK i \in DOMAIN bq[s] : bq[s][i] = r
      BY <1>5, <2>4 DEF InStack, Has
    <3>2. D = {}
      BY <2>1, <2>4 DEF InStack, Has
    <3>3. \A x : x \in C => x = <<s, i>>
      BY <1>3, <2>1, <3>1 DEF InStack, Has, Once
    <3>4. <<s, i>> \in C
      BY <1>3, <3>1
    <3>5. C = {<<s, i>>}
      BY <3>3, <3>4
    <3> HIDE DEF A, B, C, D
    <3>6. Cardinality(A) = 0 /\ B = 0 /\ Cardinality(C) = 1 /\ Cardinality(D) = 0
      BY <1>2, <2>2, <3>2, <3>5
    <3>7. Copies(r) = 1
      BY <1>1, <3>6
    <3> QED BY <2>1, <3>7
  <2> QED BY <2>3, <2>4
<1>6. CASE ~InGlobal(r) /\ \A s \in Stacks : ~InStack(s, r)
  <2>1. ~At(r, Buffered)
    BY <1>0, <1>6 DEF Home
  <2>2. A = {} /\ B = 0 /\ C = {} /\ D = {}
    BY <1>6, <1>g, <1>s
  <2> HIDE DEF A, B, C, D
  <2> QED BY <1>1, <1>2, <2>1, <2>2
<1> QED BY <1>4, <1>5, <1>6

\* Messages and places agree in every state.
THEOREM MessageInvariant == Spec => []MessageInv
<1>1. Init => MessageInv
  <2> SUFFICES ASSUME Init PROVE MessageInv
    OBVIOUS
  <2>1. Once(gq, gcur) /\ \A s \in Stacks : Once(bq[s], cur[s])
    BY BufferEmpty DEF Init
  <2>2. ASSUME NEW r \in Reqs PROVE Home(r)
    BY BufferEmpty DEF Init, Home, InGlobal, InStack, At, Idle, Buffered, StackGate
  <2> QED BY <2>1, <2>2 DEF MessageInv
<1>2. MessageInv /\ PathTypes /\ [Next]_vars => MessageInv'
  <2> SUFFICES ASSUME MessageInv, PathTypes, [Next]_vars PROVE MessageInv'
    OBVIOUS
  <2>1. CASE UNCHANGED vars
    <3>1. UNCHANGED <<req, gq, gcur, bq, cur>>
      BY <2>1 DEF vars, global, stacks
    <3>2. ASSUME NEW x \in Reqs PROVE Home(x)'
      BY <3>1, SameHome DEF MessageInv, InGlobal, InStack
    <3> QED BY <3>1, <3>2 DEF MessageInv
  <2> QED BY <2>1, ClientMessages, GlobalMessages, StackMessages DEF Next
<1>3. PathInv => PathTypes
  BY DEF PathInv
<1> QED BY <1>1, <1>2, <1>3, PathInvariant, PTL DEF Spec

\* However requests are queued, cancelled, failed and answered, there is exactly one
\* message of a request that waits in a Buffer and none of any other: no worker
\* answers a request twice, and none is forgotten.
THEOREM EveryMessageOnce == Spec => []MessagesConserved
<1>1. MessageInv /\ PathInv => MessagesConserved
  BY OneCopy DEF PathInv, MessagesConserved, Buffered
<1> QED BY <1>1, MessageInvariant, PathInvariant, PTL
=============================================================================
