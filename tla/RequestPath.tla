----------------------------- MODULE RequestPath -----------------------------
(***************************************************************************)
(* The way of a request through the gateway's service stack, from the      *)
(* connection to a provider's dispatcher: health check, authentication,    *)
(* global rate limit and cache, the global Buffer, the meta router, then   *)
(* either the stack of a router's endpoint type (cache, rate limit, a      *)
(* Buffer of its own, the balancer) or a direct proxy.                     *)
(*                                                                         *)
(* A tower service may be called only when poll_ready has returned Ready.  *)
(* A Buffer is Ready when it has given out a permit for one more message;  *)
(* the meta router is Ready when EVERY stack is, whatever stack the next   *)
(* request is for.  A Buffer's worker holds one message while it waits for *)
(* the service behind it.                                                  *)
(***************************************************************************)
EXTENDS Integers, Sequences, FiniteSets

CONSTANTS
    Reqs,        \* requests that may be under way at once
    Stacks,      \* a router's endpoint types, one balancer stack each
    GlobalCap,   \* BUFFER_SIZE of the global Buffer
    StackCap,    \* BUFFER_SIZE of a stack's Buffer
    LayerSets    \* the sets of layers a configuration may enable

\* A request no client has, a Buffer's worker with no message
Idle == [st |-> "idle"]
NoReq == [st |-> "none"]

ASSUME PathConstants ==
    /\ IsFiniteSet(Reqs) /\ Stacks # {} /\ NoReq \notin Reqs
    /\ GlobalCap \in Nat \ {0} /\ StackCap \in Nat \ {0}
    /\ \A L \in LayerSets : L \subseteq {"auth", "globalLimit", "routerLimit"}

VARIABLES
    layers,      \* what is enabled (caches are: a disabled one always misses)
    req,         \* where each request is, and where it goes
    passed,      \* history: what each request has passed, of "auth" and limits
    gq, gcur,    \* the global Buffer: messages queued, the one its worker holds
    reserved,    \* stacks whose Buffer has given the meta router a permit
    bq, cur,     \* the same of every stack's Buffer
    up,          \* stacks whose balancer has a ready service
    closed       \* stacks whose balancer has failed, and with it their Buffer

global == <<gq, gcur>>
stacks == <<bq, cur>>
vars == <<layers, req, passed, global, reserved, stacks, up, closed>>

\* What the meta router makes of a request's path: a stack; "direct", a path of a
\* router that is no API endpoint it knows; "proxy", the unified API or a
\* provider's own path.  Before that it is Anywhere.
Anywhere == "any"
Dests == Stacks \cup {"direct", "proxy", Anywhere}

\* The places of a request.  "gone" is a message whose client has left.
Places == {"wait", "auth", "limit", "cache", "gbuf", "scache", "slimit", "sbuf",
           "dlimit", "dcache", "unified", "provider", "gone"}

At(r, places) == req[r].st \in places
Holders(places, s) == {r \in Reqs : At(r, places) /\ req[r].to = s}

\* Permits of a Buffer that are in use: by messages in its channel, by requests
\* on their way to it, and for a stack by the meta router.
GlobalUsed == Len(gq) + Cardinality({r \in Reqs : At(r, {"auth", "limit", "cache"})})
StackUsed(s) == Len(bq[s]) + Cardinality(Holders({"scache", "slimit"}, s))
                           + (IF s \in reserved THEN 1 ELSE 0)

PathTypes ==
    /\ layers \in LayerSets
    /\ req \in [Reqs -> {Idle} \cup [st : Places, to : Dests]]
    /\ passed \in [Reqs -> SUBSET {"auth", "globalLimit", "routerLimit"}]
    /\ gq \in Seq(Reqs) /\ gcur \in Reqs \cup {NoReq}
    /\ reserved \subseteq Stacks /\ up \subseteq Stacks /\ closed \subseteq Stacks
    /\ bq \in [Stacks -> Seq(Reqs)] /\ cur \in [Stacks -> Reqs \cup {NoReq}]

\* No Buffer gives out more permits than it has room for, wherever the requests
\* that took them are: in the layers in front of it, queued, gone with their client,
\* or with the meta router, which keeps one of every stack.
WithinCapacity ==
    /\ GlobalUsed <= GlobalCap
    /\ \A s \in Stacks : StackUsed(s) <= StackCap

TypeOK == PathTypes /\ WithinCapacity

Init ==
    /\ layers \in LayerSets
    /\ req = [r \in Reqs |-> Idle] /\ passed = [r \in Reqs |-> {}]
    /\ gq = <<>> /\ gcur = NoReq /\ reserved = {}
    /\ bq = [s \in Stacks |-> <<>>] /\ cur = [s \in Stacks |-> NoReq]
    /\ up = {} /\ closed = {}

Goes(r, place, d) == req' = [req EXCEPT ![r] = [st |-> place, to |-> d]]
Move(r, place) == req' = [req EXCEPT ![r].st = place]
Answer(r) == /\ req' = [req EXCEPT ![r] = Idle]
             /\ passed' = [passed EXCEPT ![r] = {}]
Pass(r, layer) == passed' = [passed EXCEPT ![r] = @ \cup {layer}]

-----------------------------------------------------------------------------
\* The global layers, in the client's task.

Arrive(r) ==
    /\ req[r] = Idle
    /\ Goes(r, "wait", Anywhere)
    /\ UNCHANGED <<layers, passed, global, reserved, stacks, up, closed>>

\* poll_ready of the whole stack: every layer asks the next, down to the global
\* Buffer.  Even GET /health is answered only once the Buffer has room.
Enter(r) ==
    /\ At(r, {"wait"}) /\ GlobalUsed < GlobalCap
    /\ \/ Move(r, "auth") /\ UNCHANGED passed
       \/ Answer(r)
    /\ UNCHANGED <<layers, global, reserved, stacks, up, closed>>

\* AuthService: disabled, or the key is in the control plane's configuration
Authorize(r) ==
    /\ At(r, {"auth"})
    /\ Move(r, "limit")
    /\ IF "auth" \in layers THEN Pass(r, "auth") ELSE UNCHANGED passed
    /\ UNCHANGED <<layers, global, reserved, stacks, up, closed>>

AuthorizeFails(r) ==
    /\ At(r, {"auth"}) /\ "auth" \in layers
    /\ Answer(r)
    /\ UNCHANGED <<layers, global, reserved, stacks, up, closed>>

\* Mutation of LimitPasses: a request without an AuthContext passes uncharged.
LimitPassesUnkeyed(r, layer) ==
    IF {layer, "auth"} \subseteq layers THEN Pass(r, layer) ELSE UNCHANGED passed

\* A limiter that is not configured lets everything pass.  One that is finds its
\* key in the AuthContext, and fails without it.
LimitPasses(r, layer) ==
    /\ layer \in layers => "auth" \in passed[r]
    /\ IF layer \in layers THEN Pass(r, layer) ELSE UNCHANGED passed

GlobalLimit(r) ==
    /\ At(r, {"limit"})
    /\ LimitPasses(r, "globalLimit")
    /\ Move(r, "cache")
    /\ UNCHANGED <<layers, global, reserved, stacks, up, closed>>

\* 429, or no key to limit by
Reject(r) ==
    /\ \/ At(r, {"limit"}) /\ "globalLimit" \in layers
       \/ At(r, {"slimit", "dlimit"}) /\ "routerLimit" \in layers
    /\ Answer(r)
    /\ UNCHANGED <<layers, global, reserved, stacks, up, closed>>

\* A cache serves the request, or fails to.
CacheAnswers(r) ==
    /\ At(r, {"cache", "scache", "dcache"})
    /\ Answer(r)
    /\ UNCHANGED <<layers, global, reserved, stacks, up, closed>>

\* The global cache misses: the message goes to the global Buffer.
GlobalMiss(r) ==
    /\ At(r, {"cache"})
    /\ Move(r, "gbuf")
    /\ gq' = Append(gq, r)
    /\ UNCHANGED <<layers, passed, gcur, reserved, stacks, up, closed>>

-----------------------------------------------------------------------------
\* The global Buffer's worker and the meta router.

\* A Buffer's worker takes the next message, or drops the one it holds, or the
\* next, because its client has left.
TakeGlobal ==
    /\ gcur = NoReq /\ gq # <<>>
    /\ gcur' = Head(gq) /\ gq' = Tail(gq)
    /\ UNCHANGED <<layers, req, passed, reserved, stacks, up, closed>>

DropGlobal ==
    /\ gcur # NoReq /\ At(gcur, {"gone"})
    /\ Answer(gcur)
    /\ gcur' = NoReq
    /\ UNCHANGED <<layers, gq, reserved, stacks, up, closed>>

\* Mutation of PollStack: the Buffer is Ready only when its balancer is.
PollStackThrough(s) ==
    /\ gcur # NoReq
    /\ s \notin reserved /\ s \notin closed /\ s \in up /\ StackUsed(s) < StackCap
    /\ reserved' = reserved \cup {s}
    /\ UNCHANGED <<layers, req, passed, global, stacks, up, closed>>

\* poll_ready of the meta router asks every router, and that every stack.
PollStack(s) ==
    /\ gcur # NoReq
    /\ s \notin reserved /\ s \notin closed /\ StackUsed(s) < StackCap
    /\ reserved' = reserved \cup {s}
    /\ UNCHANGED <<layers, req, passed, global, stacks, up, closed>>

\* Every stack was Ready in this poll.  A Buffer that has failed is not: its
\* error becomes Pending in ErrorHandler::poll_ready.
MetaReady == reserved = Stacks /\ closed = {}

\* Mutation of MetaCall: the permit is not used up.
MetaCallKeeps ==
    /\ gcur # NoReq /\ At(gcur, {"gbuf"}) /\ MetaReady
    /\ \/ \E s \in Stacks : Goes(gcur, "scache", s) /\ UNCHANGED <<passed, reserved>>
       \/ Goes(gcur, "dlimit", "direct") /\ UNCHANGED <<passed, reserved>>
       \/ \E p \in {"unified", "provider"} :
             Goes(gcur, p, "proxy") /\ UNCHANGED <<passed, reserved>>
       \/ Answer(gcur) /\ UNCHANGED reserved
    /\ gcur' = NoReq
    /\ UNCHANGED <<layers, gq, stacks, up, closed>>

\* MetaRouter::call and Router::call: to a stack, whose permit goes with the
\* request; to the router's direct proxy; to the unified API; to a provider's
\* proxy; or the path, the router, its endpoint type or the provider is not found.  The response future runs on in the
\* client's task.
MetaCall ==
    /\ gcur # NoReq /\ At(gcur, {"gbuf"}) /\ MetaReady
    /\ \/ \E s \in Stacks : /\ Goes(gcur, "scache", s) /\ UNCHANGED passed
                             /\ reserved' = reserved \ {s}
       \/ Goes(gcur, "dlimit", "direct") /\ UNCHANGED <<passed, reserved>>
       \/ \E p \in {"unified", "provider"} :
             Goes(gcur, p, "proxy") /\ UNCHANGED <<passed, reserved>>
       \/ Answer(gcur) /\ UNCHANGED reserved
    /\ gcur' = NoReq
    /\ UNCHANGED <<layers, gq, stacks, up, closed>>

-----------------------------------------------------------------------------
\* A stack: cache, rate limit, Buffer, balancer.

StackMiss(r) ==
    /\ At(r, {"scache"})
    /\ Move(r, "slimit")
    /\ UNCHANGED <<layers, passed, global, reserved, stacks, up, closed>>

\* Buffer::call fails when the Buffer has been closed meanwhile.
StackSend(r) ==
    /\ At(r, {"slimit"})
    /\ "routerLimit" \in layers => "auth" \in passed[r]
    /\ LET s == req[r].to IN
         IF s \in closed THEN Answer(r) /\ UNCHANGED bq
         ELSE /\ LimitPasses(r, "routerLimit")
              /\ Move(r, "sbuf")
              /\ bq' = [bq EXCEPT ![s] = Append(@, r)]
    /\ UNCHANGED <<layers, global, reserved, cur, up, closed>>

TakeStack(s) ==
    /\ cur[s] = NoReq /\ bq[s] # <<>>
    /\ cur' = [cur EXCEPT ![s] = Head(bq[s])]
    /\ bq' = [bq EXCEPT ![s] = Tail(@)]
    /\ UNCHANGED <<layers, req, passed, global, reserved, up, closed>>

\* Mutation of DropStack: noticed only when another message comes.
DropStackLate(s) ==
    /\ cur[s] # NoReq /\ At(cur[s], {"gone"}) /\ bq[s] # <<>>
    /\ Answer(cur[s])
    /\ cur' = [cur EXCEPT ![s] = NoReq]
    /\ UNCHANGED <<layers, global, reserved, bq, up, closed>>

DropStack(s) ==
    /\ cur[s] # NoReq /\ At(cur[s], {"gone"})
    /\ Answer(cur[s])
    /\ cur' = [cur EXCEPT ![s] = NoReq]
    /\ UNCHANGED <<layers, global, reserved, bq, up, closed>>

\* The balancer is ready and takes the message.
CallBalancer(s) ==
    /\ cur[s] # NoReq /\ At(cur[s], {"sbuf"}) /\ s \in up
    /\ Move(cur[s], "provider")
    /\ cur' = [cur EXCEPT ![s] = NoReq]
    /\ UNCHANGED <<layers, passed, global, reserved, bq, up, closed>>

\* Mutation of BalancerFails: the queued messages are left where they are.
BalancerFailsSilent(s) ==
    /\ cur[s] # NoReq /\ s \notin closed
    /\ closed' = closed \cup {s}
    /\ req' = [req EXCEPT ![cur[s]] = Idle]
    /\ passed' = [passed EXCEPT ![cur[s]] = {}]
    /\ cur' = [cur EXCEPT ![s] = NoReq]
    /\ bq' = [bq EXCEPT ![s] = <<>>]
    /\ UNCHANGED <<layers, global, reserved, up>>

\* poll_ready of the balancer fails (WeightedBalance!ChooseFails): the worker
\* answers the message it holds and those queued with the error, and ends.
BalancerFails(s) ==
    /\ cur[s] # NoReq /\ s \notin closed
    /\ closed' = closed \cup {s}
    /\ LET failed == {cur[s]} \cup {bq[s][i] : i \in DOMAIN bq[s]} IN
         /\ req' = [r \in Reqs |-> IF r \in failed THEN Idle ELSE req[r]]
         /\ passed' = [r \in Reqs |-> IF r \in failed THEN {} ELSE passed[r]]
    /\ cur' = [cur EXCEPT ![s] = NoReq]
    /\ bq' = [bq EXCEPT ![s] = <<>>]
    /\ UNCHANGED <<layers, global, reserved, up>>

\* The monitors empty and refill the balancer's pool.
Up(s) ==
    /\ s \notin up
    /\ up' = up \cup {s}
    /\ UNCHANGED <<layers, req, passed, global, reserved, stacks, closed>>

Down(s) ==
    /\ s \in up
    /\ up' = up \ {s}
    /\ UNCHANGED <<layers, req, passed, global, reserved, stacks, closed>>

-----------------------------------------------------------------------------
\* A router's direct proxy: rate limit, cache, dispatcher.

DirectLimit(r) ==
    /\ At(r, {"dlimit"})
    /\ LimitPasses(r, "routerLimit")
    /\ Move(r, "dcache")
    /\ UNCHANGED <<layers, global, reserved, stacks, up, closed>>

DirectMiss(r) ==
    /\ At(r, {"dcache"})
    /\ Move(r, "provider")
    /\ UNCHANGED <<layers, passed, global, reserved, stacks, up, closed>>

\* The unified API has read the body and taken the provider from its model; the
\* body, the endpoint, the model or the provider may be refused.
UnifiedApi(r) ==
    /\ At(r, {"unified"})
    /\ \/ Goes(r, "provider", "proxy") /\ UNCHANGED passed
       \/ Answer(r)
    /\ UNCHANGED <<layers, global, reserved, stacks, up, closed>>

\* The dispatcher answers: a response, an error or its timeout.
ProviderAnswers(r) ==
    /\ At(r, {"provider"})
    /\ Answer(r)
    /\ UNCHANGED <<layers, global, reserved, stacks, up, closed>>

\* The client leaves.  A message in a Buffer stays there.
Leave(r) ==
    /\ req[r] # Idle /\ ~At(r, {"gone"})
    /\ IF At(r, {"gbuf", "sbuf"}) THEN Goes(r, "gone", Anywhere) /\ UNCHANGED passed
                                  ELSE Answer(r)
    /\ UNCHANGED <<layers, global, reserved, stacks, up, closed>>

-----------------------------------------------------------------------------
\* What the task of a request's client does
Advance(r) ==
    \/ Authorize(r) \/ AuthorizeFails(r) \/ GlobalLimit(r) \/ Reject(r)
    \/ CacheAnswers(r) \/ GlobalMiss(r) \/ StackMiss(r) \/ StackSend(r)
    \/ DirectLimit(r) \/ DirectMiss(r) \/ UnifiedApi(r) \/ ProviderAnswers(r)

GlobalWorker == TakeGlobal \/ DropGlobal \/ MetaCall \/ \E s \in Stacks : PollStack(s)
StackWorker(s) == TakeStack(s) \/ DropStack(s) \/ CallBalancer(s)

Next ==
    \/ GlobalWorker
    \/ \E s \in Stacks : StackWorker(s) \/ BalancerFails(s) \/ Up(s) \/ Down(s)
    \/ \E r \in Reqs : Enter(r) \/ Advance(r) \/ Leave(r) \/ Arrive(r)

Spec == Init /\ [][Next]_vars

\* Tasks that were woken are polled; permits are given in the order they were
\* asked for; the dispatcher's client has a timeout.
Fairness ==
    /\ WF_vars(GlobalWorker)
    /\ \A s \in Stacks : WF_vars(StackWorker(s))
    /\ \A r \in Reqs : WF_vars(Advance(r)) /\ SF_vars(Enter(r))

FairSpec == Spec /\ Fairness

-----------------------------------------------------------------------------
\* Properties.

Queued == UNION {{s} \X DOMAIN bq[s] : s \in Stacks}
Copies(r) ==
    Cardinality({i \in DOMAIN gq : gq[i] = r}) + (IF gcur = r THEN 1 ELSE 0)
    + Cardinality({x \in Queued : bq[x[1]][x[2]] = r})
    + Cardinality({s \in Stacks : cur[s] = r})

\* However requests are queued, cancelled, failed and answered, a message is in
\* exactly one Buffer, once, while its request waits in one, and in none when
\* the request is elsewhere: no request is answered twice, none is forgotten.
MessagesConserved ==
    \A r \in Reqs : Copies(r) = (IF At(r, {"gbuf", "sbuf", "gone"}) THEN 1 ELSE 0)

\* What every request to a provider must have passed on its way
Required(r) == layers \ (IF req[r].to = "proxy" THEN {"routerLimit"} ELSE {})

\* Behind two Buffers, on four paths with different orders of layers, no request
\* reaches a provider unless it was authenticated and charged to the limiters of
\* its path; a configuration with limits and without authentication serves none.
ChargedBeforeProvider ==
    \A r \in Reqs : At(r, {"provider"}) => Required(r) \subseteq passed[r]

\* What makes it inductive: what has been passed by the time a request is at an
\* earlier place.  The caches and the two limiters come in different orders.
LayersPassed ==
    \A r \in Reqs :
        /\ At(r, {"limit"}) => layers \cap {"auth"} \subseteq passed[r]
        /\ At(r, {"cache", "gbuf", "scache", "slimit", "dlimit", "unified"})
              => layers \ {"routerLimit"} \subseteq passed[r]
        /\ At(r, {"sbuf", "dcache"}) => layers \subseteq passed[r]

PathInv == PathTypes /\ LayersPassed /\ ChargedBeforeProvider

HasRoom(s) == StackUsed(s) < StackCap \/ s \in reserved
BeforeRouting == {"wait", "auth", "limit", "cache", "gbuf"}

\* A router whose providers are all gone keeps its own requests waiting and
\* harms no other, as long as its Buffer does not stay full: every request gets
\* past the meta router.
RequestsRouted ==
    ([](closed = {}) /\ \A s \in Stacks : []<>HasRoom(s))
        => \A r \in Reqs : At(r, BeforeRouting) ~> ~At(r, BeforeRouting)

\* Once the providers are back, every request is answered, those that waited
\* for them and those that waited behind these.
RequestsAnswered ==
    ([](closed = {}) /\ \A s \in Stacks : <>[](s \in up))
        => \A r \in Reqs : (req[r] # Idle) ~> (req[r] = Idle)

\* "handles errors by converting them into Responses": with providers that are
\* ready, a request is answered, if need be with the error of a balancer.
ErrorsBecomeResponses ==
    (\A s \in Stacks : <>[](s \in up)) => \A r \in Reqs : (req[r] # Idle) ~> (req[r] = Idle)
=============================================================================
