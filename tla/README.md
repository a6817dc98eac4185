# A TLA+ model of the AI gateway

TLA+ modules, TLC runs and TLAPS proofs for the Helicone AI gateway (the
`ai-gateway` crate and the `weighted-balance` crate it balances with).
`PROJECT.json` maps every definition to the lines it models, lists the runs, the
mutations that show that each property depends on the code, the hazards and the
theorems.  Paths below are relative to `src/ai-gateway/src/` unless they begin
with `src/`.

To check a run: `tlc -config MCProviderPool.cfg MCProviderPool`; to check the
proofs: `tlapm ProviderPoolProofs.tla`, and the same for the other `*Proofs` modules.

## The system

A request enters through hyper, is authenticated, charged to the global rate limiter,
looked up in the global cache and queued in the global Buffer; the meta router gives
it to a router (or to the unified API or a direct proxy), where it passes the router's
cache and rate limiter and waits in a Buffer of its own for the load balancer; its
body is mapped to the format of the provider the balancer chose, and that provider's
dispatcher sends it.  Background tasks watch
the providers and the control plane.

| component | state | operations | hard part |
|---|---|---|---|
| provider pool (`balancer/provider.rs`, `discover/`) | services of the balancer, the bounded change channel | `poll_ready`, `call`, `poll_next` | only reads changes while a request waits; two writers |
| health monitor (`discover/monitor/health/`) | `unhealthy_keys` | one round per interval over every router | verdict and send are apart; send blocks on a full channel |
| rate limit monitor (`discover/monitor/rate_limit/`) | `rate_limited_providers`, `pending_restores` | event, restore | duplicates, timers, blocked sends |
| dispatcher (`dispatcher/service.rs`) | none of its own; moves the metrics and the event channel | `dispatch` | streams end after `dispatch` has returned; error paths leave early |
| endpoint metrics (`metrics/rolling_counter.rs`, `discover/monitor/metrics.rs`) | atomics per bucket | `incr`, `total` | lock-free, laps |
| Redis rate limiter (`middleware/rate_limit/redis_service.rs`) | one TAT per API key in Redis | `make_request` | GET and SETEX apart, key expiry, integer arithmetic |
| weighted balancer (`src/crates/weighted-balance/`) | ready and pending services, `ready_index` | `poll_ready`, `call` | an index into an order that removals disturb |
| response cache (`middleware/cache/`, `cache.rs`) | buckets of stored responses | look up, decide, store | parallel look-ups, unlocked stores, clocks |
| service stack, routers (`app.rs`, `router/`, `utils/`, `middleware/auth.rs`) | two levels of Buffers, permits | `poll_ready`, `call`, path to destination | a service is called only when ready; readiness of one router depends on all; clients leave at any time |
| control plane client (`control_plane/`) | keys and configuration, the websocket | connect, receive, reconnect | lost messages, stale messages, panics |
| supervision (`main.rs`, `utils/meltdown.rs`) | the set of running services, the token | start, stop, shut down | one stop stops all |
| streams and request logging (`dispatcher/client.rs`, `types/body.rs`, `logger/`, `metrics/tfft.rs`) | the pump's channel, a tee of every body, the first-frame signal | read, reconnect, pull, collect, store, post | four tasks that end at different times; a request that is sent again |
| format mappers (`middleware/mapper/`) | none | convert requests, bodies, chunks, errors | provider formats differ in what they can say; some events give no chunk |
| model names and mapping (`types/model_id.rs`, `middleware/mapper/model.rs`) | none | parse, print, map | versions, dates and vendors are told apart by what parses |
| configuration (`config/`) | read once | validate | what it accepts is looked up by other code in another order |
| registries and startup (`app_state.rs`, `balancer/provider.rs`, `router/service.rs`) | monitors, senders, receivers, keys by router | register, take, look up | keyed by router while balancers are per endpoint type |
| in-memory rate limiter, telemetry | | | see "Not modelled" |

What makes each correct: the pool loses no provider and offers none that a monitor holds
out of service; the monitors' private books agree with their timers; a limiter admits no
more than its quota and a `Retry-After` is long enough; the balancer's index is that of a
ready service; the cache serves a response past its lifetime only as far as the request's
`max-stale` allows; the counter counts what happened in its window; no request is lost,
doubled or served uncharged on its way, and none waits for ever; the client gets a prefix
of one answer and the log the same; a conversation, a pinned model and a limit survive
their conversion, and a validated configuration finds a model for every request; each
router has one balancer its monitors feed, and they end no running gateway; the
configuration follows the control plane and never goes back; a service that ends ends the
process.

How they interact: the monitors and the balancer share a bounded channel of changes
per router; dispatchers feed the monitors through shared atomics (endpoint metrics)
and an event channel; requests and workers meet in tower Buffers; limiters and caches
share Redis or process memory between requests; the control plane client writes, and
authentication reads, one configuration behind a lock; all services share one
shutdown token.

## Modules

| module | models | runs |
|---|---|---|
| `ProviderPool` | one router's balancer, Buffer, both monitors, `dispatch` | `pool` |
| `ProviderPoolProofs` | theorems about `ProviderPool` and `RollingCounter` | tlapm |
| `RollingCounter` | `incr` and `total`, one step per atomic operation | `counter` |
| `RedisRateLimit` | `make_request` of the Redis limiter, for one API key | `redis`, `redis_idle_panic` |
| `RedisRateLimitProofs` | theorems about `RedisRateLimit` | tlapm |
| `WeightedBalance` | `WeightedBalance` over tower's `ReadyCache` | `weighted` |
| `WeightedBalanceProofs` | theorems about `WeightedBalance` | tlapm |
| `ResponseCache` | the cache service for one cache key | `cache` |
| `ResponseCacheProofs` | theorems about `ResponseCache` | tlapm |
| `RequestPath` | the service stack from the connection to the dispatcher: layers, Buffers, meta router, routers, direct proxies | `path`, `path_failed_router` |
| `RequestPathProofs` | theorems about `RequestPath` | tlapm |
| `Supervision` | `run_app`, its services and their token; the control plane client | `supervision` |
| `SupervisionProofs` | theorems about `Supervision` | tlapm |
| `ChunkMapping` | the converters of response bodies, chunks and errors, as operators | `stream` |
| `ResponseStream` | one answer: event source, pump, client's body, tee, log task | `stream` |
| `Relay` | abstract: what the gateway promises of an answer it relays; `ResponseStream` implements it | `stream` |
| `ModelNames` | parsing and printing of model names, as operators | `mapping` |
| `RequestMapping` | validation of the mappings, choice of provider and model, conversion of requests | `mapping` |
| `MapperProofs` | theorems about `ResponseStream` (the refinement of `Relay` among them), `ChunkMapping`, `ModelNames` and `RequestMapping` | tlapm |
| `Routers` | startup of all routers, the registries, the health round and the rate limit tasks of all of them | `routers` |
| `RoutersProofs` | theorems about `Routers` | tlapm |

`MC*` modules give the constants and the symmetry of TLC's instances; each `.cfg` is
one run.  `RollingCounter` and `RequestMapping` name their specifications
`CounterSpec` and `MappingSpec`, since a module of proofs extends them together with
another component.

### ProviderPool

State: `reqs`/`errs` are the endpoint metrics as the health monitor reads them,
`unhealthy`, `hmTodo` and `hmSend` the health monitor's keys, the rest of its round
and the change it is blocked on; `rlq` the rate limit event channel; `limited`,
`timer`, `rlSend` the rate limit monitor; `chan` the change channel; `initial` and
`pool` the discovery's initial inserts and the balancer's services; `bufq` and
`worker` tower's Buffer; `req` where each request is in `dispatch`.

Every `.await` that can block is a step boundary: the health monitor decides
(`CheckProvider`) and sends (`HealthSend`) in two steps, and records a removed key
only after the send, as the code does (`health/provider.rs:112-120`); the rate limit
monitor starts the restore timer only after its Remove is in the channel.  The
balancer polls discovery only while the Buffer's worker holds a request (`Discover`),
so an idle router lets the channel fill.  With an empty pool the worker stays parked
until a change wakes it.  A request that ends without counting anything is
`RespondUncounted`; an error on a stream that was already handed to the client counts
against the endpoint after `dispatch` has returned, which `ForeignError` covers
together with other routers' traffic.

### RollingCounter

One variable per atomic array (`counters`, `laps`) and the locals of each call.  Time
is counted in bucket durations; `Instant::now()` is read once per call, so a task may
act on a lap that is over.

### RedisRateLimit

Integer arithmetic as in the code: `interval_per_token_ms` is an integer quotient,
`DivTrunc` rounds towards zero, TTL is in whole seconds plus one.  A request is GET,
then SETEX (or a rejection); others run in between.

### WeightedBalance

`ready` is the `IndexMap` order of tower's `ReadyCache` with its `swap_remove`;
`pending` its pending set.  One `poll_ready` is a sequence of steps and the discovery
stream may grow between them.  The random draw is a choice of any service of positive
weight (any service when it is alone, as in `ready_index`).

### ResponseCache

All requests share one cache key (`get_hasher` hashes the seed, the path with its query
and the body; method and headers are left out).  Buckets are looked up concurrently; a
mismatch of the method or of Vary headers, which the policy compares, is a
nondeterministic `CheckMiss`.  With Moka a missing entry is a miss, with Redis it
is an error (`cache.rs` fails on a missing key), which the service only logs.

A request has a Cache-Control directive, its own or else the configured one, which
`make_request` puts on it (`service.rs:455-463`) and `policy.before_request` obeys
(`Fresh`): `no-cache`, `max-age`, `min-fresh` and `max-stale` of the request that is
served, against the lifetime of the entry and whether it must be revalidated.  Those come
from the provider's headers with the directive of the request that STORED the entry
appended (`CacheableResponse::new`; `PolicyOf`, `Lifetime`): the provider's `max-age`
comes first, and one that differs makes the entry strict; `no-cache` leaves it no lifetime.
`before_request` is the http-cache-semantics crate's and is modelled from its rules.  With
the documented example, `max-age=3600, max-stale=1800` on every request, the request's own
`max-age` bounds the age of a hit, so that `max-stale` has next to no effect; it has where
a request brings a `max-stale` without a `max-age`.

### RequestPath

`req` says where each request is and which stack it is for; `gq`/`gcur` and `bq`/`cur`
are the channels of the Buffers and the messages their workers hold.  A permit of a
Buffer is taken by `poll_ready` and given back when the worker takes the message, so
it is counted (`GlobalUsed`, `StackUsed`) for queued messages, for requests still in
the layers in front, and for a stack also while the meta router keeps it
(`reserved`): `MetaRouter::poll_ready` reserves a place in every stack before it looks
at the request.  `ErrorHandler::poll_ready` turns the error of a closed Buffer into
`Pending` (`MetaReady`).  Caches are always there and may always miss, which is what a
disabled one does; limiters and authentication are there when `layers` says so.
Response futures run in the client's task and vanish when the client leaves; a message
in a Buffer stays until the worker comes to it.  `up` and `closed` are the balancers'
readiness (module `ProviderPool`) and failure (`WeightedBalance!ChooseFails`).

### Supervision

`conn` and `wire` are the websocket and the messages on it, `held` the control plane's
configuration as versions of its two parts that the gateway reads, `config` the
gateway's.  A change made while the client is not connected is `missed` until its part
is sent again.  `Ends` is a service that ends by itself, with or without triggering
the token (`SelfStop`), `Stops` one that obeys the token, `Reap` the body of run_app's
loop.  The client task is polled by run_app itself: the `todo!()` on an Ack takes the
process down (`panicked`).

### ChunkMapping, ResponseStream, Relay

An answer is a sequence of parts (events of a stream, blocks of a body) of one of the
families Anthropic, Bedrock and OpenAI (Gemini and Ollama speak OpenAI's format).  Texts
are sequences of letters, so that order and completeness of what the client finds in a
choice can be compared with what the provider said in a block.  `Convert` is
`convert_resp_body`: a chunk, nothing, or a failure.  `StreamConstants` says of the answers
of the instance that they are well formed (`Spoken`): texts are of `Tokens`, and
Anthropic's MessageStart comes before any content.

`ResponseStream` keeps the four parties apart.  `conn`, `rest` and `posts` are the event
source, which on a transport error sends the request again; `pump` and `chan` the task
of `sse_stream` and its unbounded channel; `body` and `given` the client's side, pulled
by hyper (`PullFrame`: one frame is taken, copied to `tee`, converted and given);
`log` the log task, from collecting (`CollectFrame`, `CollectEnds`) over the signed URL,
S3 and the headers to the record.  A first event that is an error makes dispatch fail,
later errors are put in the channel; `errors` counts what they do to the endpoint's
metrics.  A request that is not streamed is collected by the mapper (`Collect`,
`Collected`).

The refinement mapping (`Relayer`) gives `Relay` the frames heard of the first answer
(`heard`, a history: what a request that was sent again brings is not in it) as its
`answer`, the number of frames taken for the client as `taken`, and the log's stored body as
`record`.

### ModelNames, RequestMapping

A name is cut at the dots, dashes and colons where the code cuts it; a numeric segment
keeps its value and its width, because "4" and "04" are one month and two texts.  The
three formats of a date that `parse_date` tries, `parse_model_and_version` with its
suffixes of three, two and one segments and the ids of Bedrock and Ollama are
operators.  `RequestMapping` validates a configuration as
`validate_model_mappings` does, lets the balancer or the unified API pick a provider,
maps the model (any order of the alternatives: they come from a set) and converts the
request.  A message is its role and the kinds and texts of its parts; parts a converter
drops are dropped.

What the properties take for granted, as the API's types and the embedded configuration
have it, and TLC evaluates on the instance: `NamesConstants` (a word that begins with v is
no version), `MappingConstants` with `IsMessage` (offered names are names; the kinds of
parts a role may have: a tool answers in text, an assistant's message without content has
no parts). `Clean` is a premise, not an assumption: an offered name parses, Bedrock's are
written as they are printed, the others' hold no version, and Anthropic's no colon.  Three
more premises mark what the code does not keep: Ollama's ids have no version, so that a
source in a version is another model there (`PlainIsRouted`); a Bedrock name is meant that
ends in its "-v" part (`ContextIsSent`); a month and a day behind a number are read as a
date (`PinnedModelKept`).  Of the answer of a function, an old kind of message, the
converters keep the name and drop the text, so `ConversationKept` leaves it out.

### Routers

`stage` is where `App::new` is, then "running".  The registries of `AppState`
(`keyed`, `senders`, `receivers`, `healthMonitors`, `rateMonitors`) are functions from
routers; a balancer, and its channels, are a pair of router and endpoint type.
`Register` overwrites, as `HashMap::insert` does.  `RateTick` drains the monitors and
takes each one's receiver; `HealthTick`, `Check`, `Send` and `RoundOver` are the round
that `try_join_all` joins.  A change is only counted in its channel.  `Served` are the
endpoint types that an endpoint of the gateway has: only `Chat` today, so that the
balancers of other types never get a request and never read their channel.

## Runs

| run | expectation | what it shows |
|---|---|---|
| `pool` | pass | whatever the two monitors, the full channel and the idle balancer do, a provider out of the pool has somebody who will bring it back (`NoLostProvider`), and a provider is held limited exactly while one restore is under way (`OneRestorePerLimit`); once providers behave, the pool fills for good (`PoolRecovers`) and no request stays parked (`RequestsServed`) |
| `path` | pass | no Buffer gives out more permits than it has places (`WithinCapacity`); no message is lost or doubled in the Buffers, whoever leaves or fails (`MessagesConserved`); no request reaches a provider uncharged on any path (`ChargedBeforeProvider`); a router without providers delays others only while its Buffer is full (`RequestsRouted`); with providers back all are answered (`RequestsAnswered`) |
| `supervision` | pass | the configuration follows the control plane up to lost messages (`CurrentUnlessMissed`), never goes back (`ConfigNeverGoesBack`), is read again after any number of lost connections (`ClientReadsAgain`); one end of a service ends the process (`ShutdownCompletes`) |
| `counter` | pass | the counter is exact in its first lap under any interleaving; later it never holds counts of an earlier lap outside a reset; a concurrent total lies between the counts at its two ends |
| `redis` | pass | quota, with exactly the slack that lost updates give away; key expiry forgets no quota; `Retry-After` suffices |
| `weighted` | pass | the held index is always that of a ready service; the cache tracks the discovered services; weight zero is a last resort |
| `cache` | pass | a bucket that stays fresh for a request, by the request's directive, is never bypassed, however look-ups, stores and evictions interleave (`FreshBucketServes`); what `max-age`, `min-fresh` and `max-stale` of a request promise holds of the age of a hit since the provider produced it, although the policy counts from the start of the request that stored it (`HitsAsAsked`) |
| `stream` | pass | `ResponseStream` implements `Relay` (`RelayHolds`): one answer, a prefix, complete only when it is, stored as taken; a stream error counts once (`ErrorsCountedOnce`); every text reaches its choice in order (`TextIntact`); the first-frame signal matches the frames (`TimedIffHeard`) and the log task always ends its collection (`LogCollectsAll`) |
| `mapping` | pass | a validated router maps every plain name to a model its target offers (`PlainIsRouted`); what the gateway remembers is what it sent (`ContextIsSent`); a pinned version survives parsing and printing (`PinnedModelKept`), the texts of a conversation their conversion (`ConversationKept`), streaming and limits theirs, but for `max_tokens` alone to Bedrock (`AnswerAsAsked`) |
| `routers` | pass | each running router has exactly one balancer that both monitors feed and hear (`OneBalancerFed`); the monitors end no running gateway (`StaysUp`) and every health round ends (`RoundsEnd`), under the conditions their comments name |
| `redis_idle_panic` | violation | a request after a few idle intervals is charged and then panics |
| `path_failed_router` | violation | after one balancer has failed no request gets past the meta router again |

Seen while modelling and covered by no run of their own:

- The monitors do not know of each other.  The restore of the rate limit monitor
  (`discover/monitor/rate_limit/provider.rs:345`) puts a provider back that the health
  monitor still holds in `unhealthy_keys`, and the health monitor sends no second Remove;
  an Insert of the health monitor puts one back that is still rate limited.
- A 429 to a streaming request leaves `dispatch` as a stream error
  (`dispatcher/service.rs:303`), before the branch that would tell the rate limit monitor.
- Two increments at the start of a lap: the winner of the compare-exchange stores 0 after
  the loser has added, and an increment is lost (`metrics/rolling_counter.rs:59`); the
  test at line 111 asserts a total that holds only while no lap begins.
- Arguments of a streamed Anthropic tool call are sent in the choice numbered like the
  content block, its id in choice 0 (`middleware/mapper/anthropic.rs:525`, `593`).  Its
  arguments begin with the "{}" of the block's start.  The arguments of a tool call in a
  Bedrock body that is not streamed are lost, and those of a tool result there are the
  text before it: the converter serialises the answer's `content`, not the block's
  (`middleware/mapper/bedrock.rs:388`).
- Of system messages only the first is kept, none for Bedrock; the tool calls of an
  assistant's message are dropped and tool results sent in the assistant's role.
  Bedrock is given the default limit when a client sends only `max_tokens`, and a
  `tool_choice` may name a tool that was dropped for want of a schema.
- A Bedrock name is never found among the models its own provider offers, nor as the key
  of a mapping: `ModelName::from_model` keeps only the model part of the id, the
  configuration the whole of it.  A validated router refuses such a request or sends the
  Bedrock id to another provider.
- "claude-opus-4-1" is read as a model with the date 04-01 (`types/model_id.rs:429`) and
  printed as "claude-opus-04-01".
- Of the balancers of a router with several endpoint types only the one built last, in
  the order of a `HashMap`, is fed.  If it is not the `Chat` balancer, nobody reads its
  change channel: after 16 changes the health round of all routers hangs, and the events
  of the `Chat` balancer's dispatchers go to a channel without a receiver.
- A balancer offers the services of every endpoint type of its router, although "a
  separate load balancer is used for each endpoint type" (`config/balance.rs:11`).  In a
  weighted router a 429 from a provider of another type has no weight to look up and ends
  the gateway (`discover/monitor/rate_limit/provider.rs:257`).
- A router that mixes weighted and latency balancing does not start.
- A restore sent to a balancer that has failed ends the gateway
  (`discover/monitor/rate_limit/provider.rs:345-350`).
- `Duration::from_secs(retry_after) + 30 s` overflows, and panics, for a Retry-After near
  `u64::MAX`.  A cache store that fails turns a good answer into an error.
- With only services of weight zero ready, `sample_weighted` fails
  (`src/crates/weighted-balance/src/balance/mod.rs:208`) and so do `poll_ready` and the
  Buffer: this is how a balancer comes to fail in `path_failed_router`.
- A total that runs between the compare-exchange and the store counts an expired bucket.
- A capacity above the refill time in milliseconds makes the Redis interval zero, and the
  "default fill frequency" of the warning is never used (`HeadersPanic`).
- A balancer polled again after it was ready may find another service at its index,
  although the comment at `src/crates/weighted-balance/src/balance/mod.rs:243` says
  otherwise.
- Zero buckets requested by a header make the cache service panic (`DecidePanics`).
- In a router's stacks the cache lies outside the rate limiter, so hits are not charged;
  the comment at `app.rs:87-97` and the direct proxy have it the other way round.
- With authentication disabled and a limiter configured every request fails, for want of
  an AuthContext to take the key from.
- `GET /health` is answered inside the stack, after `poll_ready`: a full global Buffer
  stops it too.  A full Buffer of one stack stops the meta router, hence everything.
- An Ack from the control plane reaches `todo!()` (`control_plane/control_plane_state.rs:40`)
  and ends the process (`Receive`).  The test at `control_plane/websocket.rs:267` waits for
  the ack of its heartbeat and expects the client to close successfully, but passes
  unchecked when no server answers; the gateway itself sends no heartbeats.
- Nothing asks for the control plane's configuration after a reconnection.  The first
  connection is awaited without limit before the gateway listens.
- `app.rs:348` asks the server to shut down gracefully and drops it in the same breath;
  requests under way are cut off when `run_app` returns.

### Bounds

Channels of capacity 1 or 2 (16 in the code) fill up in a few steps, which is the case of
interest.  `pool` has one provider and two requests, which exhausts liveness under
fairness; its safety invariants are proved for any number of providers; counts of at most
`MaxCount` per lap decide both verdicts when `MinRequests` is 1.  Two buckets over three
laps reuse every bucket twice.  Two interleaved requests are enough for a lost update; the
quota is 2 per 5 ms with seconds of 3 ms, so that neither the interval nor the TTL is a
whole number of anything, and the clock runs for two TTLs.  `MaxDelay` bounds the time
from a request's start to its decision: a request that is slower than the slack of the TTL
is decided against an expired key with its old start time, and the quota over start times
says nothing about it.  Two requests and two buckets are enough for every order of
look-ups and stores.  A clock of one step and three directives let each limit
decide: a response of no lifetime is stale at once and served under `max-stale=1` unless
it must be revalidated; one that lives 2 is too old for `max-age=0` at age 1 and has
`min-fresh=2` at age 0 only.  Three
requests over one stack with Buffers of one place fill both Buffers and leave one request
outside; `path_failed_router` has two stacks, so that the failure of one is seen by
requests for the other.  In `supervision` three services cover those that trigger the
token and those that do not; two versions of each part and two messages on the wire
reorder, lose and overtake, and a history of one entry overflows. `stream` sends a request
at most twice, enough for a second answer behind the first, with eleven answers of two to
five parts that exercise every case of the converters. `mapping` takes three models with
every ending of up to two segments and some of three, conversations of up to two messages
of seven kinds, limits around a 32-bit bound of 7, and ten configurations of which the
validation refuses three.  `routers` has two routers and ten configurations, of which six
do not start; channels of three places. `CHECK_DEADLOCK FALSE` is given only where the
bounded clock stops the model, where the balancer has failed for good, where an answer is
over, or where the process has ended or did not start.

The properties listed are what the runs check.  `RollingCounter`, `RedisRateLimit`,
`WeightedBalance`, `ResponseCache`, `RequestPath`, `ResponseStream` and `Supervision` also
define a type invariant (`CounterTypeOK`, `TypeOK`) which no run lists; it follows from
the inductive invariants that are proved.

### Fairness

`pool` assumes weak fairness of the monitor tasks, of the Buffer's worker and
of the clock: tokio keeps polling tasks that were woken, and a channel wakes its
sender and receiver.  Nothing is assumed of clients, of providers' answers or of
foreign traffic; that providers behave from some time on is the hypothesis `Calm` of
the properties.

`path` assumes weak fairness of the Buffers' workers and of the clients' tasks (the
dispatcher's HTTP client has a timeout, so that a provider's answer or an error comes),
and strong fairness of entering: a Buffer's permits come from a tokio semaphore, which
serves its waiters in order, so one that is free again and again is given to everyone
who waits.  That providers come back is a hypothesis of `RequestsAnswered`.

`supervision` assumes weak fairness of the client, of run_app and of services that saw
the token; that the control plane can be reached is part of it, since the backoff has no
limit.  That connections stop dying is a hypothesis of `ClientReadsAgain`.

`stream` assumes only that the log task's collection is polled; the source, the pump and
the client may stop at any point.

`routers` assumes weak fairness of the health monitor's task, strong fairness of its
sends (a tokio channel gives its places to waiting senders in turn) and, as a hypothesis
about clients, that every router keeps getting requests: without them a channel that is
full stays full, and the round of all routers with it.

## Proofs

`ProviderPoolProofs` proves, for any finite set of providers, any clients, channel
capacities, thresholds and waits (`PoolConstants`), that every behaviour of
`ProviderPool` satisfies `TypeOK`, `NoLostProvider` and `OneRestorePerLimit`.

Neither safety invariant is inductive.  Its strengthening `PoolInv` adds

- `WorkerHasRequest`: the Buffer's worker polls only for a request it holds (so the
  queue is not empty when it picks);
- `SendsMatchTimers`: a provider whose Insert the rate limit monitor is sending has no
  timer left, and one whose Remove it is sending is not limited yet.

`NoLostProvider` needs `OneRestorePerLimit`: when the restore is sent, the provider
leaves `limited` and its Insert enters the channel in the same step.  The argument is
about the last change for a provider in the channel (`Absent`): appending a change for
`p` decides `Absent(p)` and leaves `Absent` of the others alone; consuming the head
leaves `Absent` unchanged for all.  These facts are lemmas; the proof then has one step
per action.  The temporal steps are left to LS4 (PTL).

`RequestPathProofs` proves three things for any finite set of requests, any stacks,
Buffer sizes and sets of layers (`PathConstants`).

- No request reaches a provider without having passed what is configured on its path
  (`NoUnchargedRequest`).  `ChargedBeforeProvider` is about the last place only; the
  inductive invariant `PathInv` adds `LayersPassed`, which says what has been passed at
  every earlier place, in the different orders of the paths, and `PathTypes`, from which
  a worker's current message is known to be a request.
- No Buffer gives out more permits than it has room for (`PermitsWithinCapacity`).  The
  capacity is inductive with the types: every step but entering and polling only moves a
  permit between the meta router, a request in the layers and a message, and the proof
  compares the sets of holders before and after it (`WhoEnters`, `WhoIsBound`) with the
  library's facts about cardinalities.
- A request has one message while it waits in a Buffer, none otherwise
  (`EveryMessageOnce`).  `MessagesConserved` counts copies, which no step says anything
  about; `MessageInv` says where the message is by the request's place (`Home`), that no
  Buffer has one twice (`Once`), and that a request bound for a stack names one.  The
  lemmas `BufferSend`, `BufferTake`, `BufferFree` and `BufferEmpty` give what the four
  things a Buffer does change, and `OneCopy` counts in the end.

`SupervisionProofs` proves `CurrentUnlessMissed` and the action property
`ConfigNeverGoesBack` for any number of versions, any length of the wire and any services.
Neither is inductive: an old message could still be on the wire.  `SupInv` adds that the
messages bring each part in the order of its changes (`InOrder`), and that the last one
that brings a part brings the version held, unless its loss is noted (`LatestComes`).  A
connection that dies cuts the end off the wire, and what it would have brought is noted.

`ResponseCacheProofs` proves the action property `HitsAsAsked` and `FreshBucketServes` for
any clients, bucket counts, lifetimes and directives, and any clock.  `CacheInv` adds that
a stored response is dated no later than it was produced, because it is dated by the start
of the request that fetched it; that a request under way began in the past; and that the
buckets that have been fresh for a request since it began are still among those it has to
see.

`WeightedBalanceProofs` proves `MembersTracked`, `IndexIsReady` and `ZeroWeightLast` for
any finite set of services and all weights.  `BalanceInv` adds `ChosenByWeight`: an index
chosen since the last call, with no poll in between, is that of a service of positive
weight or of the only one.  The lemmas are about `swap_remove` on the ready order.

`RoutersProofs` proves `OneBalancerFed` and the action property `StaysUp` for any set of
configurations of the shapes the configuration's types allow (`ConfigShapes`).  The
registries are written one by one; `RoutersInv` says that they agree for every router
(`Agree`: before the rate limit monitor's first tick they name the same balancers, after
it its tasks do), that an entry is one of the router's own balancers (`OwnEntries`), that
dispatchers send to their own balancer's channel (`OwnSenders`), and how far the building
has come (`Progress`).  `StaysUp` then goes through the look-ups of the monitors: each
finds its entry, and that all types of a router have one strategy follows from all its
balancers having discovered their services.

`MapperProofs` is about what the mapper does, to an answer and to a request.

- Of `ResponseStream`: `TypeOK`, `ErrorsCountedOnce`, `TimedIffHeard` and the refinement
  `RelayHolds` for all answers of any length and any number of resends.  `StreamInv` says
  where the four parties stand relative to each other (`Lives`), what the log task knows
  (`Logs`), and what the channel holds (`OnItsWay`): the rest of the first answer behind
  what was taken and, if the request was sent again, a failure next, whatever follows it.
  That failure is why nothing of a second answer reaches the client.  The refinement is
  proved step by step: each action of `ResponseStream` is a step of `Relay` or a stutter
  under the mapping.
- `TextIntact` (`StreamTextIntact`): `SpokenInv` says that what a stream has given is even
  with the frames taken, choice by choice (`Even`), and that whatever is still to come is
  well formed.  Per family, a chunk says what its event said, and an event that is dropped
  said nothing (`AnthropicSays`, `BedrockSays`, `OpenAISays`); a step appends one to each
  side.
- Of `ModelNames`, for names of any number of segments, that parsing what was printed
  gives the model and version that were printed (`RoundTrip`).  The parser tries suffixes
  in an order; the lemmas first say that a name is left whole or cut in one of three ways
  (`Outcomes`) and that each cut, printed, is cut there again, although a date may be
  printed in more digits than it was written in and a word is always printed in lower
  case.  Bedrock's names are cut in front of their last "-v" part, and neither a date nor
  a version word contains one.
- Of `RequestMapping`, for all configurations and requests: `PlainIsRouted`,
  `ContextIsSent`, `PinnedModelKept`, `AnswerAsAsked` and `ConversationKept`.
  `MappingInv` says how the request got its provider (`Destined`), that validation has
  accepted the configuration, and that what was sent and remembered is what the mapper
  makes of one of the ids (`Made`, `Unmapped`); the properties are then facts about
  operators. `PlainIsRouted` combines what `can_map_model` checked, for every pair of
  providers, with the round trip; `ContextIsSent` is the round trip through each
  provider's syntax with Anthropic's alias in between; `ConversationKept` says that the
  parts that are dropped said nothing (`Sifted`), of each message and then of the
  conversation.

`ProviderPoolProofs` also proves of `RollingCounter`, for any number of callers and
buckets: `FirstLapExact`, `NoOldCounts` and `FirstLapTotal`.  `CounterInv` adds that no
bucket and no call is ahead of the clock (`NotAhead`), that every call is under way or has
added one and the buckets hold no more than was added (`Accounted`), that what the buckets
of this lap hold which no call is about to reset was added in this lap (`SettledIsNew`),
and the equations of the first lap (`FirstLap`), in which calls under way are counted as a
set and a total's sum is bounded by the buckets it has read and those it has not
(`Reads`).

The sums over buckets and `FlattenSeq` are defined by recursion in the library.  That the
recursion has a solution, and what it computes, is proved from a least counterexample:
`WFMin` with `NatLessThanWellFounded` gives the least element of a set of numbers, which
takes no operator for a parameter and so can be used where the library's induction rules
cannot.

`RedisRateLimitProofs` proves `RetryAfterSuffices`, `ExpiryForgetsNothing` and
`QuotaRespected` for every capacity and refill time, any number of requests under way and
any length of run; the clock, the admissions and the lost updates have no bound in the
argument but the named ones.  `LimiterInv` says that the stored value is the last one
written and outlives the time it stands for.  The quota needs an account: `QuotaInv` says
that the stored value pays for all admissions but the lost ones, that the value a request
has read pays for those it knows of (`Debt`), and that in every window the admissions
beyond the lost ones are paid for by its length and one burst.  `QuotaHolds` assumes
`Punctual`, that requests are decided within what the time to live leaves over the burst;
without it the property is false (see Bounds), and the run's constants satisfy it.
Products of variables are named and hidden in these proofs, so that the prover sees linear
arithmetic only.

Every safety invariant, every action property and the refinement that the passing runs
check is proved.  Only model-checked is liveness (`PoolRecovers`, `RequestsServed`,
`RequestsRouted`, `RequestsAnswered`, `ClientReadsAgain`, `ShutdownCompletes`,
`LogCollectsAll`, `RoundsEnd`): fairness and ENABLED are out of the prover's reach.  The two
runs that expect a violation have a counterexample of TLC for an answer.

## Not modelled

- In `ProviderPool`, a client that disconnects while it is queued in the Buffer (tower
  skips it; `RequestPath` models it).
- `Retry-After` as an HTTP date: the code parses it with a format that needs an offset,
  so it never parses and counts as no header.
- PeakEWMA's choice (tower): any service of the pool.
- The conversions for a client that speaks Anthropic's format (most of
  `middleware/mapper/openai.rs`): the registry has no entry that leads to them.
- Images' and audio's bytes, sampling parameters, usage counts and ids of chunks: copied
  by the converters without a decision.
- The `Age` header of a provider's response, which makes an entry older than the cache
  counts from its date, and `Pragma`, an old `no-cache`.
- Headers, the signing of Bedrock requests, reading the configuration from files and the
  environment, telemetry: pure conversions or I/O.  The in-memory limiter's algorithm is
  the governor crate's.
- A log task without AuthContext: observability is only enabled together with
  authentication.
- `send_message` of the control plane client, which only tests call.
- In `Routers`, errors of the limiter's or the cache's construction at startup: like the
  others they end it.

## Plan

Done: the core (provider pool and monitors, limiter, counter, balancer, cache), the
request's path through all of it, the process around it, the answer's way back with its
log, the mapping of names and requests, and the startup and monitors of all routers;
proofs of the safety of all of them and of the refinement of `Relay`.  Next:

1. An abstract pool (a set of providers in service) refined by `ProviderPool`.
2. The round trip of whole ids for every provider as one statement, from the lemmas that
   `ContextIsSent` rests on.
