--------------------------- MODULE ResponseStream ---------------------------
(***************************************************************************)
(* One answer of a provider on its way through the gateway, and its log.   *)
(*                                                                         *)
(* Four parties share it.  The event source (reqwest_eventsource) reads    *)
(* the provider's answer, and on a transport error sends the request again *)
(* and reads a second answer.  The pump, a task spawned by sse_stream,     *)
(* moves what the source yields into an unbounded channel.  The client's   *)
(* body is pulled by hyper: each frame pulled is copied to a second        *)
(* channel, converted, and sent.  The log task collects the copies and,    *)
(* when the client's body is gone, stores the bodies and posts a record.   *)
(* A request that is not streamed has no pump: the mapper collects the     *)
(* body and converts it at once.                                           *)
(***************************************************************************)
EXTENDS ChunkMapping

CONSTANTS
    Answers,   \* what providers may answer: [family, streamed, parts]
    Tokens,    \* what texts are made of
    MaxPosts   \* bound: how often the source sends the request

\* What the answers hold, and that they are what the comment says.
Parts == UNION {Range(a.parts) : a \in Answers}

\* An event as its provider sends it: a text is a sequence of tokens, and the
\* message that Anthropic starts is still empty.
Spoken(family, e) ==
    /\ (family # "openai" /\ e.t = "ContentBlockDelta" /\ e.delta.k = "text") =>
           e.delta.d \in Seq(Tokens)
    /\ (family = "openai" /\ e.t = "chunk") =>
           /\ e.choices \in Seq(Range(e.choices))
           /\ \A j \in DOMAIN e.choices : e.choices[j].delta.content \in Seq(Tokens)
    /\ (family = "anthropic" /\ e.t = "MessageStart") => e.content = <<>>

ASSUME StreamConstants ==
    /\ MaxPosts \in Nat \ {0}
    /\ \A a \in Answers :
          /\ a.parts \in Seq(Parts)
          /\ a.streamed => \A e \in Range(a.parts) : Spoken(a.family, e)

VARIABLES
    request,  \* [family, streamed, observed, sidecar]: fixed by the request and the configuration
    call,     \* the dispatcher's future: "wait", "answered", "refused" or "gone"
    conn,     \* the connection to the provider: "sending", "open" or "closed"
    posts,    \* how often the request was sent
    rest,     \* what the provider has still to send on this connection
    heard,    \* history: the frames of the provider's first answer, as far as they were read
    pump,     \* the task of sse_stream: "none", "run" or "ended"
    chan,     \* what is on its way to the client's body: the pump's channel
    body,     \* the client's body: "none", "open", "complete", "broken" or "left"
    given,    \* what the client was given
    tee,      \* the copies on their way to the log task
    errors,   \* how often endpoint_metrics counted a stream error for this request
    log,      \* the log task: where it stands
    logged,   \* the copies it has collected
    tfft,     \* the signal of the first frame: "armed", "fired" or "lost"
    stored,   \* the body it put in S3: <<>> or a sequence of one body
    recorded  \* the record was posted

source == <<conn, posts, rest, heard>>
client == <<call, body, given, errors>>
logger == <<log, logged, tfft, stored, recorded>>
vars == <<request, source, pump, chan, client, tee, logger>>

Frame(e) == [of |-> request.family, on |-> posts, e |-> e]
ErrorBody == [of |-> request.family, on |-> posts, e |-> [t |-> "garbage", k |-> "garbage"]]
Failure == [err |-> TRUE]
IsError(x) == "err" \in DOMAIN x

LogSteps == {"none", "collect", "sign", "put", "meta", "post", "timed", "done", "failed"}
Frames == [of : Families, on : 1..MaxPosts,
           e : Parts \cup {[t |-> "garbage", k |-> "garbage"]}]

TypeOK ==
    /\ request \in [family : Families, streamed : BOOLEAN, observed : BOOLEAN, sidecar : BOOLEAN]
    /\ call \in {"wait", "answered", "refused", "gone"}
    /\ conn \in {"sending", "open", "closed"} /\ posts \in 1..MaxPosts
    /\ Range(rest) \subseteq Parts /\ Range(heard) \subseteq Frames
    /\ pump \in {"none", "run", "ended"}
    /\ Range(chan) \subseteq Frames \cup {Failure}
    /\ body \in {"none", "open", "complete", "broken", "left"}
    /\ Range(tee) \subseteq Frames /\ Range(logged) \subseteq Frames
    /\ errors \in 0..MaxPosts /\ log \in LogSteps
    /\ tfft \in {"armed", "fired", "lost"} /\ recorded \in BOOLEAN

Init ==
    /\ request \in {r \in [family : Families, streamed : BOOLEAN,
                           observed : BOOLEAN, sidecar : BOOLEAN] :
                        \E a \in Answers : a.family = r.family /\ a.streamed = r.streamed}
    /\ call = "wait" /\ conn = "sending" /\ posts = 1 /\ rest = <<>> /\ heard = <<>>
    /\ pump = "none" /\ chan = <<>>
    /\ body = "none" /\ given = <<>> /\ errors = 0 /\ tee = <<>>
    /\ log = "none" /\ logged = <<>> /\ tfft = "armed" /\ stored = <<>> /\ recorded = FALSE

-----------------------------------------------------------------------------
\* The event source, as the code uses it: what next() may yield, and what
\* becomes of the connection.

Opens ==
    /\ conn = "sending" /\ conn' = "open"
    /\ rest' \in {a.parts : a \in {b \in Answers : /\ b.family = request.family
                                                    /\ b.streamed = request.streamed}}
    /\ UNCHANGED <<posts, heard>>

Speaks ==
    /\ conn = "open" /\ rest # <<>>
    /\ rest' = Tail(rest)
    /\ heard' = IF posts = 1 THEN Append(heard, Frame(Head(rest))) ELSE heard
    /\ UNCHANGED <<conn, posts>>

\* "[DONE]", or the provider closes the connection, which it may do early.
Stops == conn = "open" /\ UNCHANGED source

\* A transport error, on which the source sends the request again.
Drops ==
    /\ conn # "closed" /\ posts < MaxPosts
    /\ conn' = "sending" /\ posts' = posts + 1 /\ rest' = <<>>
    /\ UNCHANGED heard

\* An error status, or a content type that is no event stream, closes the source.
Refuses == conn = "sending" /\ conn' = "closed" /\ UNCHANGED <<posts, rest, heard>>

-----------------------------------------------------------------------------
\* Dispatcher::dispatch up to the response: sse_stream waits for the first event
\* so that its failure is the request's.

\* wrap_stream, and the log task or the task that only times the first frame
Responds ==
    /\ call' = "answered" /\ body' = "open" /\ log' = "collect"
    /\ UNCHANGED <<given, errors, tee, logged, tfft, stored, recorded>>

FirstEvent ==
    /\ call = "wait" /\ request.streamed
    /\ Opens /\ Responds /\ pump' = "run"
    /\ UNCHANGED <<request, chan>>

FirstError ==
    /\ call = "wait" /\ request.streamed
    /\ Refuses \/ (conn = "sending" /\ UNCHANGED source)
    /\ call' = "refused" /\ errors' = errors + 1
    /\ UNCHANGED <<request, pump, chan, body, given, tee, logger>>

\* dispatch_sync: any status is an answer, only a failed request an error
SyncResponds ==
    /\ call = "wait" /\ ~request.streamed
    /\ Opens /\ Responds
    /\ UNCHANGED <<request, pump, chan>>

SyncFails ==
    /\ call = "wait" /\ ~request.streamed
    /\ call' = "refused"
    /\ UNCHANGED <<request, source, pump, chan, body, given, errors, tee, logger>>

-----------------------------------------------------------------------------
\* The pump.  The channel's other end lives in the client's body.

Listening == body = "open"

PumpOpen == pump = "run" /\ Opens /\ UNCHANGED <<request, pump, chan, client, tee, logger>>

PumpMessage ==
    /\ pump = "run" /\ Speaks
    /\ IF Listening THEN chan' = Append(chan, Frame(Head(rest))) /\ UNCHANGED pump
       ELSE pump' = "ended" /\ UNCHANGED chan
    /\ UNCHANGED <<request, client, tee, logger>>

PumpStops ==
    /\ pump = "run" /\ Stops /\ pump' = "ended"
    /\ UNCHANGED <<request, chan, client, tee, logger>>

\* handle_stream_error: the error is passed on, if anyone listens, and the loop
\* goes on; the body of an error status is passed on as data, and when it cannot
\* be read the pump ends.
PumpError ==
    /\ pump = "run" /\ Drops
    /\ chan' = IF Listening THEN Append(chan, Failure) ELSE chan
    /\ UNCHANGED <<request, pump, client, tee, logger>>

PumpRefused ==
    /\ pump = "run" /\ Refuses
    /\ \/ /\ \E x \in {ErrorBody, Failure} :
                 chan' = IF Listening THEN Append(chan, x) ELSE chan
          /\ UNCHANGED pump
       \/ pump' = "ended" /\ UNCHANGED chan
    /\ UNCHANGED <<request, client, tee, logger>>

PumpNone ==
    /\ pump = "run" /\ conn = "closed" /\ pump' = "ended"
    /\ UNCHANGED <<request, source, chan, client, tee, logger>>

-----------------------------------------------------------------------------
\* The client's body, pulled by hyper.  An error ends it, and drops it.

\* Mutation of Relayed: only what the client is sent is copied to the log.
RelayedSome(f) ==
    LET c == Convert(f.of, f.e)
    IN  /\ tee' = IF c.r = "some" THEN Append(tee, f) ELSE tee
        /\ given' = IF c.r = "some" THEN Append(given, c.choices) ELSE given
        /\ body' = IF c.r = "error" THEN "broken" ELSE body

\* wrap_stream's copy, and map_response's conversion
Relayed(f) ==
    LET c == Convert(f.of, f.e)
    IN  /\ tee' = Append(tee, f)
        /\ given' = IF c.r = "some" THEN Append(given, c.choices) ELSE given
        /\ body' = IF c.r = "error" THEN "broken" ELSE body

PullFrame ==
    /\ body = "open" /\ request.streamed /\ chan # <<>> /\ ~IsError(Head(chan))
    /\ Relayed(Head(chan)) /\ chan' = Tail(chan)
    /\ UNCHANGED <<request, source, pump, call, errors, logger>>

\* Mutation of PullError: the error is skipped and the body goes on.
PullErrorSkips ==
    /\ body = "open" /\ request.streamed /\ chan # <<>> /\ IsError(Head(chan))
    /\ errors' = errors + 1 /\ chan' = Tail(chan)
    /\ UNCHANGED <<request, source, pump, call, body, given, tee, logger>>

PullError ==
    /\ body = "open" /\ request.streamed /\ chan # <<>> /\ IsError(Head(chan))
    /\ body' = "broken" /\ errors' = errors + 1 /\ chan' = Tail(chan)
    /\ UNCHANGED <<request, source, pump, call, given, tee, logger>>

PullEnd ==
    /\ body = "open" /\ request.streamed /\ chan = <<>> /\ pump = "ended"
    /\ body' = "complete"
    /\ UNCHANGED <<request, source, pump, chan, call, given, errors, tee, logger>>

\* Without a stream the bytes of the body arrive on the connection, and the mapper
\* collects them, copies and all, and converts them when the body is whole.
Arrives ==
    /\ body = "open" /\ ~request.streamed /\ Speaks
    /\ chan' = Append(chan, Frame(Head(rest)))
    /\ UNCHANGED <<request, pump, client, tee, logger>>

Collect ==
    /\ body = "open" /\ ~request.streamed /\ chan # <<>>
    /\ tee' = Append(tee, Head(chan)) /\ chan' = Tail(chan)
    /\ UNCHANGED <<request, source, pump, client, logger>>

Collected ==
    /\ body = "open" /\ ~request.streamed /\ rest = <<>> /\ chan = <<>>
    /\ LET blocks == [j \in DOMAIN heard |-> heard[j].e]
       IN  IF Parses(blocks)
           THEN body' = "complete" /\ given' = <<ConvertBody(request.family, blocks)>>
           ELSE body' = "broken" /\ UNCHANGED given
    /\ UNCHANGED <<request, source, pump, chan, call, errors, tee, logger>>

CollectFails ==
    /\ body = "open" /\ ~request.streamed /\ body' = "broken"
    /\ UNCHANGED <<request, source, pump, chan, call, given, errors, tee, logger>>

\* The client leaves: the future, or the body, is dropped.
Leave ==
    /\ \/ call = "wait" /\ call' = "gone" /\ UNCHANGED body
       \/ body = "open" /\ body' = "left" /\ UNCHANGED call
    /\ UNCHANGED <<request, source, pump, chan, given, errors, tee, logger>>

-----------------------------------------------------------------------------
\* The log task: join of collect() and TFFTFuture, then LoggerService::log, or
\* just the metric when observability is off.

CollectFrame ==
    /\ log = "collect" /\ tee # <<>>
    /\ logged' = Append(logged, Head(tee)) /\ tee' = Tail(tee)
    /\ tfft' = IF tfft = "armed" THEN "fired" ELSE tfft
    /\ UNCHANGED <<request, source, pump, chan, client, log, stored, recorded>>

AfterCollect == IF ~request.observed THEN "timed" ELSE IF request.sidecar THEN "sign" ELSE "put"

\* Mutation of CollectEnds: the signal is sent when the collection is over.
CollectEndsSignals ==
    /\ log = "collect" /\ tee = <<>> /\ body # "open"
    /\ tfft' = "fired"
    /\ log' = AfterCollect
    /\ UNCHANGED <<request, source, pump, chan, client, tee, logged, stored, recorded>>

\* Mutation of CollectEnds: the reader outlives its collection, and its signal with it.
CollectEndsHolding ==
    /\ log = "collect" /\ tee = <<>> /\ body # "open" /\ tfft = "fired"
    /\ log' = AfterCollect
    /\ UNCHANGED <<request, source, pump, chan, client, tee, logged, tfft, stored, recorded>>

\* The copies end when the client's body is dropped; the collected reader is
\* dropped then, and with it a signal that was never sent.
CollectEnds ==
    /\ log = "collect" /\ tee = <<>> /\ body # "open"
    /\ tfft' = IF tfft = "armed" THEN "lost" ELSE tfft
    /\ log' = AfterCollect
    /\ UNCHANGED <<request, source, pump, chan, client, tee, logged, stored, recorded>>

TimeOnly ==
    /\ log = "timed" /\ log' = "done"
    /\ UNCHANGED <<request, source, pump, chan, client, tee, logged, tfft, stored, recorded>>

LogStep(from, to) ==
    /\ log = from /\ log' = to
    /\ UNCHANGED <<request, source, pump, chan, client, tee, logged, tfft>>

\* S3Client::log_bodies: a signed URL from the control plane, then the upload
SignUrl == LogStep("sign", "put") /\ UNCHANGED <<stored, recorded>>
PutBodies == LogStep("put", "meta") /\ stored' = <<logged>> /\ UNCHANGED recorded
\* the metric, and HeliconeLogMetadata::from_headers
ReadHeaders == LogStep("meta", "post") /\ UNCHANGED <<stored, recorded>>
PostRecord == LogStep("post", "done") /\ recorded' = TRUE /\ UNCHANGED stored
\* Each of them may fail, and what follows is skipped.
LogFails ==
    /\ \E s \in {"sign", "put", "meta", "post"} : LogStep(s, "failed")
    /\ UNCHANGED <<stored, recorded>>

-----------------------------------------------------------------------------
Dispatch == FirstEvent \/ FirstError \/ SyncResponds \/ SyncFails
Pump == PumpOpen \/ PumpMessage \/ PumpStops \/ PumpError \/ PumpRefused \/ PumpNone
Pull == PullFrame \/ PullError \/ PullEnd \/ Arrives \/ Collect \/ Collected \/ CollectFails
Log == CollectFrame \/ CollectEnds \/ TimeOnly
         \/ SignUrl \/ PutBodies \/ ReadHeaders \/ PostRecord \/ LogFails

Next == Dispatch \/ Pump \/ Pull \/ Leave \/ Log

Spec == Init /\ [][Next]_vars

\* tokio runs the log task whenever it can go on; nothing is assumed of the
\* provider, of the client, or of the services the log is sent to.
FairSpec == Spec /\ WF_vars(CollectFrame) /\ WF_vars(CollectEnds)

-----------------------------------------------------------------------------
\* What was taken for the client.
Taken == logged \o tee

\* What Relay says of frames.
ConvertedTo(f) ==
    LET c == Convert(f.of, f.e) IN IF c.r = "some" THEN <<c.choices>> ELSE <<>>
DoesNotConvert(f) == Convert(f.of, f.e).r = "error"
ConvertedWhole(answer) == ConvertBody(answer[1].of, [j \in DOMAIN answer |-> answer[j].e])
Outcome ==
    CASE call = "refused" -> "broken"
      [] call = "gone" -> "left"
      [] call = "wait" -> "open"
      [] call = "answered" -> body

Relayer == INSTANCE Relay WITH
    Frames <- Frames, Converted <- ConvertedTo, Fails <- DoesNotConvert, Whole <- ConvertedWhole,
    streamed <- request.streamed, answer <- heard, taken <- Len(Taken),
    outcome <- Outcome, record <- stored

\* The gateway implements Relay: though the source may send the request again and
\* read a second answer, or the body of an error, into the same channel, and the
\* client and the log task move at their own pace, the client is given a prefix
\* of the first answer only, is told it is complete only when it is, and what is
\* stored is exactly what was taken for the client.
RelayHolds == Relayer!Spec

\* A request is counted as a stream error at most once, and only when the client
\* was refused or its body broke, however often the pump runs into errors: the
\* health monitor divides these counts by the number of requests.
ErrorsCountedOnce == errors <= 1 /\ (errors = 1 => Outcome = "broken")

\* The text the client finds in choice i is the text of content block i, whole and
\* in order, through the conversion of every family and with frames that bring
\* nothing in between.
TextIn(choices, i) ==
    FlattenSeq([j \in DOMAIN choices |->
        IF choices[j].index = i THEN choices[j].delta.content ELSE <<>>])
SaidIn(f, i) ==
    IF f.of = "openai" THEN IF f.e.t = "chunk" THEN TextIn(f.e.choices, i) ELSE <<>>
    ELSE IF f.e.t = "ContentBlockDelta" /\ f.e.index = i /\ f.e.delta.k = "text" THEN f.e.delta.d
    ELSE <<>>
TextIntact ==
    request.streamed =>
        \A i \in 0..1 :
            FlattenSeq([j \in DOMAIN given |-> TextIn(given[j], i)])
              = FlattenSeq([j \in DOMAIN Taken |-> SaidIn(Taken[j], i)])

\* The time to the first frame is measured exactly when there was a frame: an empty
\* answer does not leave the timer, which the log task joins with the collection,
\* waiting for a signal that cannot come.
TimedIffHeard ==
    log \notin {"none", "collect"} => (tfft = "fired" <=> logged # <<>>)

\* However the client's side ends, and whatever the pump and the provider go on
\* doing, the log task gets to the end of its collection.
LogCollectsAll == (body \in {"complete", "broken", "left"}) ~> (log # "collect")
=============================================================================
