--------------------------- MODULE RequestMapping ---------------------------
(***************************************************************************)
(* From a chat completion request to the request a provider gets: the      *)
(* validation of the model mappings at startup (config/validation.rs), the *)
(* choice of the provider (a router's balancer, or the unified API by the  *)
(* model's name), the mapping of the model (middleware/mapper/model.rs)    *)
(* and the conversion of the body (the converters of middleware/mapper).   *)
(*                                                                         *)
(* A configuration is a record                                             *)
(*   offered  the models of each provider of the providers config;         *)
(*   targets  the providers of the router's balancer;                      *)
(*   router   the router's model mappings;                                 *)
(*   default  the default model mapping.                                   *)
(* A mapping is a function from a set of names to non-empty sets of names. *)
(*                                                                         *)
(* A request is a record: route ("router" or "unified"), prefix (the       *)
(* provider in front of the "/" of its model, "" when there is none),      *)
(* name, stream, limit (max_completion_tokens, 0 when absent), old         *)
(* (max_tokens, 0 when absent), tools (those of its tools, by whether they *)
(* have a parameter schema) and messages.  A message has a role, a         *)
(* sequence of parts (their kind and their text), content (FALSE for an    *)
(* assistant message that has none) and the name of a function.            *)
(***************************************************************************)
EXTENDS ModelNames, FiniteSets, SequencesExt

CONSTANTS
    Configs,            \* the configurations
    Requests,           \* the requests
    DEFAULT_MAX_TOKENS, \* the limit when the client names none
    I32Max              \* the largest limit Bedrock's request can carry

\* A message as the API's types have it: a tool answers in text, and one that has
\* no content has no parts
IsMessage(m) ==
    /\ m.parts \in Seq(Range(m.parts))
    /\ \A x \in Range(m.parts) :
          /\ x.kind \in {"text", "refusal", "http", "data", "baddata", "audio"}
          /\ m.role = "tool" => x.kind = "text"
    /\ (m.role = "assistant" /\ ~m.content) => m.parts = <<>>

ASSUME MappingConstants ==
    /\ \A c \in Configs : \A p \in DOMAIN c.offered : c.offered[p] \subseteq Names
    /\ \A r \in Requests :
          /\ r.name \in Names /\ r.stream \in BOOLEAN
          /\ r.limit \in Nat /\ r.old \in Nat
          /\ r.messages \in Seq(Range(r.messages)) /\ \A m \in Range(r.messages) : IsMessage(m)
    /\ I32Max \in Nat /\ DEFAULT_MAX_TOKENS \in 1..I32Max

VARIABLES
    stage,    \* "loading", then "serving" or "rejected" (the gateway did not start)
    config,   \* the configuration
    asked,    \* the request being mapped
    target,   \* the provider it goes to
    at,       \* where it is: "none", "routed", "sent", "failed"
    sent,     \* the provider's request: model, system, messages, tools, limit, old, stream, path
    ctx       \* the MapperContext: the model and is_stream

mappingVars == <<stage, config, asked, target, at, sent, ctx>>

\* The providers ApiEndpoint::mapped knows an endpoint of, and those with a converter
Endpoints == {"openai", "anthropic", "bedrock", "ollama", "gemini"}
Converters == {"anthropic", "gemini", "openai", "ollama", "bedrock"}

NoRequest == [route |-> "none"]
NoCtx == [is_stream |-> FALSE]
NothingSent == [limit |-> 0]

-----------------------------------------------------------------------------
(* Validation of the mappings at startup *)

Alternatives(mapping, n) == IF n \in DOMAIN mapping THEN mapping[n] ELSE {}

\* Mutation of can_map_model: any configured provider will do
CanMapAnywhere(c, n, p) ==
    \E q \in DOMAIN c.offered :
        \/ n \in c.offered[q]
        \/ Alternatives(c.router, n) \cap c.offered[q] # {}
        \/ Alternatives(c.default, n) \cap c.offered[q] # {}

\* can_map_model: offered, or the router's or the default mapping has an offered one
can_map_model(c, n, p) ==
    \/ n \in c.offered[p]
    \/ Alternatives(c.router, n) \cap c.offered[p] # {}
    \/ Alternatives(c.default, n) \cap c.offered[p] # {}

\* validate_mapping_models_exist
validate_mapping_models_exist(c) ==
    LET all == UNION {c.offered[p] : p \in DOMAIN c.offered}
    IN  \A mapping \in {c.router, c.default} : \A n \in DOMAIN mapping :
            n \in all /\ mapping[n] \subseteq all

\* validate_model_mappings
validate_model_mappings(c) ==
    /\ validate_mapping_models_exist(c)
    /\ c.targets \subseteq DOMAIN c.offered
    /\ \A p \in c.targets : \A n \in UNION {c.offered[q] : q \in c.targets} :
           can_map_model(c, n, p)

MappingInit ==
    /\ stage = "loading" /\ config \in Configs
    /\ asked = NoRequest /\ target = NoText /\ at = "none"
    /\ sent = NothingSent /\ ctx = NoCtx

Validate ==
    /\ stage = "loading"
    /\ stage' = IF validate_model_mappings(config) THEN "serving" ELSE "rejected"
    /\ UNCHANGED <<config, asked, target, at, sent, ctx>>

-----------------------------------------------------------------------------
(* A request arrives and gets a provider *)

\* ModelId::from_str: "provider/name"
from_str(r) == IF r.prefix = NoText THEN NoModel ELSE from_str_and_provider(r.prefix, r.name)

\* A router's balancer picks any of its providers: the body is read later
Balance(r) ==
    /\ stage = "serving" /\ at = "none" /\ r.route = "router"
    /\ asked' = r
    /\ target' \in config.targets
    /\ at' = "routed"
    /\ UNCHANGED <<stage, config, sent, ctx>>

\* The unified API reads the provider from the model's name
Determine(r) ==
    /\ stage = "serving" /\ at = "none" /\ r.route = "unified"
    /\ asked' = r
    /\ IF from_str(r) # NoModel /\ r.prefix \in DOMAIN config.offered
       THEN target' = r.prefix /\ at' = "routed"
       ELSE target' = NoText /\ at' = "failed"
    /\ UNCHANGED <<stage, config, sent, ctx>>

-----------------------------------------------------------------------------
(* The mapping of the model *)

(***************************************************************************)
(* map_model: the ids it may return.  The source as it is when its name is *)
(* offered; else an offered alternative of the router's mapping (the       *)
(* unified API has none), else of the default one, parsed as a name of the *)
(* target.  The alternatives are a hash set: any of them may come first.   *)
(***************************************************************************)
map_model(c, r, source, p) ==
    LET n == from_model(source)
        ours == IF r.route = "router" THEN Alternatives(c.router, n) \cap c.offered[p] ELSE {}
        found == IF ours # {} THEN ours ELSE Alternatives(c.default, n) \cap c.offered[p]
    IN  IF n \in c.offered[p] THEN {source}
        ELSE IF found = {} THEN {NoModel}
        ELSE {from_str_and_provider(p, a) : a \in found}

\* model.contains("claude-3")
Claude3(id) ==
    \E i \in 1..(Len(id.model) - 1) :
        id.model[i] = Word("claude") /\ id.model[i + 1] = Num(3, 1)

\* Anthropic's aliases: "-latest" for claude 3, none for later models
Aliased(id, p) ==
    IF p = "anthropic" /\ id.provider = "anthropic"
    THEN [id EXCEPT !.version = IF Claude3(id) THEN Latest ELSE ImplicitLatest]
    ELSE id

-----------------------------------------------------------------------------
(* The conversion of the body *)

Image(part) == [kind |-> "image", text |-> part.text]
TextOf(part) == [kind |-> "text", text |-> part.text]

\* Mutation of AnthropicBlock: an assistant's refusal is not carried over
AnthropicBlockNoRefusal(part) ==
    CASE part.kind = "text" -> <<TextOf(part)>>
      [] part.kind \in {"http", "data"} -> <<Image(part)>>
      [] OTHER -> <<>>

\* What becomes of a part of the content: Anthropic takes urls and decoded data
AnthropicBlock(part) ==
    CASE part.kind \in {"text", "refusal"} -> <<TextOf(part)>>
      [] part.kind \in {"http", "data"} -> <<Image(part)>>
      [] OTHER -> <<>>

\* Bedrock takes the bytes of whatever is not a url
BedrockBlock(part) ==
    CASE part.kind \in {"text", "refusal"} -> <<TextOf(part)>>
      [] part.kind \in {"data", "baddata"} -> <<Image(part)>>
      [] OTHER -> <<>>

Block(p, part) == IF p = "bedrock" THEN BedrockBlock(part) ELSE AnthropicBlock(part)

\* Whether a message is carried over
Carried(m, tools) ==
    CASE m.role = "system" -> FALSE
      [] m.role = "assistant" -> m.content
      [] m.role = "function" -> \E t \in tools : t.name = m.name
      [] OTHER -> TRUE

\* A message of the other format: tools and functions speak as the assistant
Converted(m, p) ==
    [role |-> IF m.role = "user" THEN "user" ELSE "assistant",
     parts |-> CASE m.role = "function" -> <<[kind |-> "use", text |-> m.name]>>
                 [] m.role = "tool" ->
                       [i \in DOMAIN m.parts |-> [kind |-> "result", text |-> m.parts[i].text]]
                 [] OTHER -> FlattenSeq([i \in DOMAIN m.parts |-> Block(p, m.parts[i])])]

MappedMessages(r, tools, p) ==
    FlattenSeq([i \in DOMAIN r.messages |->
        IF Carried(r.messages[i], tools) THEN <<Converted(r.messages[i], p)>> ELSE <<>>])

\* system_prompt: the first message when it is a system or developer message
system_prompt(r) ==
    IF r.messages # <<>> /\ r.messages[1].role = "system" THEN r.messages[1].parts ELSE <<>>

\* The request to Anthropic
AnthropicRequest(r, id) ==
    [model |-> Display(id), system |-> system_prompt(r), tools |-> r.tools,
     messages |-> MappedMessages(r, r.tools, "anthropic"),
     limit |-> IF r.limit # 0 THEN r.limit ELSE IF r.old # 0 THEN r.old ELSE DEFAULT_MAX_TOKENS,
     old |-> 0, stream |-> r.stream]

\* Mutation of BedrockLimit: the limit is cut to 32 bits instead of checked
BedrockLimitWraps(r) ==
    IF r.limit = 0 THEN DEFAULT_MAX_TOKENS
    ELSE IF r.limit > I32Max THEN r.limit - 2 * (I32Max + 1) ELSE r.limit

\* The limit on the answer's tokens: only max_completion_tokens, when it fits an i32
BedrockLimit(r) == IF r.limit \in 1..I32Max THEN r.limit ELSE DEFAULT_MAX_TOKENS

\* The tools Bedrock is told of: those with a schema of their parameters
BedrockTools(r) == {t \in r.tools : t.schema}

\* The request to Bedrock: no system prompt; whether to stream is in the path
BedrockRequest(r, id) ==
    [model |-> Display(id), system |-> <<>>, tools |-> BedrockTools(r),
     messages |-> MappedMessages(r, BedrockTools(r), "bedrock"),
     limit |-> BedrockLimit(r), old |-> 0, stream |-> FALSE]

\* The request to a provider that speaks OpenAI's format: only the model changes
OpenAIRequest(r, id) ==
    [model |-> Display(id), system |-> <<>>, tools |-> r.tools, messages |-> r.messages,
     limit |-> r.limit, old |-> r.old, stream |-> r.stream]

\* TryConvert of the converter of the target
try_convert(p, r, id) ==
    CASE p = "anthropic" -> AnthropicRequest(r, id)
      [] p = "bedrock" -> BedrockRequest(r, id)
      [] OTHER -> OpenAIRequest(r, id)

\* ApiEndpoint::path: Bedrock's names the model and whether to stream
Path(p, c) ==
    IF p = "bedrock" THEN [model |-> Display(c.model), stream |-> c.is_stream]
    ELSE [model |-> Name(<<>>), stream |-> FALSE]

\* What the converter maps the model to; a named provider has no endpoint to map to
Mapped ==
    IF target \notin Endpoints \cap Converters \/ from_str(asked) = NoModel THEN {NoModel}
    ELSE map_model(config, asked, from_str(asked), target)

\* Mutation of ContextModel: the mapped model is kept, not the one in the body
ContextOfMapped(id) == id

\* The context's model: read back from the body that was made for the mapped one
ContextModel(id) ==
    IF id = NoModel THEN NoModel
    ELSE from_str_and_provider(target, Display(Aliased(id, target)))

(***************************************************************************)
(* The mapper's call and map_request: the body is converted, the context's *)
(* is_stream is that of the original body, and the path is made from the   *)
(* context.                                                                *)
(***************************************************************************)
MapRequest ==
    /\ at = "routed"
    /\ \E id \in Mapped :
           /\ ContextModel(id) # NoModel
           /\ ctx' = [model |-> ContextModel(id), is_stream |-> asked.stream]
           /\ sent' = [body |-> try_convert(target, asked, Aliased(id, target)),
                       path |-> Path(target, ctx')]
    /\ at' = "sent"
    /\ UNCHANGED <<stage, config, asked, target>>

\* The model has no mapping or its name cannot be parsed: the client gets an error
MapFails ==
    /\ at = "routed"
    /\ \E id \in Mapped : ContextModel(id) = NoModel
    /\ at' = "failed"
    /\ UNCHANGED <<stage, config, asked, target, sent, ctx>>

\* The request is answered; what happens to the answer is module ResponseStream
Answered ==
    /\ at \in {"sent", "failed"}
    /\ asked' = NoRequest /\ target' = NoText /\ at' = "none"
    /\ sent' = NothingSent /\ ctx' = NoCtx
    /\ UNCHANGED <<stage, config>>

MappingNext ==
    \/ Validate
    \/ \E r \in Requests : Balance(r) \/ Determine(r)
    \/ MapRequest
    \/ MapFails
    \/ Answered

MappingSpec == MappingInit /\ [][MappingNext]_mappingVars

-----------------------------------------------------------------------------
(* Properties *)

\* The names of the router's providers
RouterNames == UNION {config.offered[p] : p \in config.targets}

\* A source whose id is its name: no Bedrock id, no tag
Plain(r) == r.prefix \notin {"bedrock", "ollama"} /\ r.name.vendors = <<>> /\ r.name.tag = NoText

\* Every model offered parses as a name of its provider, only Bedrock's names
\* hold a version, which is written as it is printed, and Anthropic's have no
\* colon, after which an alias would be written: the embedded configuration's do
Clean ==
    \A p \in DOMAIN config.offered : \A n \in config.offered[p] :
        LET id == from_str_and_provider(p, n)
        IN  /\ id # NoModel
            /\ IF p = "bedrock" THEN Display(id) = n ELSE from_model(id) = n
            /\ p = "anthropic" => n.tag = NoText

\* A Bedrock name whose internal part is one segment, "-v1:0"
EndsInV(segs) == segs[Len(segs)].word \in VWords

\* The models as which a provider's names are known once parsed
Known(p) == {from_model(from_str_and_provider(p, n)) : n \in config.offered[p]}

(***************************************************************************)
(* Once validate_model_mappings has accepted the configuration, a request  *)
(* to the router for a model one of its providers offers is never refused, *)
(* whichever provider the balancer picks and whichever alternative of the  *)
(* mapping comes first, and it is sent as a model that provider offers.    *)
(* It is about sources whose id is their name, which Bedrock's are not,    *)
(* and clean configurations; and Ollama's ids have no version, so that a   *)
(* source in a version is another model there.                             *)
(***************************************************************************)
PlainIsRouted ==
    (/\ at \in {"sent", "failed"} /\ asked.route = "router" /\ target \in Endpoints
     /\ Clean /\ from_str(asked) # NoModel /\ Plain(asked)
     /\ target = "ollama" => from_str(asked).version = ImplicitLatest
     /\ from_model(from_str(asked)) \in RouterNames)
    => at = "sent" /\ from_model(ctx.model) \in Known(target)

(***************************************************************************)
(* What the gateway remembers of the request is what it sent: printing the *)
(* model of the MapperContext (the log, the metrics, Bedrock's path) gives *)
(* the model of the body it was parsed from, dates included.  A Bedrock    *)
(* name is one that ends in its "-v" part, as all of them do.              *)
(***************************************************************************)
ContextIsSent ==
    (at = "sent" /\ Clean /\ (asked.prefix = "bedrock" => EndsInV(asked.name.segs))) =>
        /\ Display(ctx.model) = sent.body.model
        /\ target = "bedrock" => sent.path.model = sent.body.model

\* A name that ends in a number that could be the year of a month and a day
EndsLikeYear(segs) == segs[Len(segs)].width \in 1..4

\* The version a suffix of a name is meant as
Meant(v) ==
    IF Len(v) > 1 /\ v[1] = Word("preview") /\ parse_date(Tail(v)) # NoDate
    THEN Version("previewDate", parse_date(Tail(v)))
    ELSE SuffixVersion(v)

(***************************************************************************)
(* A version is no part of a model's name: a request for an offered model  *)
(* followed by a version (an alias, a date, a dated preview) goes out as   *)
(* that model in that version to a provider that offers it, Anthropic      *)
(* excepted, whose aliases are forced.  And the parser makes an exception: *)
(* a month and a day after a number are read as a full date.               *)
(***************************************************************************)
PinnedModelKept ==
    (/\ at \in {"sent", "failed"} /\ target \in {"openai", "gemini"}
     /\ asked.prefix = target /\ Clean /\ asked.name = Name(asked.name.segs))
    => \A i \in 1..(Len(asked.name.segs) - 1) :
          LET base == SubSeq(asked.name.segs, 1, i)
              v == SubSeq(asked.name.segs, i + 1, Len(asked.name.segs))
          IN  (/\ Name(base) \in config.offered[target]
               /\ Meant(v) # ImplicitLatest
               /\ ~(EndsLikeYear(base) /\ parse_date(v).fmt = "%m-%d"))
              => at = "sent" /\ ctx.model.model = base /\ ctx.model.version = Meant(v)

\* The texts of a message, and those of a conversation, in order: the system's go
\* another way, and of a function's answer only its name is carried over
TextsOf(m) ==
    FlattenSeq([j \in DOMAIN m.parts |->
        IF m.parts[j].kind \in {"text", "refusal", "result"} THEN <<m.parts[j].text>> ELSE <<>>])
Texts(messages) ==
    FlattenSeq([i \in DOMAIN messages |->
        IF messages[i].role \in {"system", "function"} THEN <<>> ELSE TextsOf(messages[i])])

(***************************************************************************)
(* The conversation arrives: every text of the user, the assistant and the *)
(* tools is sent, in the order it was said and once, and so is a system    *)
(* prompt that comes first, except to Bedrock; and a use of a tool in the  *)
(* history names a tool the request declares.                              *)
(***************************************************************************)
ConversationKept ==
    at = "sent" =>
        LET heard == sent.body.messages
        IN  /\ Texts(heard) = Texts(asked.messages)
            /\ (target # "bedrock" /\ system_prompt(asked) # <<>>) =>
                  system_prompt(asked) \in
                      {sent.body.system, system_prompt(sent.body)}
            /\ \A i \in DOMAIN heard : \A j \in DOMAIN heard[i].parts :
                  heard[i].parts[j].kind = "use" =>
                      \E t \in sent.body.tools : t.name = heard[i].parts[j].text

(***************************************************************************)
(* The answer is read as it was asked for: the provider is asked to stream *)
(* exactly when the dispatcher will read a stream, and it may not answer   *)
(* with more tokens than the client allows, by max_completion_tokens or    *)
(* else by max_tokens, even when the limit does not fit the 32 bits of     *)
(* Bedrock's request.  The one exception: max_tokens alone never gets to   *)
(* Bedrock, whose converter takes the default instead.                     *)
(***************************************************************************)
Allowed(r) == IF r.limit # 0 THEN r.limit ELSE r.old

AnswerAsAsked ==
    at = "sent" =>
        /\ ctx.is_stream = asked.stream
        /\ (sent.body.stream \/ sent.path.stream) = ctx.is_stream
        /\ IF target = "bedrock" /\ asked.limit = 0
           THEN Allowed(sent.body) = DEFAULT_MAX_TOKENS
           ELSE Allowed(asked) # 0 => Allowed(sent.body) \in 1..Allowed(asked)
=============================================================================
