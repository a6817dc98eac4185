----------------------------- MODULE MCRouters ------------------------------
(* Two routers, one or two endpoint types, and configurations that do not start. *)
EXTENDS Routers, TLC

Both == {"openai", "anthropic"}
Even(strategy, ps) == [strategy |-> strategy, providers |-> ps, weights |-> "fine"]
Weighted(weights) == [strategy |-> "weighted", providers |-> Both, weights |-> weights]
Chat(b) == "chat" :> b
Two(b1, b2) == Chat(b1) @@ ("image" :> b2)
Gateway(global, r1, r2) == [global |-> global, routers |-> ("r1" :> r1 @@ "r2" :> r2)]

OpenAI == Even("latency", {"openai"})
Anthropic == Even("latency", {"anthropic"})
Groq == Even("latency", {"groq"})

MCConfigs == {
    Gateway(Both, Chat(Even("latency", Both)), Two(OpenAI, OpenAI)),
    Gateway(Both, Chat(OpenAI), Two(Even("weighted", {"openai"}), Even("weighted", {"anthropic"}))),
    Gateway(Both, Chat(OpenAI), Two(Weighted("fine"), Even("weighted", {"openai"}))),
    Gateway(Both, Chat(OpenAI), Chat(Weighted("zero"))),
    Gateway(Both, Chat(OpenAI), Chat(Weighted("off"))),
    Gateway(Both, Chat(OpenAI), Two(OpenAI, Even("weighted", {"openai"}))),
    Gateway(Both, Chat(Groq), Chat(OpenAI)),
    Gateway(Both \cup {"groq"}, Chat(Groq), Chat(OpenAI)),
    Gateway(Both \cup {"groq"}, Chat(OpenAI), Chat(OpenAI)),
    Gateway({"anthropic"}, Chat(Anthropic), Chat(Anthropic))}
=============================================================================
