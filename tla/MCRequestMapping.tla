-------------------------- MODULE MCRequestMapping --------------------------
(* RequestMapping on small configurations, names and conversations. *)
EXTENDS RequestMapping

MCWords == {NoText, "gpt", "claude", "opus", "gemini", "llama", "nova", "mini", "v1:0", "8b",
            "us", "anthropic", "amazon"} \cup LatestWords \cup PreviewWords

W(w) == <<Word(w)>>
gpt == Name(W("gpt"))
gpt4 == Name(W("gpt") \o <<Num(4, 1)>>)
claude3 == Name(W("claude") \o <<Num(3, 1)>> \o W("opus"))
opus40 == Name(W("claude") \o W("opus") \o <<Num(4, 1), Num(0, 1)>>)
opus41 == Name(W("claude") \o W("opus") \o <<Num(4, 1), Num(1, 1)>>)
gemini == Name(W("gemini"))
llama == Name(W("llama"))
titan == [vendors |-> <<"us", "anthropic">>, tag |-> NoText,
          segs |-> claude3.segs \o <<Num(20240229, 8)>> \o W("v1:0")]
sonnet == [titan EXCEPT !.vendors = <<"anthropic">>]
nova == [vendors |-> <<"amazon">>, segs |-> W("nova") \o W("v1:0"), tag |-> NoText]
unversioned == [nova EXCEPT !.segs = W("nova")]

None == [n \in {} |-> {}]
Three == [openai |-> {gpt, gpt4}, anthropic |-> {claude3, opus40}, gemini |-> {gemini}]
Defaults == gpt :> {claude3, opus40, gemini, nova} @@ gpt4 :> {opus40, gemini, titan}
            @@ claude3 :> {gpt, gpt4, gemini, nova} @@ opus40 :> {gpt4, gemini}
            @@ gemini :> {gpt, claude3, opus40}
Some(offered, targets, router, default) ==
    [offered |-> offered, targets |-> targets, router |-> router, default |-> default]

OnlyThree == [n \in DOMAIN Defaults |-> Defaults[n] \ {nova, titan}]

MCConfigs == {
    Some(Three, {"openai", "anthropic", "gemini"}, None, OnlyThree),
    Some(Three, {"openai", "anthropic"}, gpt :> {opus40} @@ claude3 :> {gpt}, OnlyThree),
    Some(Three, {"openai", "anthropic"}, None, gpt :> {claude3}),
    Some(Three, {"openai"}, None, gpt :> {llama}),
    Some(Three, {"openai", "groq"}, None, OnlyThree),
    Some([groq |-> {gpt, gpt4}] @@ Three, {"openai", "groq"}, None, OnlyThree),
    Some([Three EXCEPT !.anthropic = {claude3, opus41}], {"anthropic"}, None, claude3 :> {opus41}),
    Some([bedrock |-> {titan, sonnet, nova}, ollama |-> {llama}] @@ Three,
         {"openai", "anthropic", "bedrock"},
         gpt :> {nova, titan} @@ opus40 :> {nova} @@ titan :> {claude3, gpt4}
             @@ sonnet :> {claude3, gpt} @@ nova :> {opus40, gpt},
         Defaults @@ llama :> {gpt}),
    Some([ollama |-> {gpt, llama}] @@ Three, {"openai", "ollama"}, gpt4 :> {llama}, gpt :> {llama}
                                                                @@ llama :> {gpt4}),
    Some([bedrock |-> {unversioned}] @@ Three, {"openai", "bedrock"},
         gpt :> {unversioned} @@ gpt4 :> {unversioned} @@ unversioned :> {gpt}, OnlyThree)}

-----------------------------------------------------------------------------
Text(t) == [kind |-> "text", text |-> t]
Said(role, parts) == [role |-> role, parts |-> parts, content |-> TRUE, name |-> NoText]
Hello == <<Said("user", <<Text(1)>>)>>

Ask(route, prefix, name) ==
    [route |-> route, prefix |-> prefix, name |-> name, stream |-> FALSE,
     limit |-> 0, old |-> 0, tools |-> {}, messages |-> Hello]

\* Names: a model followed by up to three segments
Ends == W("preview") \o W("latest") \o W("Latest") \o W("mini") \o
        <<Num(4, 1), Num(5, 2), Num(13, 2), Num(2024, 4), Num(20240513, 8), Num(2024051, 7), Blank>>
Endings == {<<>>} \cup {<<Ends[i]>> : i \in DOMAIN Ends}
            \cup {<<Ends[i], Ends[j]>> : i \in 1..8, j \in DOMAIN Ends}
            \cup {<<Ends[i], Ends[j], Ends[k]>> : i \in {1, 5, 8}, j \in {4, 5, 6}, k \in {1, 2, 5, 6, 7}}
Versioned == {[n EXCEPT !.segs = n.segs \o x] : n \in {gpt, gpt4, claude3}, x \in Endings}
Named == {Ask(route, prefix, n) : route \in {"router", "unified"},
                                 prefix \in {"openai", "anthropic"}, n \in Versioned}
Others == {Ask(route, prefix, n) : route \in {"router", "unified"},
                                   prefix \in {NoText, "bedrock", "ollama", "gemini", "groq"},
                                   n \in {gpt, opus40, gemini, titan, sonnet, nova, unversioned,
                                          [llama EXCEPT !.tag = "8b"]}}

\* Conversations of up to two messages, with and without tools, streams and limits
Messages == {Said("system", <<Text(2), Text(3)>>),
             Said("user", <<Text(4), [kind |-> "http", text |-> 5], [kind |-> "audio", text |-> 6],
                            [kind |-> "baddata", text |-> 7], [kind |-> "data", text |-> 8]>>),
             Said("assistant", <<[kind |-> "refusal", text |-> 9]>>),
             [Said("assistant", <<>>) EXCEPT !.content = FALSE],
             Said("tool", <<Text(10)>>),
             [Said("function", <<Text(11)>>) EXCEPT !.name = "f"],
             [Said("function", <<>>) EXCEPT !.name = "g"]}
Talks == UNION {[1..k -> Messages] : k \in 0..2}
ToolSets == {{}, {[name |-> "f", schema |-> FALSE], [name |-> "g", schema |-> TRUE]}}
Talking == {[Ask("router", "openai", gpt) EXCEPT !.messages = t, !.tools = ts, !.stream = s] :
               t \in Talks, ts \in ToolSets, s \in BOOLEAN}
Limited == {[Ask("router", "openai", gpt) EXCEPT !.limit = l, !.old = o, !.stream = s] :
               l \in {0, 1, 7, 8, 9}, o \in {0, 3}, s \in BOOLEAN}

MCRequests == Named \cup Others \cup Talking \cup Limited
=============================================================================
