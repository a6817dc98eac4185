---------------------------- MODULE ChunkMapping ----------------------------
(***************************************************************************)
(* How the mapper turns what a provider answers into what an OpenAI client *)
(* reads: one event of a streamed answer at a time (try_convert_chunk) and *)
(* a whole answer at once (try_convert), for the three families of         *)
(* providers.  Text is a sequence of tokens, so that pieces can be joined; *)
(* identifiers, times, model names and token counts are left out.          *)
(***************************************************************************)
EXTENDS Integers, Sequences, SequencesExt

None == "none"

\* The family of converters a provider's answers go through; OpenAI, Gemini and
\* Ollama all answer in OpenAI's format.
Families == {"anthropic", "bedrock", "openai"}

\* A content block of an answer, and a tool call as a client sees one.
Text(d) == [k |-> "text", d |-> d]
Thinking(d) == [k |-> "thinking", d |-> d]
Guard(d) == [k |-> "guard", d |-> d]
ToolUse(id, d) == [k |-> "tool", id |-> id, d |-> d]
ToolResult(id, d) == [k |-> "result", id |-> id, d |-> d]
ToolCall(i, id, args) == [index |-> i, id |-> id, args |-> args]

\* One choice of a chunk.
NoDelta == [role |-> None, content |-> <<>>, tools |-> <<>>, finish |-> None]
Choice(i, delta) == <<[index |-> i, delta |-> delta]>>

\* What conversion of one event comes to: a chunk, nothing, or an error.
Chunk(choices) == [r |-> "some", choices |-> choices]
NoChunk == [r |-> "none"]
BadEvent == [r |-> "error"]

FinishReasonOf ==
    [EndTurn |-> "stop", StopSequence |-> "stop", MaxTokens |-> "length",
     ToolUse |-> "tool_calls", Refusal |-> "content_filter", none |-> None]

-----------------------------------------------------------------------------
\* AnthropicConverter

\* MessageStart may already hold content: its text is joined (a tool result on a
\* line of its own), its tool uses numbered by their place.
StartText(b) ==
    CASE b.k = "text" -> b.d
      [] b.k = "result" -> <<"\n">> \o b.d
      [] OTHER -> <<>>
StartTools(content) ==
    LET called == SetToSortSeq({j \in DOMAIN content : content[j].k = "tool"}, <)
    IN  [j \in DOMAIN called |->
            ToolCall(called[j] - 1, content[called[j]].id, content[called[j]].d)]

MessageStartChunk(e) ==
    Chunk(Choice(0, [role |-> e.role,
                     content |-> FlattenSeq([j \in DOMAIN e.content |-> StartText(e.content[j])]),
                     tools |-> StartTools(e.content),
                     finish |-> FinishReasonOf[e.stop]]))

\* A tool's id comes in choice 0, with the block's (empty) input as arguments;
\* other blocks bring nothing until their deltas.
BlockStartChunk(e) ==
    IF e.block.k = "tool"
    THEN Chunk(Choice(0, [NoDelta EXCEPT
                             !.tools = <<ToolCall(e.index, e.block.id, e.block.d)>>]))
    ELSE NoChunk

\* Mutation of BlockDeltaChunk: text goes to choice 0, as the tool's id does.
BlockDeltaFirst(e) ==
    IF e.delta.k = "text" THEN Chunk(Choice(0, [NoDelta EXCEPT !.content = e.delta.d]))
    ELSE NoChunk

\* Text and arguments come in the choice numbered like their block.
BlockDeltaChunk(e) ==
    CASE e.delta.k = "text" -> Chunk(Choice(e.index, [NoDelta EXCEPT !.content = e.delta.d]))
      [] e.delta.k = "tool" ->
            Chunk(Choice(e.index, [NoDelta EXCEPT
                                      !.tools = <<ToolCall(e.index, None, e.delta.d)>>]))
      [] OTHER -> NoChunk

MessageDeltaChunk(e) ==
    Chunk(Choice(0, [NoDelta EXCEPT !.finish = FinishReasonOf[e.stop]]))

AnthropicChunk(e) ==
    CASE e.t = "MessageStart" -> MessageStartChunk(e)
      [] e.t = "ContentBlockStart" -> BlockStartChunk(e)
      [] e.t = "ContentBlockDelta" -> BlockDeltaChunk(e)
      [] e.t = "MessageDelta" -> MessageDeltaChunk(e)
      [] e.t \in {"ContentBlockStop", "MessageStop", "Ping", "Error"} -> NoChunk
      [] OTHER -> BadEvent

\* A whole answer: every tool use and tool result is a call, and the last text
\* block is the content.
LastText(blocks, kinds) ==
    LET texts == SelectSeq(blocks, LAMBDA b : b.k \in kinds)
    IN  IF texts = <<>> THEN <<>> ELSE Last(texts).d

AnthropicBody(blocks) ==
    [content |-> LastText(blocks, {"text"}),
     calls |-> SelectSeq(blocks, LAMBDA b : b.k \in {"tool", "result"})]

-----------------------------------------------------------------------------
\* BedrockConverter: every event gives a chunk, of no choices where there is
\* nothing to say; the stop reason of MessageStop is among what is not said.

ConverseChunk(e) ==
    CASE e.t = "MessageStart" -> Chunk(Choice(0, [NoDelta EXCEPT !.role = e.role]))
      [] e.t = "ContentBlockStart" /\ e.block.k = "tool" ->
            Chunk(Choice(0, [NoDelta EXCEPT !.tools = <<ToolCall(e.index, e.block.id, <<>>)>>]))
      [] e.t = "ContentBlockDelta" /\ e.delta.k = "text" ->
            Chunk(Choice(e.index, [NoDelta EXCEPT !.content = e.delta.d]))
      [] e.t = "ContentBlockDelta" /\ e.delta.k = "tool" ->
            Chunk(Choice(0, [NoDelta EXCEPT !.tools = <<ToolCall(e.index, None, e.delta.d)>>]))
      [] e.t = "garbage" -> BadEvent
      [] OTHER -> Chunk(<<>>)

\* Reasoning text and the text of a guard count as text.
ConverseText(blocks) == LastText(blocks, {"text", "thinking", "guard"})

\* The arguments of a tool use are a document, of which as_string keeps nothing
\* unless it is a string; those of a tool result are the text so far, not its own.
ConverseArgs(blocks, j) ==
    IF blocks[j].k = "result" THEN ConverseText(SubSeq(blocks, 1, j - 1)) ELSE <<>>

ConverseBody(blocks) ==
    [content |-> ConverseText(blocks),
     calls |-> SelectSeq([j \in DOMAIN blocks |->
                             IF blocks[j].k \in {"tool", "result"}
                             THEN [blocks[j] EXCEPT !.d = ConverseArgs(blocks, j)]
                             ELSE blocks[j]],
                         LAMBDA b : b.k \in {"tool", "result"})]

-----------------------------------------------------------------------------
\* OpenAIConverter, GoogleGeminiConverter, OllamaConverter: the answer is already
\* a chunk, or a body, of OpenAI's.

OpenAIChunk(e) == IF e.t = "chunk" THEN Chunk(e.choices) ELSE BadEvent
OpenAIBody(blocks) == blocks

-----------------------------------------------------------------------------
\* The body of an error status, as OpenAI would word it.

ErrorType(status) ==
    IF status = 429 THEN "tokens"
    ELSE IF status \in 400..499 THEN "invalid_request_error" ELSE "server_error"

ErrorCode(status) ==
    IF status \in {401, 403} THEN "invalid_api_key"
    ELSE IF status = 429 THEN "rate_limit_exceeded" ELSE None

OpenAIError(status, message) ==
    [type |-> ErrorType(status), code |-> ErrorCode(status),
     message |-> IF message = None THEN ErrorType(status) ELSE message]

AnthropicError(b) == OpenAIError(b.status, b.message)
ConverseError(b) == OpenAIError(b.status, None)
SameError(b) == b

-----------------------------------------------------------------------------
\* TypedEndpointConverter::convert_resp_body with is_stream set

Convert(family, e) ==
    CASE family = "anthropic" -> AnthropicChunk(e)
      [] family = "bedrock" -> ConverseChunk(e)
      [] family = "openai" -> OpenAIChunk(e)

\* ... and without it.  An empty body, or one that is cut, does not parse.
Parses(blocks) == blocks # <<>> /\ \A j \in DOMAIN blocks : blocks[j].k # "garbage"
ConvertOk(family, blocks) ==
    CASE family = "anthropic" -> AnthropicBody(blocks)
      [] family = "bedrock" -> ConverseBody(blocks)
      [] family = "openai" -> OpenAIBody(blocks)
ConvertError(family, b) ==
    CASE family = "anthropic" -> AnthropicError(b)
      [] family = "bedrock" -> ConverseError(b)
      [] family = "openai" -> SameError(b)
ConvertBody(family, blocks) ==
    IF blocks[1].k = "error" THEN ConvertError(family, blocks[1]) ELSE ConvertOk(family, blocks)
=============================================================================
