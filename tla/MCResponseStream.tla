-------------------------- MODULE MCResponseStream --------------------------
(***************************************************************************)
(* ResponseStream with the answers that exercise every case of the         *)
(* converters: text in the first and in the second block, a tool call,     *)
(* events without a chunk, an event that does not parse; and with one      *)
(* reconnection.                                                           *)
(***************************************************************************)
EXTENDS ResponseStream

Event(t) == [t |-> t]
Started(c) == [t |-> "MessageStart", role |-> "assistant", content |-> c, stop |-> None]
BlockStarts(i, b) == [t |-> "ContentBlockStart", index |-> i, block |-> b]
Delta(i, b) == [t |-> "ContentBlockDelta", index |-> i, delta |-> b]
Stopped(r) == [t |-> "MessageDelta", stop |-> r]
Said(i, d, r) ==
    [t |-> "chunk", choices |-> Choice(i, [NoDelta EXCEPT !.content = d, !.finish = r])]
Refused(s) == [k |-> "error", status |-> s, message |-> "m"]
Garbage == [t |-> "garbage", k |-> "garbage"]

Streams ==
    {<<"anthropic", <<Started(<<>>), Delta(0, Text(<<"a">>)), BlockStarts(1, ToolUse("t", <<"{}">>)),
                      Delta(1, ToolUse(None, <<"x">>)), Stopped("ToolUse")>>>>,
     <<"anthropic", <<Delta(0, Thinking(<<"h">>)), Delta(1, Text(<<"a">>)),
                      Delta(1, Text(<<"b">>)), Garbage>>>>,
     <<"bedrock", <<Started(<<>>), Delta(0, Text(<<"a">>)), BlockStarts(1, ToolUse("t", <<>>)),
                    Delta(1, ToolUse(None, <<"x">>))>>>>,
     <<"openai", <<Said(0, <<"a">>, None), Said(0, <<"b">>, "stop")>>>>}

Bodies ==
    {<<"anthropic", <<Text(<<"a">>), ToolUse("t", <<"x">>), Text(<<"b">>)>>>>,
     <<"bedrock", <<Thinking(<<"h">>), ToolUse("t", <<"x">>), ToolResult("t", <<"y">>),
                    Guard(<<"g">>)>>>>,
     <<"openai", <<Text(<<"a">>), Garbage>>>>, <<"openai", <<>>>>,
     <<"anthropic", <<Refused(403)>>>>, <<"bedrock", <<Refused(429)>>>>,
     <<"openai", <<Refused(500)>>>>}

MCAnswers ==
    {[family |-> a[1], streamed |-> TRUE, parts |-> a[2]] : a \in Streams}
      \cup {[family |-> a[1], streamed |-> FALSE, parts |-> a[2]] : a \in Bodies}
=============================================================================
