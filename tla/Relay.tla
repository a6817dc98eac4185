-------------------------------- MODULE Relay --------------------------------
(***************************************************************************)
(* What the gateway promises of one answer it relays, whatever happens on  *)
(* the way: the client is given the conversion of a prefix of ONE answer   *)
(* of the provider, in order and without gaps (or, when it did not ask for *)
(* a stream, of the whole answer and nothing else); it is told the answer  *)
(* is complete only when it was given all of it; and what is recorded of   *)
(* the answer is exactly what was taken for the client, however the        *)
(* client's side ended.                                                    *)
(***************************************************************************)
EXTENDS Integers, Sequences

CONSTANTS
    Frames,        \* what a provider may send
    Converted(_),  \* the chunks one frame is converted to, at most one
    Fails(_),      \* the frame cannot be converted
    Whole(_)       \* what an answer is converted to at once

VARIABLES
    streamed,  \* the client asked for a stream
    answer,    \* what the provider has sent, as a sequence of frames
    taken,     \* how many of them were taken for the client
    given,     \* what the client was given
    outcome,   \* the client's side: "open", "complete", "broken" or "left"
    record     \* the answer as recorded: <<>> or a sequence of one sequence

vars == <<streamed, answer, taken, given, outcome, record>>

Init ==
    /\ streamed \in BOOLEAN
    /\ answer = <<>> /\ taken = 0 /\ given = <<>> /\ outcome = "open" /\ record = <<>>

\* The provider goes on with its answer.
Send(f) ==
    /\ outcome # "complete"
    /\ answer' = Append(answer, f)
    /\ UNCHANGED <<streamed, taken, given, outcome, record>>

\* The next frame is taken for the client.  A stream hands it on at once, and
\* ends with a frame that does not convert.
Take ==
    /\ outcome = "open" /\ taken < Len(answer)
    /\ taken' = taken + 1
    /\ LET f == answer[taken + 1]
       IN  \/ ~streamed /\ UNCHANGED <<given, outcome>>
           \/ streamed /\ Fails(f) /\ outcome' = "broken" /\ UNCHANGED given
           \/ streamed /\ ~Fails(f) /\ given' = given \o Converted(f) /\ UNCHANGED outcome
    /\ UNCHANGED <<streamed, answer, record>>

\* The client's side ends: well only when nothing is left to give.
Complete ==
    /\ outcome = "open" /\ taken = Len(answer)
    /\ outcome' = "complete"
    /\ given' = IF streamed THEN given ELSE <<Whole(answer)>>
    /\ UNCHANGED <<streamed, answer, taken, record>>

Finish(o) ==
    /\ outcome = "open" /\ outcome' = o
    /\ UNCHANGED <<streamed, answer, taken, given, record>>

\* What was taken is recorded, once.
Record ==
    /\ outcome # "open" /\ record = <<>>
    /\ record' = <<SubSeq(answer, 1, taken)>>
    /\ UNCHANGED <<streamed, answer, taken, given, outcome>>

Next ==
    \/ \E f \in Frames : Send(f)
    \/ Take
    \/ Complete
    \/ Finish("broken") \/ Finish("left")
    \/ Record

Spec == Init /\ [][Next]_vars
=============================================================================
