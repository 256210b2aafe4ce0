----------------------------- MODULE MCMuseStreams -----------------------------
(* One generation of a Muse session streamed to both endpoints at once, to *)
(* clients that read everything: the same deltas drive the encoder of the  *)
(* Responses API and the provider of the Messages API, each with its own   *)
(* stage and its own events.                                               *)

VARIABLES
    frontend, tool_capable, deltas, filter, outcome,  \* see StreamedGeneration
    connection,
    responses_stage, responses_wire, encoder,         \* see ResponsesStream
    messages_stage, messages_wire, blocks             \* see MessagesStream

ResponsesSide == <<responses_stage, responses_wire, encoder>>
MessagesSide == <<messages_stage, messages_wire, blocks>>
museVars == <<frontend, tool_capable, deltas, filter, outcome, connection,
              ResponsesSide, MessagesSide>>

(* Thought, text and thought again.                                        *)
ThreeDeltas == [Muse |-> 3]
Words == {<<"x">>}

Responses ==
    INSTANCE ResponsesStream WITH
        MaxPieces <- ThreeDeltas, Pieces <- Words,
        stage <- responses_stage, wire <- responses_wire
Messages ==
    INSTANCE MessagesStream WITH
        MaxPieces <- ThreeDeltas, Pieces <- Words,
        stage <- messages_stage, wire <- messages_wire

MuseInit == Responses!Init /\ Messages!Init

(* The generation publishes to both; how a stream ends is its own affair.  *)
MuseNext ==
    \/ Responses!Start /\ Messages!Start
    \/ Responses!OnReasoning(<<"r">>) /\ Messages!OnReasoning(<<"r">>)
    \/ \E text \in Words : Responses!OnContent(text) /\ Messages!OnContent(text)
    \/ \E finish \in Responses!Finishes :
         Responses!RunReturns(finish) /\ Messages!RunReturns(finish)
    \/ /\ Responses!BuildFinish \/ Responses!WriteFinish \/ Responses!WriteTerminal
       /\ UNCHANGED MessagesSide
    \/ Messages!WriteEnd /\ UNCHANGED ResponsesSide

MuseSpec == MuseInit /\ [][MuseNext]_museVars

(* docs/serving.md puts the deltas of an item before its done events, and  *)
(* anthropic_schema.h has "thinking blocks precede the text block".  Each  *)
(* of the two promises is made for every generation; here it is only asked *)
(* that no generation breaks both, so that a counterexample refutes the    *)
(* one and the other.                                                      *)
SomeStreamKeepsItsOrder ==
    Responses!ItemsLiveOnce \/ Messages!BlocksFollowEachOther
=============================================================================
