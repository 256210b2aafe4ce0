------------------------------ MODULE MessagesStream ------------------------------
(***************************************************************************)
(* The streaming content provider of handle_messages                       *)
(* (serve/http_server.cpp): the Anthropic event stream of one message, a   *)
(* sequence of content blocks with running indices.                        *)
(***************************************************************************)
EXTENDS StreamedGeneration

CONSTANT Pieces     \* the texts a delta of content may consist of

VARIABLE blocks     \* the provider's locals: next_index and the open blocks

vars == <<streamVars, blocks>>

NoBlock == [open |-> FALSE, index |-> 0]

Init ==
    /\ StreamInit
    /\ blocks = [next_index |-> 0, thinking |-> NoBlock, text |-> NoBlock, out |-> << >>]

-----------------------------------------------------------------------------
Event(b, type, kind, index, text) ==
    [b EXCEPT !.out = Append(@, [type |-> type, kind |-> kind, index |-> index, text |-> text])]

(* content_block_start if the block is not open, and content_block_stop    *)
Open(b, kind) ==
    IF b[kind].open THEN b
    ELSE Event([b EXCEPT ![kind] = [open |-> TRUE, index |-> b.next_index], !.next_index = @ + 1],
               "start", kind, b.next_index, << >>)

Stop(b, kind) ==
    IF ~ b[kind].open THEN b
    ELSE Event([b EXCEPT ![kind].open = FALSE], "stop", kind, b[kind].index, << >>)

Delta(b, kind, text) == Event(b, "delta", kind, b[kind].index, text)

OnReasoningDelta(b, text) == Delta(Open(b, "thinking"), "thinking", text)

(* publish_content drops empty text.                                       *)
OnContentDelta(b, text) ==
    IF text = << >> THEN b ELSE Delta(Open(Stop(b, "thinking"), "text"), "text", text)

(* A block of its own: start, an optional delta, stop.                     *)
Whole(b, kind, text) ==
    LET index == b.next_index
        started == Event([b EXCEPT !.next_index = @ + 1], "start", kind, index, << >>)
        filled == IF text = << >> THEN started ELSE Event(started, "delta", kind, index, text)
    IN  Event(filled, "stop", kind, index, << >>)

ToolUse(b, number) == Whole(b, "tool_use", <<"f">>)

(* content_bytes of the sink: what on_content was given.                   *)
StreamedContent == Received(LAMBDA e : e.type = "delta" /\ e.kind = "text")

(* Faulty variant: what was streamed is sent again.                        *)
RemainingAll(o) == o.text

Remaining(o) == From(o.text, Len(StreamedContent) + 1)

(* What follows run: open blocks are closed, text that was not streamed    *)
(* and the calls get blocks of their own, and there is at least one block. *)
LastBlocks(b, o) ==
    LET closed == Stop(Stop(b, "thinking"), "text")
        rest == IF tool_capable /\ Remaining(o) # << >> THEN Whole(closed, "text", Remaining(o))
                                                        ELSE closed
        called == FoldLeft(ToolUse, rest, [k \in 1..o.calls |-> k])
    IN  IF called.next_index = 0 THEN Whole(called, "text", << >>) ELSE called

-----------------------------------------------------------------------------
Send(b, next) ==
    /\ Write(b.out, next)
    /\ blocks' = [b EXCEPT !.out = << >>]
    /\ UNCHANGED connection

MessageEvent(b, type) == Event(b, type, "message", 0, << >>)

Start ==
    /\ stage = "new"
    /\ Send(MessageEvent(blocks, "message_start"), "running")
    /\ UNCHANGED generationVars

OnReasoning(text) ==
    /\ Think(text)
    /\ Send(OnReasoningDelta(blocks, text), "running")

OnContent(text) ==
    /\ Speak(text)
    /\ Send(OnContentDelta(blocks, filter'.visible), "running")

RunReturns(finish) ==
    /\ Return(finish)
    /\ Send(OnContentDelta(blocks, filter'.visible), "returned")

RunThrows ==
    /\ stage = "running"
    /\ stage' = "failing"
    /\ UNCHANGED <<generationVars, connection, wire, blocks>>

(* unstreamed_content throws when more was streamed than there is.         *)
Exceeds == Len(StreamedContent) > Len(outcome.text)

WriteEnd ==
    /\ stage = "returned"
    /\ IF Exceeds
         THEN stage' = "failing" /\ UNCHANGED <<connection, wire, blocks>>
         ELSE Send(MessageEvent(MessageEvent(LastBlocks(blocks, outcome), "message_delta"),
                                "message_stop"), "done")
    /\ UNCHANGED generationVars

WriteError ==
    /\ stage = "failing"
    /\ Send(MessageEvent(blocks, "error"), "done")
    /\ UNCHANGED generationVars

Next ==
    \/ Start
    \/ OnReasoning(<<"r">>)
    \/ \E text \in Pieces : OnContent(text)
    \/ \E finish \in Finishes : RunReturns(finish)
    \/ RunThrows \/ WriteEnd \/ WriteError
    \/ stage \notin {"done", "disconnected"} /\ (Stall \/ Resume \/ Leave) /\ UNCHANGED blocks

Spec == Init /\ [][Next]_vars

-----------------------------------------------------------------------------
BlockEvents == SelectSeq(wire, LAMBDA e : e.kind # "message")
Index(i) == BlockEvents[i].index
Type(i) == BlockEvents[i].type
Place(i) == CHOOSE n \in 1..3 : <<"thinking", "text", "tool_use">>[n] = BlockEvents[i].kind

(* Blocks follow each other: thinking precedes text and tool_use comes     *)
(* last, each block starts with the next index, nothing of another block   *)
(* comes before it has stopped, and the message ends with every block      *)
(* stopped and at least one block sent.  A frontend that goes back to      *)
(* reasoning after content breaks it.                                      *)
BlocksFollowEachOther ==
    /\ \A i, j \in DOMAIN BlockEvents : i < j => Place(i) <= Place(j)
    /\ \A i \in DOMAIN BlockEvents :
         IF i = 1 \/ Type(i - 1) = "stop"
           THEN Type(i) = "start" /\ Index(i) = (IF i = 1 THEN 0 ELSE Index(i - 1) + 1)
           ELSE Type(i) # "start" /\ Index(i) = Index(i - 1)
    /\ (\E i \in DOMAIN wire : wire[i].type = "message_delta") =>
         BlockEvents # << >> /\ Type(Len(BlockEvents)) = "stop"

(* A client that has seen message_stop has exactly the text and the        *)
(* reasoning of the outcome, however the filter held it back, and one      *)
(* tool_use block for each call; the streamed byte count never exceeds the *)
(* parsed content, so the logic_error of unstreamed_content is unreachable *)
MessageIsComplete ==
    /\ stage = "returned" => ~ Exceeds
    /\ wire # << >> /\ wire[Len(wire)].type = "message_stop" =>
         /\ StreamedContent = outcome.text
         /\ Received(LAMBDA e : e.type = "delta" /\ e.kind = "thinking") = outcome.reasoning
         /\ Cardinality({i \in DOMAIN wire : wire[i].type = "start" /\ wire[i].kind = "tool_use"})
              = outcome.calls
=============================================================================
