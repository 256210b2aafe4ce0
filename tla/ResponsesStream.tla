----------------------------- MODULE ResponsesStream -----------------------------
(***************************************************************************)
(* ResponsesEventStream (serve/responses_schema.cpp) and the streaming     *)
(* content provider of handle_responses (serve/responses_http.cpp): the    *)
(* semantic events of one response, with its items, output indices and     *)
(* sequence numbers.                                                       *)
(***************************************************************************)
EXTENDS StreamedGeneration

CONSTANT Pieces     \* the texts a delta of content may consist of

VARIABLE encoder    \* ResponsesEventStream::Impl, with the events to write (out)

vars == <<streamVars, encoder>>

NewItem == [started |-> FALSE, done |-> FALSE, index |-> 0, text |-> << >>]

Init ==
    /\ StreamInit
    /\ encoder = [sequence |-> 0, next_index |-> 0, reasoning |-> NewItem, message |-> NewItem,
                  finish_built |-> FALSE, terminal_emitted |-> FALSE, out |-> << >>]

-----------------------------------------------------------------------------
(* Impl; the ids of items are the names of their fields.                   *)

(* Faulty variant: the sequence number does not advance.                   *)
EventUnnumbered(e, type, item, index, text) ==
    [e EXCEPT !.out = Append(@, [type |-> type, item |-> item, index |-> index, text |-> text,
                                 sequence |-> e.sequence])]

Event(e, type, item, index, text) ==
    [e EXCEPT !.out = Append(@, [type |-> type, item |-> item, index |-> index, text |-> text,
                                 sequence |-> e.sequence]),
              !.sequence = @ + 1]

(* ensure_reasoning and ensure_message                                     *)
Ensure(e, item) ==
    LET opened == [e EXCEPT ![item].started = TRUE, ![item].index = e.next_index,
                            !.next_index = @ + 1]
        added == Event(opened, "item.added", item, e.next_index, << >>)
    IN  IF e[item].started THEN e
        ELSE Event(added, "part.added", item, e.next_index, << >>)

(* Faulty variant: the item may be closed again.                           *)
CloseAgain(e, item, final) ==
    LET index == e[item].index
        closed == [e EXCEPT ![item].done = TRUE, ![item].text = final]
    IN  IF ~ e[item].started THEN e
        ELSE Event(Event(Event(closed, "text.done", item, index, final),
                         "part.done", item, index, final),
                   "item.done", item, index, final)

(* close_reasoning and close_message                                       *)
Close(e, item, final) ==
    LET index == e[item].index
        closed == [e EXCEPT ![item].done = TRUE, ![item].text = final]
    IN  IF ~ e[item].started \/ e[item].done THEN e
        ELSE Event(Event(Event(closed, "text.done", item, index, final),
                         "part.done", item, index, final),
                   "item.done", item, index, final)

Delta(e, item, text) ==
    Event([e EXCEPT ![item].text = @ \o text], "delta", item, e[item].index, text)

ReasoningDelta(e, text) ==
    IF text = << >> THEN e ELSE Delta(Ensure(e, "reasoning"), "reasoning", text)

ContentDelta(e, text) ==
    IF text = << >> THEN e
    ELSE Delta(Ensure(Close(e, "reasoning", e.reasoning.text), "message"), "message", text)

NeedsMessage(o) == o.text # << >> \/ o.calls = 0

CallIds == <<"call_1", "call_2", "call_3">>

FunctionCall(e, number) ==
    LET index == e.next_index
        id == CallIds[number]
        added == Event([e EXCEPT !.next_index = @ + 1], "item.added", id, index, << >>)
        delta == Event(added, "delta", id, index, <<"f">>)
    IN  Event(Event(delta, "text.done", id, index, <<"f">>),
              "item.done", id, index, <<"f">>)

(* finish up to the message; the reasoning is new only when nothing was    *)
(* streamed, and the streamed content must be a prefix of the outcome.     *)
FinishText(e, o) ==
    LET thought == IF o.reasoning # << >> /\ ~ e.reasoning.started
                     THEN ReasoningDelta(e, o.reasoning) ELSE e
        closed == Close(thought, "reasoning", o.reasoning)
        opened == Ensure(closed, "message")
        suffix == From(o.text, Len(opened.message.text) + 1)
    IN  IF ~ NeedsMessage(o) THEN closed
        ELSE Close(IF suffix = << >> THEN opened ELSE Delta(opened, "message", suffix),
                   "message", o.text)

Contradicts(e, o) == NeedsMessage(o) /\ ~ IsPrefix(e.message.text, o.text)

FinishEvents(e, o) ==
    FoldLeft(FunctionCall, FinishText([e EXCEPT !.finish_built = TRUE], o),
             [k \in 1..o.calls |-> k])

(* build_response: the output items of the terminal object.                *)
BuiltOutput(o) ==
    (IF o.reasoning # << >> THEN <<[item |-> "reasoning", text |-> o.reasoning]>> ELSE << >>)
      \o (IF NeedsMessage(o) THEN <<[item |-> "message", text |-> o.text]>> ELSE << >>)
      \o [k \in 1..o.calls |-> [item |-> CallIds[k], text |-> <<"f">>]]

-----------------------------------------------------------------------------
(* The content provider                                                    *)

Flushed(e) == [e EXCEPT !.out = << >>]

(* Encode and write at once.                                               *)
Send(e, next) ==
    /\ Write(e.out, next)
    /\ encoder' = Flushed(e)
    /\ UNCHANGED connection

Start ==
    /\ stage = "new"
    /\ Send(Event(Event(encoder, "created", "response", 0, << >>),
                  "in_progress", "response", 0, << >>), "running")
    /\ UNCHANGED generationVars

OnReasoning(text) ==
    /\ Think(text)
    /\ Send(ReasoningDelta(encoder, text), "running")

OnContent(text) ==
    /\ Speak(text)
    /\ Send(ContentDelta(encoder, filter'.visible), "running")

RunReturns(finish) ==
    /\ Return(finish)
    /\ Send(ContentDelta(encoder, filter'.visible), "returned")

RunThrows ==
    /\ stage = "running"
    /\ stage' = "failing"
    /\ UNCHANGED <<generationVars, connection, wire, encoder>>

(* encoder->finish; nothing is written before the record is stored.        *)
BuildFinish ==
    /\ stage = "returned"
    /\ IF Contradicts(encoder, outcome)
         THEN stage' = "failing" /\ encoder' = [encoder EXCEPT !.finish_built = TRUE]
         ELSE stage' = "built" /\ encoder' = FinishEvents(encoder, outcome)
    /\ UNCHANGED <<generationVars, connection, wire>>

(* response_store_.put throws: the events of finish are never written.     *)
PutThrows ==
    /\ stage = "built"
    /\ stage' = "failing"
    /\ encoder' = Flushed(encoder)
    /\ UNCHANGED <<generationVars, connection, wire>>

WriteFinish ==
    /\ stage = "built"
    /\ Send(encoder, "terminal")
    /\ UNCHANGED generationVars

WriteTerminal ==
    /\ stage = "terminal"
    /\ encoder.finish_built /\ ~ encoder.terminal_emitted
    /\ Send(Event([encoder EXCEPT !.terminal_emitted = TRUE], outcome.finish, "response", 0, << >>),
            "done")
    /\ UNCHANGED generationVars

WriteFailed ==
    /\ stage = "failing"
    /\ ~ encoder.terminal_emitted
    /\ Send(Event([encoder EXCEPT !.terminal_emitted = TRUE], "failed", "response", 0, << >>),
            "done")
    /\ UNCHANGED generationVars

Next ==
    \/ Start
    \/ OnReasoning(<<"r">>)
    \/ \E text \in Pieces : OnContent(text)
    \/ \E finish \in Finishes : RunReturns(finish)
    \/ RunThrows \/ BuildFinish \/ PutThrows
    \/ WriteFinish \/ WriteTerminal \/ WriteFailed
    \/ stage \notin {"done", "disconnected"} /\ (Stall \/ Resume \/ Leave) /\ UNCHANGED encoder

Spec == Init /\ [][Next]_vars

-----------------------------------------------------------------------------
Terminals == {"completed", "incomplete", "cancelled", "failed"}
Of(item) == SelectSeq(wire, LAMBDA e : e.item = item)
Items == {wire[i].item : i \in DOMAIN wire} \ {"response"}
DeltasOf(item) == Received(LAMBDA e : e.type = "delta" /\ e.item = item)

(* Where an event stands in the life of its item.                          *)
Rank(type) ==
    CASE type = "item.added" -> 1 [] type = "part.added" -> 2 [] type = "delta" -> 3
      [] type = "text.done" -> 4 [] type = "part.done" -> 5 [] OTHER -> 6

(* Every item lives the documented life: announced, opened, streamed,      *)
(* closed; no delta comes after its done event, none of the framing events *)
(* comes twice, and its output index never changes, whatever the channels, *)
(* the tool filter and the end of the generation do.  A frontend that goes *)
(* back to reasoning after content breaks it.                              *)
ItemsLiveOnce ==
    \A item \in Items :
      LET events == Of(item)
      IN  /\ events[1].type = "item.added"
          /\ \A i, j \in DOMAIN events :
               /\ events[i].index = events[j].index
               /\ i < j => \/ Rank(events[i].type) < Rank(events[j].type)
                           \/ events[i].type = "delta" /\ events[j].type = "delta"

OutcomeSent == \E i \in DOMAIN wire : wire[i].type \in {"completed", "incomplete", "cancelled"}

(* The terminal object tells the client nothing new: its output array has  *)
(* the streamed items, and the deltas of an item together are its text.    *)
DeltasMakeTheItems ==
    OutcomeSent =>
      LET output == BuiltOutput(outcome)
      IN  /\ Items = {output[k].item : k \in DOMAIN output}
          /\ \A k \in DOMAIN output : DeltasOf(output[k].item) = output[k].text

(* The output array has the items at the indices under which all their     *)
(* events were sent, and with the text of their done event.                *)
ItemsKeepTheirPlaces ==
    OutcomeSent =>
      LET output == BuiltOutput(outcome)
      IN  \A k \in DOMAIN output, i \in DOMAIN wire :
            wire[i].item = output[k].item =>
              /\ wire[i].index = k - 1
              /\ wire[i].type = "item.done" => wire[i].text = output[k].text

(* Sequence numbers increase, and a terminal event is the last one: the    *)
(* stream has at most one, also when the store fails after the finishing   *)
(* events have been built.                                                 *)
OneTerminalAndInOrder ==
    /\ \A i \in 1..(Len(wire) - 1) :
         /\ wire[i].sequence < wire[i + 1].sequence
         /\ wire[i].type \notin Terminals
    /\ stage = "done" <=> wire # << >> /\ wire[Len(wire)].type \in Terminals

(* finish never finds streamed content that the outcome contradicts: its   *)
(* logic_error is unreachable, whatever the filter held back.              *)
StreamNeverContradicts == stage = "returned" => ~ Contradicts(encoder, outcome)
=============================================================================
