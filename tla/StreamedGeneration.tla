--------------------------- MODULE StreamedGeneration ---------------------------
(***************************************************************************)
(* One streamed request between GenerationService::run and the client: the *)
(* generation publishes reasoning and content, the ServiceOutputSink       *)
(* filters tool calls, and an encoder writes events to a connection that   *)
(* may stall, recover or break at any write.                               *)
(*                                                                         *)
(* The modules that extend this one add the encoders.  Everything happens  *)
(* on the handler's thread; only the connection has a life of its own.     *)
(***************************************************************************)
EXTENDS ToolCallStream

CONSTANT MaxPieces  \* for each frontend considered, bound: deltas of a generation

ASSUME MaxPiecesAssumption ==
    /\ DOMAIN MaxPieces \subseteq {"Qwen", "Muse"}
    /\ \A f \in DOMAIN MaxPieces : MaxPieces[f] \in Nat

VARIABLES
    stage,          \* where the content provider is
    frontend,       \* whose output session decodes the tokens
    tool_capable,   \* PreparedRequest::tool_capable
    deltas,         \* history: the deltas of the generation, [channel, text]
    filter,         \* ToolCallStreamFilter
    outcome,        \* GenerationOutcome, once run has returned
    connection,     \* "open", "stalled" (not writable for now), "gone"
    wire            \* the events the client has received

generationVars == <<frontend, tool_capable, deltas, filter, outcome>>
streamVars == <<stage, generationVars, connection, wire>>

TextOf(channel) ==
    FoldLeft(LAMBDA text, d : IF d.channel = channel THEN text \o d.text ELSE text,
             << >>, deltas)

NoOutcome == [finish |-> "none", reasoning |-> << >>, text |-> << >>, calls |-> 0]

StreamInit ==
    /\ stage = "new"
    /\ frontend \in DOMAIN MaxPieces
    /\ tool_capable \in BOOLEAN
    /\ deltas = << >>
    /\ filter = NewFilter
    /\ outcome = NoOutcome
    /\ connection = "open"
    /\ wire = << >>

-----------------------------------------------------------------------------
(* httplib's sink: is_writable waits for the socket to drain and gives up  *)
(* after the write timeout, so a slow client may be unwritable for a while *)
Stall ==
    /\ connection = "open" /\ connection' = "stalled"
    /\ UNCHANGED <<stage, generationVars, wire>>

Resume ==
    /\ connection = "stalled" /\ connection' = "open"
    /\ UNCHANGED <<stage, generationVars, wire>>

Leave ==
    /\ connection # "gone" /\ connection' = "gone"
    /\ UNCHANGED <<stage, generationVars, wire>>

(* write_stream_item for each event; the first that cannot be written      *)
(* throws ClientDisconnected and ends the stream.                          *)
Write(events, next) ==
    \/ /\ events = << >> \/ connection = "open"
       /\ wire' = wire \o events
       /\ stage' = next
    \/ \E k \in 0..(Len(events) - 1) :
         /\ k > 0 => connection = "open"
         /\ wire' = wire \o Begin(events, k)
         /\ stage' = "disconnected"

-----------------------------------------------------------------------------
(* The generation, seen from OutputSink::publish.                          *)

(* A Qwen session starts in its reasoning and leaves it at </think> for    *)
(* good; a Muse session opens messages to self and to the user in any      *)
(* order.                                                                  *)
StillInReasoning == \A i \in DOMAIN deltas : deltas[i].channel = "reasoning"
MayThink == frontend = "Muse" \/ StillInReasoning

Think(text) ==
    /\ stage = "running" /\ Len(deltas) < MaxPieces[frontend]
    /\ MayThink
    /\ deltas' = Append(deltas, [channel |-> "reasoning", text |-> text])
    /\ UNCHANGED <<frontend, tool_capable, filter, outcome>>

(* publish feeds the filter only for a request that may call tools.        *)
Speak(text) ==
    /\ stage = "running" /\ Len(deltas) < MaxPieces[frontend]
    /\ deltas' = Append(deltas, [channel |-> "content", text |-> text])
    /\ filter' = IF tool_capable THEN Feed(filter, text) ELSE [filter EXCEPT !.visible = text]
    /\ UNCHANGED <<frontend, tool_capable, outcome>>

(* The end of run: the parser decides, and the filter lets go of its text. *)
(* A cancelled generation ends the same way; run's cancellation view asked *)
(* whether the sink was writable.                                          *)
Return(finish) ==
    /\ stage = "running"
    /\ finish = "cancelled" => connection # "open"
    /\ LET text == TextOf("content")
           calls == IF tool_capable THEN ToolCalls(text) ELSE 0
       IN  /\ outcome' = [finish |-> finish, reasoning |-> TextOf("reasoning"), calls |-> calls,
                          text |-> IF tool_capable THEN ParsedContent(text) ELSE text]
           /\ filter' = IF tool_capable THEN Finish(filter, calls > 0)
                                        ELSE [filter EXCEPT !.visible = << >>]
    /\ UNCHANGED <<frontend, tool_capable, deltas>>

Finishes == {"completed", "incomplete", "cancelled"}

-----------------------------------------------------------------------------
(* What a client can put together from its events.                         *)

Received(Wanted(_)) ==
    FoldLeft(LAMBDA text, e : IF Wanted(e) THEN text \o e.text ELSE text, << >>, wire)

(* Every variable has its type, and only a seen marker opens a region.     *)
StreamTypeOK ==
    /\ stage \in {"new", "running", "returned", "built", "terminal", "failing", "done",
                  "disconnected"}
    /\ frontend \in DOMAIN MaxPieces /\ tool_capable \in BOOLEAN
    /\ connection \in {"open", "stalled", "gone"}
    /\ outcome.calls \in Nat
    /\ filter.saw \/ filter.region = << >>

(* Ordinary text is not held back: what the filter keeps before a marker   *)
(* was seen is white space followed by a proper beginning of a marker, so  *)
(* the client is never behind by a complete word.                          *)
OnlyAmbiguousTextIsHeld ==
    stage = "running" /\ ~ filter.saw =>
      LET held == StripLeading(filter.pending)
      IN  \E open \in Opens, n \in 0..2 : held = Begin(open, n)
=============================================================================
