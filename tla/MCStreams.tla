------------------------------- MODULE MCStreams -------------------------------
(* Instances of ResponsesStream and MessagesStream for TLC: the request    *)
(* came to one endpoint or to the other, a Qwen or a Muse session decodes  *)
(* its output, and text arrives in pieces that cut markers and calls in    *)
(* two and may turn out to be neither.                                     *)
EXTENDS StreamedGeneration

VARIABLES
    api,        \* which endpoint has the request
    encoder,    \* see ResponsesStream
    blocks      \* see MessagesStream

ResponsesPieces == {<<"x">>, <<" ">>, <<"<", "q">>, <<">", "f">>, <<"Q">>}
MessagesPieces == {<<"x">>, <<" ">>, <<"<">>, <<"a", ">">>, <<"i", "A">>, <<"q", ">", "f", "Q">>}

(* Thought, text, a cut call and its rest, or an answer that thinks again. *)
BothFrontends == [Qwen |-> 5, Muse |-> 4]

Responses == INSTANCE ResponsesStream WITH Pieces <- ResponsesPieces
Messages == INSTANCE MessagesStream WITH Pieces <- MessagesPieces

Unused == << >>

StreamsInit ==
    \/ api = "responses" /\ Responses!Init /\ blocks = Unused
    \/ api = "messages" /\ Messages!Init /\ encoder = Unused

StreamsNext ==
    /\ \/ api = "responses" /\ Responses!Next /\ UNCHANGED blocks
       \/ api = "messages" /\ Messages!Next /\ UNCHANGED encoder
    /\ UNCHANGED api

StreamsSpec == StreamsInit /\ [][StreamsNext]_<<api, encoder, blocks, streamVars>>

-----------------------------------------------------------------------------
(* The properties of the two streams, each for its own endpoint; they are  *)
(* stated in full where the stream is modelled.                            *)

(* The filter passes on what can be no call: text is held only while it is *)
(* a proper beginning of a marker, and the reading of the whole output at  *)
(* the end never contradicts what was streamed (the logic_error of finish  *)
(* is unreachable).                                                        *)
FilterIsFaithful ==
    /\ StreamTypeOK
    /\ OnlyAmbiguousTextIsHeld
    /\ api = "responses" => Responses!StreamNeverContradicts

(* The end of a stream tells what was streamed, whichever channel came     *)
(* when: the terminal response has the announced items with the text of    *)
(* their deltas, and who has seen message_stop has the whole message.      *)
EndTellsWhatWasStreamed ==
    IF api = "responses" THEN Responses!DeltasMakeTheItems ELSE Messages!MessageIsComplete

(* Responses: sequence numbers increase up to the only terminal event.     *)
OneTerminalAndInOrder == api = "responses" => Responses!OneTerminalAndInOrder

(* Where thinking comes first, the two encoders keep both promises: the    *)
(* tail of the filter, the calls and the end of the output open and close  *)
(* every item and block once, in the order of the terminal object, whether *)
(* it was never announced, is open or was closed by the other channel.     *)
ThinkingFirstKeepsOrder ==
    frontend = "Qwen" =>
      IF api = "responses" THEN Responses!ItemsLiveOnce /\ Responses!ItemsKeepTheirPlaces
                           ELSE Messages!BlocksFollowEachOther
=============================================================================
