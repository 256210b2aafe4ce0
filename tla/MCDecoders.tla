------------------------------ MODULE MCDecoders ------------------------------
(* Instances of AtemDecoder and OutputDecoder for TLC: the program has the *)
(* output session of one frontend or of the other.                         *)
EXTENDS AtemDecoder, TLC

VARIABLES
    frontend,   \* which session this is
    deltas      \* see OutputDecoder

(* Muse: headers and stop strings span tokens, a code point spans two, and *)
(* messages follow each other in any order.                                *)
MuseSpelling ==
    "start" :> << >> @@ "message" :> << >> @@ "eom" :> << >> @@ "eot" :> << >>
    @@ "role" :> <<"A">> @@ "to" :> <<" ", "=">> @@ "self" :> <<"s">>
    @@ "a" :> <<"a">> @@ "b" :> <<"b">> @@ "half" :> <<"h">> @@ "rest" :> <<"t">>
MuseAssistant == <<"A">>
MuseRecipient == <<" ", "=">>
MuseSelf == <<"s">>
MuseStops == <<[channel |-> "content", text |-> <<"a", "b">>, include |-> TRUE],
               [channel |-> "reasoning", text |-> <<"b", "a">>, include |-> FALSE]>>

(* Rounds of one token, and of the shapes a verified draft may have.       *)
MuseRounds ==
    {<<t>> : t \in {"message", "eom", "eot", "to", "a", "half"}}
      \union {<<"to", "self", "message">>, <<"self", "message", "b">>,
              <<"eom", "start", "role">>, <<"b", "a">>, <<"rest", "eom">>,
              <<"b", "eom", "message", "a">>}

(* Qwen: the end-of-thinking marker "<>", stop strings that overlap each   *)
(* other and themselves, and a two-byte code point span tokens.            *)
QwenSpelling ==
    "a" :> <<"a">> @@ "b" :> <<"b">> @@ "ab" :> <<"a", "b">> @@ "<" :> <<"<">>
    @@ ">" :> <<">">> @@ "gap" :> <<" ">> @@ "half" :> <<"h">> @@ "rest" :> <<"t">>
    @@ "eos" :> << >> @@ "close" :> <<"<", ">", " ">>
QwenStops == <<[channel |-> "content", text |-> <<"a", "a", "b">>, include |-> FALSE],
               [channel |-> "content", text |-> <<"b", "a">>, include |-> TRUE],
               [channel |-> "reasoning", text |-> <<"b", "<">>, include |-> FALSE]>>

Qwen == INSTANCE OutputDecoder
          WITH Vocabulary <- DOMAIN QwenSpelling, Spelling <- QwenSpelling,
               StopTokens <- {"eos"}, StopStrings <- QwenStops, Budget <- 5,
               StartsInReasoning <- TRUE, RoundTokens <- 2

DecodersInit ==
    \/ frontend = "muse" /\ Init /\ deltas = << >>
    \/ frontend = "qwen" /\ Qwen!Init

DecodersNext ==
    /\ \/ frontend = "muse" /\ Next /\ UNCHANGED deltas
       \/ frontend = "qwen" /\ Qwen!Next
    /\ UNCHANGED frontend

DecodersSpec == DecodersInit /\ [][DecodersNext]_<<frontend, deltas, vars>>

-----------------------------------------------------------------------------
(* The properties of the two modules, each for its own session; the parts  *)
(* are stated where the session is modelled.                               *)

(* Decoding round by round is decoding the whole output at once: what each *)
(* channel has published is a prefix of its reference text, complete when  *)
(* the output ends, which it does at the first token that completes a stop *)
(* string; text is held back only short of one.  A round of Qwen also has  *)
(* one delta at most for each channel, reasoning first.                    *)
SessionDecodesOutput ==
    IF frontend = "muse"
    THEN /\ TypeOK
         /\ NothingToRetract
         /\ PublishedMatchesTranscript
         /\ StopsAtFirstMatch
    ELSE /\ Qwen!TypeOK
         /\ Qwen!NothingToRetract
         /\ Qwen!PublishedMatchesReference
         /\ Qwen!StopsAtFirstMatch
         /\ Qwen!AtMostOneDeltaPerChannel

(* reasoning_tokens is the number of accepted tokens of the reasoning      *)
(* messages (Muse), or before the end-of-thinking marker is complete       *)
(* (Qwen), however the rounds cut them.                                    *)
SessionCountsReasoning ==
    IF frontend = "muse" THEN ReasoningTokensAreExact ELSE Qwen!ReasoningTokensAreExact
=============================================================================
