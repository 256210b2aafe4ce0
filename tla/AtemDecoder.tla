------------------------------ MODULE AtemDecoder ------------------------------
(***************************************************************************)
(* OutputSession of the Muse Glimmer frontend (frontend/frontend.cpp).     *)
(* The model writes ATEM messages: a header that names the recipient, the  *)
(* message token, a body, and the end-of-message token.  A message to      *)
(* itself is reasoning, every other one content, and messages may follow   *)
(* each other in any order.                                                *)
(***************************************************************************)
EXTENDS ChannelDecoder

CONSTANTS
    StartToken, MessageToken, EomToken,
    ParseAtem,          \* a generation prompt was rendered and output is not raw
    Assistant,          \* "assistant", the role the prompt ends with
    Recipient,          \* " to="
    Self,               \* "self"
    Rounds              \* bound: the token sequences a round may consist of

ASSUME TokenAssumption == {StartToken, MessageToken, EomToken} \subseteq Vocabulary
ASSUME RoundAssumption == \A tokens \in Rounds : tokens # << >> /\ tokens \in Seq(Vocabulary)

VARIABLES
    state,      \* DecoderState
    finish,     \* "none", why the output ended, or what preview threw
    published,  \* published[c]: the text handed out for channel c
    history     \* the tokens accepted so far

vars == <<state, finish, published, history>>

Body(d) == d.stage \in {"reasoning", "content", "plain"}
StageChannel(d) == IF d.stage = "reasoning" THEN "reasoning" ELSE "content"

-----------------------------------------------------------------------------
FeedDecodedText(d, text, matching) ==
    IF Body(d) THEN FeedChannel(d, StageChannel(d), text, matching)
               ELSE [d EXCEPT !.header_pending = @ \o text]

FeedTokenBytes(d, bytes) ==
    LET pending == d.utf8_pending \o bytes
        valid == Len(pending) - (IF Dangling(pending) THEN 1 ELSE 0)
    IN  FeedDecodedText([d EXCEPT !.utf8_pending = From(pending, valid + 1)],
                        Begin(pending, valid), TRUE)

FlushIncompleteUtf8(d) ==
    IF d.utf8_pending = << >> THEN d
    ELSE FeedDecodedText([d EXCEPT !.utf8_pending = << >>], <<"?">>, FALSE)

(* The channel a header asks for, and whether it is one.                   *)
Addressed(header) ==
    /\ IsPrefix(Assistant \o Recipient, header)
    /\ Len(header) > Len(Assistant \o Recipient)
ToSelf(header) == header = Assistant \o Recipient \o Self
WellFormed(header) == header = Assistant \/ Addressed(header)

(* A malformed header is data of a content message.                        *)
OpenWith(d, header) ==
    LET opened == [d EXCEPT !.header_pending = << >>,
                            !.stage = IF ToSelf(header) THEN "reasoning" ELSE "content"]
    IN  IF WellFormed(header) THEN opened
                              ELSE FeedChannel(opened, "content", header, FALSE)

OpenAtemMessage(d) ==
    LET flushed == FlushIncompleteUtf8(d) IN OpenWith(flushed, Trim(flushed.header_pending))

CloseBody(d) == IF Body(d) THEN CloseChannel(d, StageChannel(d)) ELSE d

CloseAtemMessage(d) ==
    [CloseBody(FlushIncompleteUtf8(d)) EXCEPT !.stage = "between", !.header_pending = << >>]

(* Whether a token is framing in this state.                               *)
Protocol(d, token) ==
    /\ d.stage # "plain"
    /\ \/ token \in {StartToken, EomToken}
       \/ token = MessageToken /\ ~ Body(d)

FeedProtocolToken(d, token) ==
    CASE ~ Protocol(d, token)  -> FeedTokenBytes(d, Spelling[token])
      [] token = StartToken    -> [CloseAtemMessage(d) EXCEPT !.stage = "header"]
      [] token = MessageToken  -> OpenAtemMessage(d)
      [] OTHER                 -> CloseAtemMessage(d)

(* Output that ends in a header publishes it as content.                   *)
FlushHeader(d) ==
    IF Body(d) THEN d
    ELSE [FeedChannel(d, "content", d.header_pending, FALSE) EXCEPT !.header_pending = << >>]

DrainChannels(d) ==
    [CloseChannel(d, StageChannel(d)) EXCEPT !.stop_pending = [c \in Channels |-> << >>]]

Terminalize(d) == DrainChannels(FlushHeader(FlushIncompleteUtf8(d)))

CountReasoning(d, token) ==
    [d EXCEPT !.reasoning_tokens = @ + (IF d.stage = "reasoning" THEN 1 ELSE 0)]

(* PublishedOutput has room for two deltas.                                *)
Overflows(d) == Len(d.out) > 2 \/ Len(d.match.out) > 2

(* preview, token by token; acc is the decoder with what was accepted.     *)
Ends(d, accepted, why) ==
    [d |-> d, accepted |-> accepted, finish |-> IF Overflows(d) THEN "overflow" ELSE why]

AcceptToken(fed, token, accepted) ==
    IF fed.match.found /\ ~ Overflows(fed)
      THEN Ends([fed EXCEPT !.out = fed.match.out], accepted, "stop_string")
    ELSE IF token \in StopTokens THEN Ends(Terminalize(fed), accepted, "stop_token")
    ELSE Ends(fed, accepted, "none")

PreviewToken(acc, token) ==
    LET before == CountReasoning([acc.d EXCEPT !.match = NoMatch], token)
        legal == Protocol(before, token) \/ ValidUtf8(before.utf8_pending \o Spelling[token])
    IN  IF acc.finish # "none" THEN acc
        ELSE IF token \in StopTokens /\ ~ PublishStopToken
          THEN Ends(Terminalize(before), acc.accepted + 1, "stop_token")
        ELSE IF ~ legal THEN [acc EXCEPT !.finish = "error"]
        ELSE AcceptToken(FeedProtocolToken(before, token), token, acc.accepted + 1)

EndAtLimit(acc, full) ==
    IF acc.finish = "none" /\ full THEN Ends(Terminalize(acc.d), acc.accepted, "limit") ELSE acc

Preview(tokens, remaining) ==
    LET start == [d |-> [state EXCEPT !.out = << >>], accepted |-> 0, finish |-> "none"]
    IN  EndAtLimit(FoldLeft(PreviewToken, start, tokens), Len(tokens) = remaining)

(* commit_preview                                                          *)
Commit(d) ==
    /\ state' = [d EXCEPT !.match = NoMatch]
    /\ published' = [c \in Channels |-> published[c] \o ChannelText(d.out, c)]

(* The executor commits what was previewed, unless preview threw.          *)
Adopt(tokens, acc) ==
    /\ finish' = acc.finish
    /\ IF acc.finish \in {"error", "overflow"}
         THEN UNCHANGED <<state, published, history>>
         ELSE /\ Commit(acc.d)
              /\ history' = history \o Begin(tokens, acc.accepted)

Round(tokens) ==
    /\ finish = "none"
    /\ Len(tokens) <= Budget - Len(history)
    /\ Adopt(tokens, Preview(tokens, Budget - Len(history)))

(* preview_terminal: a cancellation or the context limit between rounds.   *)
EndBetweenRounds ==
    /\ finish = "none"
    /\ Commit(Terminalize([state EXCEPT !.out = << >>]))
    /\ finish' = "limit"
    /\ UNCHANGED history

Init ==
    /\ state = [utf8_pending |-> << >>,
                header_pending |-> IF ParseAtem THEN Assistant ELSE << >>,
                stop_pending |-> [c \in Channels |-> << >>],
                stage |-> IF ParseAtem THEN "header" ELSE "plain",
                decoded_bytes |-> 0, reasoning_tokens |-> 0,
                out |-> << >>, match |-> NoMatch]
    /\ finish = "none"
    /\ published = [c \in Channels |-> << >>]
    /\ history = << >>

Next == (\E tokens \in Rounds : Round(tokens)) \/ EndBetweenRounds

Spec == Init /\ [][Next]_vars

-----------------------------------------------------------------------------
(* The reference: the messages of the whole token sequence, found by       *)
(* position and without buffers.  A message starts after a start or end-   *)
(* of-message token, or after the prompt.                                  *)

Ended == {"stop_string", "stop_token", "limit"}

(* The tokens that were decoded: a stop token may be left out.             *)
Decoded == IF finish = "stop_token" /\ ~ PublishStopToken THEN Len(history) - 1 ELSE Len(history)

Framing(n) == {0} \union {p \in 1..n : ParseAtem /\ history[p] \in {StartToken, EomToken}}
EndOf(p, n) == Min({q \in Framing(n) : q > p} \union {n + 1})
Opener(p, end) == Min({m \in (p + 1)..(end - 1) : history[m] = MessageToken} \union {end})

(* The text of the tokens i..j; half a code point is replaced at the end   *)
(* of a message and still missing before.                                  *)
Completed(text, closed) ==
    IF Dangling(text) THEN Front(text) \o (IF closed THEN <<"?">> ELSE << >>) ELSE text
Spelled(i, j, closed) ==
    Completed(FoldLeft(LAMBDA acc, t : acc \o Spelling[t], << >>, SubSeq(history, i, j)), closed)

HeaderOf(p, opener) ==
    (IF p = 0 /\ ParseAtem THEN Assistant ELSE << >>) \o Spelled(p + 1, opener - 1, TRUE)

Addressee(header, body) ==
    [channel |-> IF ToSelf(header) THEN "reasoning" ELSE "content",
     text |-> (IF WellFormed(header) THEN << >> ELSE header) \o body]

(* What the message after p says, and on which channel.  The last header   *)
(* of an output that ends in it is content; other headers without a        *)
(* message are dropped.                                                    *)
MessageBetween(p, opener, end, n, closed) ==
    CASE ~ ParseAtem -> [channel |-> "content", text |-> Spelled(1, n, closed)]
      [] ParseAtem /\ opener = end ->
           [channel |-> "content",
            text |-> IF end = n + 1 /\ closed THEN HeaderOf(p, opener) ELSE << >>]
      [] OTHER ->
           Addressee(Trim(HeaderOf(p, opener)),
                     Spelled(opener + 1, end - 1, closed \/ end <= n))

MessageAfter(p, n, closed) ==
    LET end == EndOf(p, n) IN MessageBetween(p, Opener(p, end), end, n, closed)

(* All messages of the first n tokens, in order.                           *)
Transcript(n, closed) ==
    LET starts == SelectSeq([i \in 1..(n + 1) |-> i - 1], LAMBDA p : p \in Framing(n))
    IN  [i \in DOMAIN starts |-> MessageAfter(starts[i], n, closed)]

Said(n, channel, closed) == ChannelText(Transcript(n, closed), channel)

(* The message that is open after n tokens, and how much of it is body; a  *)
(* malformed header is published without looking for stop strings.         *)
Current(n) == MessageAfter(Max(Framing(n)), n, FALSE)
BodySize(n) ==
    Len(Spelled(IF ParseAtem THEN Opener(Max(Framing(n)), n + 1) + 1 ELSE 1, n, FALSE))

(* Where stop string i ends in the body, the last `size` symbols.          *)
Matches(text, size, i) ==
    {at \in Occurrences(text, StopStrings[i].text) :
       at + Len(StopStrings[i].text) - 1 > Len(text) - size}
StopsOf(message, size) ==
    {i \in DOMAIN StopStrings :
       StopStrings[i].channel = message.channel /\ Matches(message.text, size, i) # {}}
StopsIn(n) == StopsOf(Current(n), BodySize(n))

(* What is cut off behind the earliest of them, its own text included      *)
(* unless the policy keeps it.                                             *)
CutBehind(text, size, stops) ==
    LET At(i) == Min(Matches(text, size, i))
        first == CHOOSE i \in stops :
                   \A j \in stops : At(i) < At(j) \/ (At(i) = At(j) /\ i <= j)
        kept == IF StopStrings[first].include THEN Len(StopStrings[first].text) ELSE 0
    IN  Len(text) - (At(first) - 1) - kept
CutOff(n) == CutBehind(Current(n).text, BodySize(n), StopsIn(n))

(* Every variable has its type, and only the channel of the open message   *)
(* holds text back for a stop string.                                      *)
TypeOK ==
    /\ finish \in {"none", "error", "overflow"} \union Ended
    /\ state.stage \in {"plain", "header", "between", "reasoning", "content"}
    /\ \A c \in Channels : published[c] \in Seq(STRING)
    /\ history \in Seq(Vocabulary) /\ Len(history) <= Budget
    /\ finish = "none" =>
         \A c \in Channels :
           ~ Body(state) \/ StageChannel(state) # c => state.stop_pending[c] = << >>

(* When the output ends, each channel has published exactly the messages   *)
(* addressed to it, up to the stop string if one ended it, however they    *)
(* were cut into rounds and tokens: nothing is lost at a message boundary  *)
(* and no text crosses from one channel to the other.                      *)
PublishedMatchesTranscript ==
    /\ finish \in {"stop_token", "limit"} =>
         \A c \in Channels : published[c] = Said(Decoded, c, TRUE)
    /\ finish = "stop_string" =>
         \A c \in Channels :
           LET said == Said(Decoded, c, FALSE)
           IN  published[c] = IF c = Current(Decoded).channel
                                THEN Begin(said, Len(said) - CutOff(Decoded))
                                ELSE said

(* What was published never has to be taken back: before the end each      *)
(* channel has published a prefix of what its messages say.                *)
NothingToRetract ==
    finish = "none" =>
      \A c \in Channels : IsPrefix(published[c], Said(Len(history), c, FALSE))

(* The output ends at the first token that completes a stop string inside  *)
(* a message, and stop strings never match across a message boundary.      *)
StopsAtFirstMatch ==
    finish \in {"none"} \union Ended =>
      \A n \in 0..Decoded : StopsIn(n) # {} => finish = "stop_string" /\ n = Len(history)

(* reasoning_tokens counts the tokens of messages to itself, the closing   *)
(* one included, and nothing else.                                         *)
ReasoningTokensAreExact ==
    finish \notin {"error", "overflow"} =>
      state.reasoning_tokens =
        Cardinality({i \in 1..Len(history) :
          ParseAtem /\ LET p == Max({q \in Framing(Len(history)) : q < i})
                           opener == Opener(p, EndOf(p, Len(history)))
                       IN  opener < i /\ ToSelf(Trim(HeaderOf(p, opener)))})
=============================================================================
